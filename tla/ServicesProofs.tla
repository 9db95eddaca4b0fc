----------------------------- MODULE ServicesProofs -----------------------------
(*****************************************************************************)
(* Theorems about the parts that share no state: credentials (Access), the  *)
(* content of attached files (Attachments), the directory of what a phone   *)
(* sent (Bundle), following an execution (Live) and shared templates        *)
(* (Templates), each for every value of its constants.                      *)
(*****************************************************************************)
EXTENDS Access, Attachments, Bundle, Live, Templates, FiniteSetTheorems, TLAPS

-----------------------------------------------------------------------------
(*****************************************************************************)
(* Access.  Credentials are only ever ones that were issued, and an         *)
(* execution has one upload link unless two creations overlapped.           *)
(*                                                                          *)
(* The type invariant needs that a call of connect_server that asks about a *)
(* token or stores it has one.  OneUploadLink needs that a request which    *)
(* found no link and has not written one is alone, and that there is none.  *)
(*****************************************************************************)

(* A call past the redirect has a token of the server.                      *)
AttemptHasToken ==
  \A k \in Attempts : attempt[k].pc \in {"asking", "linking"} => attempt[k].token \in 1..issued

AccessInv == AccessTypeOK /\ AttemptHasToken

(* One request at a time is about to write a link, and only without one.    *)
LinkInv ==
  overlapped \/
    /\ \A q, r \in LinkRequests :
         request[q].pc = "creating" /\ request[r].pc = "creating" => q = r
    /\ \A r \in LinkRequests : request[r].pc = "creating" => links = {}
    /\ \A s, t \in links : s = t

-----------------------------------------------------------------------------
(* The initial state.                                                       *)
LEMMA AccessInvInit == AccessInit => AccessInv
<1> SUFFICES ASSUME AccessInit
             PROVE  AccessInv
  OBVIOUS
<1> USE AccessBoundsAssumption DEF AccessInit, NotAsked, NotSyncing
<1>1. /\ issued \in 0..MaxTokens /\ live \subseteq 1..issued
      /\ link \in 1..issued \cup {NotLinked}
      /\ connectPage \in [Attempts -> 0..issued]
      /\ outages \in 0..MaxOutages
      /\ linksMade \in 0..MaxTokens /\ links \subseteq 1..linksMade
  OBVIOUS
<1>2. attempt \in [Attempts -> [pc : {"none", "listening", "asking", "linking", "ended"},
                                token : 0..issued]]
  OBVIOUS
<1>3. request \in [LinkRequests -> [pc : {"none", "creating", "removing", "done"},
                                    token : 0..linksMade]]
  OBVIOUS
<1>4. sync \in [pc : {"idle", "asked", "answered"}, token : 0..issued,
                outcome : {"none", "synced", "unauthorized", "unreachable"}]
  OBVIOUS
<1>5. /\ problem \in {"none", "unauthorized", "unreachable"}
      /\ overlapped \in BOOLEAN
      /\ AttemptHasToken
  BY DEF AttemptHasToken
<1> QED
  BY <1>1, <1>2, <1>3, <1>4, <1>5 DEF AccessInv, AccessTypeOK

(* Each step of connecting and of the background sync keeps the type.       *)
LEMMA ConnectStep == AccessInv /\ ConnectNext => AccessInv'
<1> SUFFICES ASSUME AccessInv, ConnectNext
             PROVE  AccessInv'
  OBVIOUS
<1> USE AccessBoundsAssumption DEF AccessInv, AccessTypeOK, AttemptHasToken, uploadVars
<1>1. ASSUME NEW k \in Attempts, BeginConnect(k)
      PROVE  AccessInv'
  BY <1>1 DEF BeginConnect
<1>2. ASSUME NEW k \in Attempts, IssueToken(k)
      PROVE  AccessInv'
  BY <1>2 DEF IssueToken
<1>3. ASSUME NEW k \in Attempts, Callback(k)
      PROVE  AccessInv'
  BY <1>3 DEF Callback
<1>4. ASSUME NEW k \in Attempts, TimeOut(k)
      PROVE  AccessInv'
  BY <1>4 DEF TimeOut
<1>5. ASSUME NEW k \in Attempts, AskMe(k)
      PROVE  AccessInv'
  <2>1. /\ \/ attempt' = [attempt EXCEPT ![k].pc = "linking"]
           \/ attempt' = [attempt EXCEPT ![k].pc = "ended"]
        /\ attempt[k].pc = "asking"
        /\ UNCHANGED << issued, live, connectPage, link, sync, problem, outages, uploadVars >>
    BY <1>5 DEF AskMe
  <2> QED
    BY <2>1
<1>6. ASSUME NEW k \in Attempts, SetLink(k)
      PROVE  AccessInv'
  BY <1>6 DEF SetLink
<1>7. CASE DisconnectServer
  BY <1>7 DEF DisconnectServer
<1>8. ASSUME NEW t \in DeviceTokens, RevokeToken(t)
      PROVE  AccessInv'
  BY <1>8 DEF RevokeToken
<1>9. CASE SyncStart
  BY <1>9 DEF SyncStart, Linked
<1>10. CASE SyncAnswered
  BY <1>10 DEF SyncAnswered
<1>11. CASE SyncUnreachable
  <2>1. outages' \in 0..MaxOutages
    BY <1>11 DEF SyncUnreachable
  <2>2. sync' \in [pc : {"idle", "asked", "answered"}, token : 0..issued,
                   outcome : {"none", "synced", "unauthorized", "unreachable"}]
    BY <1>11 DEF SyncUnreachable
  <2>3. UNCHANGED << issued, live, attempt, connectPage, link, problem, uploadVars >>
    BY <1>11 DEF SyncUnreachable
  <2> QED
    BY <2>1, <2>2, <2>3
<1>12. CASE SyncRecord
  BY <1>12 DEF SyncRecord, NotSyncing
<1> QED
  BY <1>1, <1>2, <1>3, <1>4, <1>5, <1>6, <1>7, <1>8, <1>9, <1>10, <1>11, <1>12
     DEF ConnectNext

(* Each step of a request about the upload link keeps the type.             *)
LEMMA UploadLinkTypeStep == AccessInv /\ UploadLinkNext => AccessInv'
<1> SUFFICES ASSUME AccessInv, NEW r \in LinkRequests,
                    FindLink(r) \/ WriteLink(r) \/ RemoveLink(r)
                      \/ \E t \in links : FindRevoked(r, t)
             PROVE  AccessInv'
  BY DEF UploadLinkNext
<1> USE AccessBoundsAssumption DEF AccessInv, AccessTypeOK, AttemptHasToken, connectVars
<1>1. CASE FindLink(r)
  <2>1. CASE links = {}
    BY <1>1, <2>1 DEF FindLink
  <2>2. CASE links # {}
    <3>1. (CHOOSE t \in links : TRUE) \in links
      BY <2>2
    <3>2. request' = [request EXCEPT ![r] = [pc |-> "done", token |-> CHOOSE t \in links : TRUE]]
      BY <1>1, <2>2 DEF FindLink
    <3> DEFINE t == CHOOSE t \in links : TRUE
    <3>3. \A u \in links : u \in 0..linksMade
      OBVIOUS
    <3>4. t \in 0..linksMade
      BY <3>1, <3>3, Zenon
    <3> HIDE DEF t
    <3>5. request' \in [LinkRequests -> [pc : {"none", "creating", "removing", "done"},
                                         token : 0..linksMade]]
      BY <3>2, <3>4 DEF t
    <3>6. UNCHANGED << links, linksMade, connectVars >>
      BY <1>1 DEF FindLink
    <3>7. overlapped' \in BOOLEAN
      BY <1>1, Zenon DEF FindLink
    <3> QED
      BY <3>5, <3>6, <3>7
  <2> QED
    BY <2>1, <2>2
<1>2. CASE WriteLink(r)
  BY <1>2 DEF WriteLink
<1>3. CASE RemoveLink(r)
  BY <1>3 DEF RemoveLink
<1>4. ASSUME NEW t \in links, FindRevoked(r, t)
      PROVE  AccessInv'
  BY <1>4 DEF FindRevoked
<1> QED
  BY <1>1, <1>2, <1>3, <1>4

(* Every step keeps the type.                                               *)
LEMMA AccessInvStep == AccessInv /\ [AccessNext]_accessVars => AccessInv'
<1>1. AccessInv /\ UNCHANGED accessVars => AccessInv'
  BY DEF AccessInv, AccessTypeOK, AttemptHasToken, accessVars
<1> QED
  BY <1>1, ConnectStep, UploadLinkTypeStep DEF AccessNext

-----------------------------------------------------------------------------
(* Every step keeps the upload links in order.                              *)
LEMMA LinkInvStep == AccessTypeOK /\ LinkInv /\ [AccessNext]_accessVars => LinkInv'
<1> SUFFICES ASSUME AccessTypeOK, LinkInv, [AccessNext]_accessVars
             PROVE  LinkInv'
  OBVIOUS
<1> USE DEF AccessTypeOK, LinkInv
<1>1. CASE UNCHANGED uploadVars
  BY <1>1 DEF uploadVars
<1>2. ASSUME NEW r \in LinkRequests, FindLink(r)
      PROVE  LinkInv'
  <2>1. CASE links = {}
    BY <1>2, <2>1 DEF FindLink
  <2>2. CASE links # {}
    <3>1. request' = [request EXCEPT ![r] = [pc |-> "done", token |-> CHOOSE t \in links : TRUE]]
      BY <1>2, <2>2 DEF FindLink
    <3>2. UNCHANGED << links, overlapped >>
      BY <1>2, <2>2 DEF FindLink
    <3> QED
      BY <3>1, <3>2
  <2> QED
    BY <2>1, <2>2
<1>3. ASSUME NEW r \in LinkRequests, WriteLink(r)
      PROVE  LinkInv'
  BY <1>3 DEF WriteLink
<1>4. ASSUME NEW r \in LinkRequests, RemoveLink(r)
      PROVE  LinkInv'
  BY <1>4 DEF RemoveLink
<1>5. ASSUME NEW r \in LinkRequests, NEW t \in links, FindRevoked(r, t)
      PROVE  LinkInv'
  BY <1>5 DEF FindRevoked
<1>6. CASE ConnectNext
  <2>1. UNCHANGED uploadVars
    BY <1>6 DEF ConnectNext, BeginConnect, IssueToken, Callback, TimeOut, AskMe, SetLink,
                DisconnectServer, RevokeToken, SyncStart, SyncAnswered, SyncUnreachable,
                SyncRecord
  <2> QED
    BY <1>1, <2>1
<1>7. CASE UNCHANGED accessVars
  BY <1>1, <1>7 DEF accessVars, uploadVars
<1> QED
  BY <1>2, <1>3, <1>4, <1>5, <1>6, <1>7 DEF AccessNext, UploadLinkNext

(* A set whose members are equal has at most one.                           *)
LEMMA AtMostOne ==
  ASSUME NEW S, \A s, t \in S : s = t
  PROVE  Cardinality(S) <= 1
<1>1. CASE S = {}
  BY <1>1, FS_EmptySet
<1>2. CASE S # {}
  <2>1. PICK s \in S : TRUE
    BY <1>2
  <2>2. S = {s}
    BY <2>1
  <2>3. Cardinality(S) = 1
    BY <2>2, FS_Singleton, Zenon
  <2> QED
    BY <2>3
<1> QED
  BY <1>1, <1>2

-----------------------------------------------------------------------------
(* The type invariant holds in every state: the workspace is linked with a  *)
(* token of the server or not at all (connect_server, set_link).            *)
THEOREM AccessTypeCorrect == AccessSpec => []AccessTypeOK
<1>1. AccessInv => AccessTypeOK
  BY DEF AccessInv
<1> QED
  BY <1>1, AccessInvInit, AccessInvStep, PTL DEF AccessSpec

(* An execution has one upload link unless two creations overlapped         *)
(* (get_or_create, revoke).                                                 *)
THEOREM OneLinkUnlessOverlapped == AccessSpec => []OneUploadLink
<1>1. AccessInit => LinkInv
  BY DEF AccessInit, LinkInv, NotAsked
<1>2. LinkInv => OneUploadLink
  BY AtMostOne DEF LinkInv, OneUploadLink
<1> QED
  BY <1>1, <1>2, LinkInvStep, AccessTypeCorrect, PTL DEF AccessSpec

-----------------------------------------------------------------------------
(*****************************************************************************)
(* Attachments.  Every log that names a file has its content, for all       *)
(* contents, names and settings.                                            *)
(*****************************************************************************)

(* The inductive invariant. *)

Pulling == fetch.pc \in {"checking", "downloaded", "writing"}

(* The file that the attaching action, or the sync, is writing now.         *)
Copied  == IF attaching.pc = "copying" THEN {attaching.file} ELSE {}
Written == IF fetch.pc = "writing" THEN {fetch.file} ELSE {}

(* A file is cut short only while one of the two writes it, or for good;    *)
(* what has been stored stays whole until its event is recorded.            *)
OneWriter ==
  /\ \A f \in Copied \cup Written : onDisk[f] = "part"
  /\ Copied \cap Written = {}
  /\ \A f \in Photos : onDisk[f] = "part" => f \in spoilt \cup Copied \cup Written
  /\ attaching.pc = "stored" => Whole(attaching.file)

(* Only a linked execution syncs; of the files that came with a sync, those *)
(* it is done with are there, as far as storing them here did not stop.     *)
SyncSound ==
  /\ fetch.pc # "idle" => place = "linked"
  /\ fetch.opening => Pulling
  /\ fetch.pc \in {"downloaded", "writing"} => fetch.file \in fetch.todo
  /\ Pulling => \A f \in fetch.found \ fetch.todo : Whole(f) \/ f \in spoilt \cup Copied

(* What is recorded here is stored. *)
HereSound ==
  /\ \A f \in kept : Whole(f) \/ (place = "linked" /\ (f \in spoilt \/ BeingStored(f)))
  /\ \A f \in ToSet(outbox) : Whole(f)

(* An import ends before there is anything to export; what it stored, and   *)
(* what an export read, belongs to the records.                             *)
StoredSound ==
  /\ serverLog \ bare \subseteq fileRows
  /\ ContentsOf(fileRows) \subseteq contents
  /\ importing.pc = "storing" =>
       ~ serverHas /\ ContentsOf(importing.log \ importing.todo) \subseteq contents
  /\ exporting.pc # "idle" => serverHas
  /\ exporting.pc = "rows" => exporting.log \ bare \subseteq fileRows
  /\ exporting.pc \in {"contents", "directory", "writing"} =>
       exporting.log \ bare \subseteq exporting.rows
  /\ exporting.pc = "writing" => exporting.rows \ exporting.todo \subseteq archive.files
  /\ archive.logged => archive.log \ bare \subseteq archive.files

AttachmentsInv ==
  /\ AttachmentsTypeOK
  /\ OneWriter /\ SyncSound /\ HereSound /\ StoredSound

-----------------------------------------------------------------------------
(* Types. *)

(* The records without work.                                                *)
LEMMA IdleTypes ==
  /\ NotAttaching \in AttachingSet
  /\ NotFetching \in FetchSet
  /\ NotImporting \in ImportSet
  /\ NotExporting \in ExportSet
<1>1. AnyPhoto \in Photos
  BY PhotosAssumption DEF AnyPhoto
<1> QED
  BY <1>1 DEF NotAttaching, NotFetching, NotImporting, NotExporting,
              AttachingSet, FetchSet, ImportSet, ExportSet

(* Attaching keeps every variable in its type.                              *)
LEMMA AttachType ==
  ASSUME AttachmentsTypeOK, AttachStep
  PROVE  AttachmentsTypeOK'
<1> USE IdleTypes DEF AttachmentsTypeOK, serverVars, transferVars
<1>1. ASSUME NEW n \in FileNames, Pick(n)
      PROVE  AttachmentsTypeOK'
  <2>1. attaching' \in AttachingSet
    BY <1>1 DEF Pick, Photos, AttachingSet
  <2> QED
    BY <1>1, <2>1 DEF Pick
<1>2. ASSUME NEW n \in FileNames, NEW c \in Contents, EditPicked(n, c)
      PROVE  AttachmentsTypeOK'
  BY <1>2 DEF EditPicked, Fault
<1>3. CASE StoreFile
  <2>1. attaching.file \in Photos /\ [attaching EXCEPT !.pc = "stored"] \in AttachingSet
        /\ [attaching EXCEPT !.pc = "copying"] \in AttachingSet
    BY DEF AttachingSet
  <2>2. attaching' \in AttachingSet
    BY <1>3, <2>1 DEF StoreFile
  <2>3. onDisk' \in [Photos -> {"absent", "part", "whole"}]
    BY <1>3, <2>1 DEF StoreFile
  <2> QED
    BY <1>3, <2>2, <2>3 DEF StoreFile
<1>4. CASE CopyFile
  <2>1. attaching.file \in Photos /\ [attaching EXCEPT !.pc = "stored"] \in AttachingSet
    BY DEF AttachingSet
  <2> QED
    BY <1>4, <2>1 DEF CopyFile
<1>5. CASE AppendEvent
  <2>1. attaching.file \in Photos
    BY DEF AttachingSet
  <2>2. outbox' \in Seq(Photos) /\ kept' \subseteq Photos /\ attached' \in Nat
    BY <1>5, <2>1, SMTT(30) DEF AppendEvent
  <2> QED
    BY <1>5, <2>2 DEF AppendEvent
<1>6. CASE StopAttaching
  <2>1. attaching.file \in Photos
    BY DEF AttachingSet
  <2> QED
    BY <1>6, <2>1 DEF StopAttaching, Fault
<1> QED
  BY <1>1, <1>2, <1>3, <1>4, <1>5, <1>6 DEF AttachStep

(* What is uploaded are files of the events that wait.                      *)
LEMMA UploadedType ==
  ASSUME AttachmentsTypeOK
  PROVE  Uploaded \subseteq Photos
<1>1. fetch.sent \in Seq(Photos)
  BY DEF AttachmentsTypeOK, FetchSet
<1> QED
  BY <1>1 DEF Uploaded

(* What is left of the outbox are events that wait.                         *)
LEMMA OutboxTail ==
  ASSUME AttachmentsTypeOK, SettleFiles
  PROVE  outbox' \in Seq(Photos) /\ ToSet(outbox') \subseteq ToSet(outbox)
<1> DEFINE m == Len(fetch.sent)
<1>1. outbox \in Seq(Photos) /\ m \in Nat
  BY DEF AttachmentsTypeOK, FetchSet
<1>2. outbox' = SubSeq(outbox, m + 1, Len(outbox))
  BY DEF SettleFiles
<1> HIDE DEF m
<1>3. outbox' \in Seq(Photos)
  BY <1>1, <1>2
<1>4. \A k \in DOMAIN outbox' : k + m \in DOMAIN outbox /\ outbox'[k] = outbox[k + m]
  BY <1>1, <1>2
<1> QED
  BY <1>3, <1>4 DEF ToSet

(* So does syncing ...                                                      *)
LEMMA FetchType ==
  ASSUME AttachmentsTypeOK, FetchStep
  PROVE  AttachmentsTypeOK'
<1> USE IdleTypes DEF hereVars, serverVars, transferVars
<1>0. fetch.file \in Photos /\ fetch.todo \subseteq Photos /\ fetch.found \subseteq Photos
  BY DEF AttachmentsTypeOK, FetchSet
<1>1. CASE StartSync
  <2>1. fetch' \in FetchSet
    BY <1>1 DEF StartSync, AttachmentsTypeOK, FetchSet
  <2> QED
    BY <1>1, <2>1 DEF StartSync, AttachmentsTypeOK
<1>2. ASSUME NEW clashing \in SUBSET Uploaded, PushFiles(clashing)
      PROVE  AttachmentsTypeOK'
  <2>1. ContentsOf(Uploaded) \subseteq Contents
    BY UploadedType DEF ContentsOf, Photos
  <2>2. fetch' \in FetchSet
    BY <1>2 DEF PushFiles, AttachmentsTypeOK, FetchSet
  <2> QED
    BY <1>2, <2>1, <2>2, UploadedType DEF PushFiles, AttachmentsTypeOK
<1>3. CASE PullFiles
  <2>1. fetch' \in FetchSet
    BY <1>3 DEF PullFiles, AttachmentsTypeOK, FetchSet
  <2> QED
    BY <1>3, <2>1 DEF PullFiles, AttachmentsTypeOK
<1>4. CASE OpenRemote
  <2>1. fetch' \in FetchSet
    BY <1>4 DEF OpenRemote, AttachmentsTypeOK, FetchSet
  <2> QED
    BY <1>4, <2>1 DEF OpenRemote, AttachmentsTypeOK
<1>5. ASSUME NEW f \in Photos, SkipPresent(f) \/ Download(f)
      PROVE  AttachmentsTypeOK'
  <2>1. fetch' \in FetchSet
    BY <1>5, ZenonT(40) DEF SkipPresent, Download, AttachmentsTypeOK, FetchSet
  <2> QED
    BY <1>5, <2>1 DEF SkipPresent, Download, AttachmentsTypeOK
<1>6. CASE StoreDownloaded
  <2>0. /\ [fetch EXCEPT !.pc = "writing"] \in FetchSet
        /\ \A todo \in SUBSET Photos : [fetch EXCEPT !.pc = "checking", !.todo = todo] \in FetchSet
    BY DEF AttachmentsTypeOK, FetchSet
  <2>1. fetch' \in FetchSet
    BY <1>0, <1>6, <2>0 DEF StoreDownloaded
  <2>2. onDisk' \in [Photos -> {"absent", "part", "whole"}]
    BY <1>0, <1>6 DEF StoreDownloaded, AttachmentsTypeOK
  <2> QED
    BY <1>6, <2>1, <2>2 DEF StoreDownloaded, AttachmentsTypeOK
<1>7. CASE WriteDownloaded
  <2>1. fetch' \in FetchSet
    BY <1>7 DEF WriteDownloaded, AttachmentsTypeOK, FetchSet
  <2> QED
    BY <1>0, <1>7, <2>1 DEF WriteDownloaded, AttachmentsTypeOK
<1>8. CASE SettleFiles
  <2>1. kept' \subseteq Photos /\ fetch' \in FetchSet
    BY <1>0, <1>8 DEF SettleFiles, AttachmentsTypeOK
  <2> QED
    BY <1>8, <2>1, OutboxTail DEF SettleFiles, AttachmentsTypeOK
<1>9. ASSUME GiveUp, UNCHANGED faults \/ Fault
      PROVE  AttachmentsTypeOK'
  <2>1. spoilt' \subseteq Photos
    BY <1>0, <1>9 DEF GiveUp, Unfinished, AttachmentsTypeOK
  <2>2. faults' \in Nat
    BY <1>9 DEF Fault, AttachmentsTypeOK
  <2> QED
    BY <1>9, <2>1, <2>2 DEF GiveUp, AttachmentsTypeOK
<1> QED
  BY <1>1, <1>2, <1>3, <1>4, <1>5, <1>6, <1>7, <1>8, <1>9
  DEF FetchStep, StopFetching, NotFound

(* ... and what others and the administrators do.                           *)
LEMMA ServerType ==
  ASSUME AttachmentsTypeOK, OthersStep \/ TransferStep
  PROVE  AttachmentsTypeOK'
<1> USE IdleTypes DEF hereVars, serverVars, transferVars, AttachmentsTypeOK
<1>1. ASSUME NEW f \in Photos, PushElsewhere(f) \/ PushWithoutContent(f)
      PROVE  AttachmentsTypeOK'
  <2>1. f.content \in Contents
    BY DEF Photos
  <2> QED
    BY <1>1, <2>1 DEF PushElsewhere, PushWithoutContent
<1>2. ASSUME NEW c \in Contents, PutAndRollBack(c)
      PROVE  AttachmentsTypeOK'
  BY <1>2 DEF PutAndRollBack, Fault
<1>3. CASE StartImport \/ CommitImport \/ StopImport
  <2>1. importing' \in ImportSet /\ importing.log \subseteq Photos
    BY <1>3 DEF StartImport, CommitImport, StopImport, ImportSet
  <2>2. CASE StartImport
    BY <2>1, <2>2 DEF StartImport
  <2>3. CASE CommitImport
    BY <2>1, <2>3 DEF CommitImport
  <2>4. CASE StopImport
    BY <2>1, <2>4 DEF StopImport, Fault
  <2> QED
    BY <1>3, <2>2, <2>3, <2>4
<1>4. ASSUME NEW f \in Photos, ImportFile(f)
      PROVE  AttachmentsTypeOK'
  <2>1. f.content \in Contents
    BY DEF Photos
  <2>2. [importing EXCEPT !.todo = @ \ {f}] \in ImportSet
    BY DEF ImportSet
  <2>3. importing' \in ImportSet /\ contents' \subseteq Contents
    BY <1>4, <2>1, <2>2 DEF ImportFile
  <2> QED
    BY <1>4, <2>3 DEF ImportFile
<1>5. CASE ReadRecords \/ ReadRows \/ ReadContents
  <2>0. \A pc \in {"contents", "directory"}, some \in SUBSET Photos :
          /\ [exporting EXCEPT !.pc = pc] \in ExportSet
          /\ [exporting EXCEPT !.pc = pc, !.rows = some] \in ExportSet
          /\ [NotExporting EXCEPT !.pc = "rows", !.log = some] \in ExportSet
    BY DEF ExportSet
  <2>1. CASE ReadRecords
    BY <2>0, <2>1 DEF ReadRecords
  <2>2. CASE ReadRows
    BY <2>0, <2>2 DEF ReadRows
  <2>3. CASE ReadContents
    <3>1. exporting' \in ExportSet
      BY <2>0, <2>3 DEF ReadContents
    <3> QED
      BY <2>3, <3>1 DEF ReadContents
  <2> QED
    BY <1>5, <2>1, <2>2, <2>3
<1>6. CASE MakeDirectory \/ ExportLog \/ StopExport
  <2>0. /\ exporting.rows \subseteq Photos /\ exporting.log \subseteq Photos
        /\ \A todo \in SUBSET Photos :
             [exporting EXCEPT !.pc = "writing", !.todo = todo] \in ExportSet
        /\ [archive EXCEPT !.exists = TRUE] \in ArchiveSet
        /\ \A log \in SUBSET Photos : [archive EXCEPT !.logged = TRUE, !.log = log] \in ArchiveSet
    BY DEF ExportSet, ArchiveSet
  <2>1. CASE MakeDirectory
    <3>1. exporting' \in ExportSet /\ archive' \in ArchiveSet
      BY <2>0, <2>1 DEF MakeDirectory
    <3> QED
      BY <2>1, <3>1 DEF MakeDirectory
  <2>2. CASE ExportLog
    BY <2>0, <2>2 DEF ExportLog
  <2>3. CASE StopExport
    BY <2>3 DEF StopExport, Fault
  <2> QED
    BY <1>6, <2>1, <2>2, <2>3
<1>7. ASSUME NEW f \in Photos, ExportFile(f)
      PROVE  AttachmentsTypeOK'
  <2>1. exporting' \in ExportSet /\ archive' \in ArchiveSet
    BY <1>7 DEF ExportFile, ExportSet, ArchiveSet
  <2> QED
    BY <1>7, <2>1 DEF ExportFile
<1> QED
  BY <1>1, <1>2, <1>3, <1>4, <1>5, <1>6, <1>7 DEF OthersStep, TransferStep

-----------------------------------------------------------------------------
(* The files here. *)

HereInv == OneWriter /\ SyncSound /\ HereSound

(* Attaching writes one file, which nobody else is writing.                 *)
LEMMA AttachKeepsHere ==
  ASSUME AttachmentsInv, AttachStep
  PROVE  HereInv'
<1> USE DEF AttachmentsInv, HereInv, OneWriter, SyncSound, HereSound, Copied, Written,
            Pulling, Whole, BeingStored, NotAttaching, serverVars, transferVars
<1>0. /\ onDisk \in [Photos -> {"absent", "part", "whole"}] /\ attaching.file \in Photos
      /\ attaching \in [pc : {"none", "staged", "copying", "stored"}, file : Photos]
      /\ kept \subseteq Photos /\ fetch.found \subseteq Photos
      /\ outbox \in Seq(Photos)
  BY DEF AttachmentsTypeOK, AttachingSet, FetchSet
<1>1. ASSUME NEW n \in FileNames, Pick(n)
      PROVE  HereInv'
  BY <1>0, <1>1 DEF Pick, ToSet
<1>2. ASSUME NEW n \in FileNames, NEW c \in Contents, EditPicked(n, c)
      PROVE  HereInv'
  BY <1>0, <1>2 DEF EditPicked, ToSet
<1>3. CASE StoreFile
  <2> DEFINE f == attaching.file
  <2>0. UNCHANGED << place, kept, outbox, fetch, spoilt >>
    BY <1>3 DEF StoreFile
  <2>1. CASE onDisk' = onDisk /\ attaching'.pc # "copying"
             /\ (attaching'.pc = "stored" => attaching'.file = f /\ onDisk[f] = "whole")
    BY <1>0, <1>3, <2>0, <2>1 DEF ToSet, StoreFile
  <2>2. CASE /\ onDisk[f] = "absent" /\ onDisk' = [onDisk EXCEPT ![f] = "part"]
             /\ attaching'.pc = "copying" /\ attaching'.file = f
    <3>1. OneWriter'
      BY <1>0, <1>3, <2>0, <2>2 DEF StoreFile
    <3>2. SyncSound'
      BY <1>0, <1>3, <2>0, <2>2 DEF StoreFile
    <3>3. HereSound'
      BY <1>0, <1>3, <2>0, <2>2 DEF StoreFile, ToSet
    <3> QED
      BY <3>1, <3>2, <3>3
  <2> QED
    BY <1>0, <1>3, <2>1, <2>2 DEF StoreFile
<1>4. CASE CopyFile
  <2> DEFINE f == attaching.file
  <2>0. UNCHANGED << place, kept, outbox, fetch >> /\ attaching.pc = "copying"
    BY <1>4 DEF CopyFile
  <2>1. CASE /\ onDisk' = [onDisk EXCEPT ![f] = "whole"] /\ spoilt' = spoilt
             /\ attaching'.pc = "stored" /\ attaching'.file = f
    <3>1. OneWriter'
      BY <1>0, <2>0, <2>1
    <3>2. SyncSound'
      BY <1>0, <2>0, <2>1
    <3>3. HereSound'
      BY <1>0, <2>0, <2>1 DEF ToSet
    <3> QED
      BY <3>1, <3>2, <3>3
  <2>2. CASE onDisk' = onDisk /\ spoilt' = spoilt \cup {f} /\ attaching' = NotAttaching
    BY <1>0, <2>0, <2>2 DEF ToSet
  <2> QED
    BY <1>0, <1>4, <2>1, <2>2 DEF CopyFile
<1>5. CASE AppendEvent
  <2>1. ToSet(outbox') \subseteq ToSet(outbox) \cup {attaching.file}
    BY <1>0, <1>5 DEF AppendEvent, ToSet
  <2>2. \A f \in ToSet(outbox') : onDisk[f] = "whole"
    BY <1>5, <2>1 DEF AppendEvent
  <2> QED
    BY <1>0, <1>5, <2>2 DEF AppendEvent
<1>6. CASE StopAttaching
  BY <1>0, <1>6 DEF StopAttaching, ToSet
<1> QED
  BY <1>1, <1>2, <1>3, <1>4, <1>5, <1>6 DEF AttachStep

(* Syncing writes one file at a time, which nobody else is writing, and     *)
(* records what it fetched.                                                 *)
LEMMA FetchKeepsHere ==
  ASSUME AttachmentsInv, FetchStep
  PROVE  HereInv'
<1> USE DEF AttachmentsInv, HereInv, OneWriter, SyncSound, HereSound, Copied, Written,
            Pulling, Whole, BeingStored, hereVars, serverVars, transferVars
<1>0. /\ onDisk \in [Photos -> {"absent", "part", "whole"}] /\ attaching.file \in Photos
      /\ kept \subseteq Photos /\ fetch.found \subseteq Photos /\ serverLog \subseteq Photos
      /\ fetch \in [pc : {"idle", "pushing", "pulling", "checking", "downloaded", "writing"},
                    opening : BOOLEAN, sent : Seq(Photos), found : SUBSET Photos,
                    todo : SUBSET Photos, file : Photos]
  BY DEF AttachmentsTypeOK, AttachingSet, FetchSet
<1>1. CASE StartSync
  BY <1>0, <1>1 DEF StartSync, NotFetching
<1>2. ASSUME NEW clashing \in SUBSET Uploaded, PushFiles(clashing)
      PROVE  HereInv'
  BY <1>0, <1>2 DEF PushFiles
<1>3. CASE PullFiles
  BY <1>0, <1>3 DEF PullFiles
<1>4. CASE OpenRemote
  BY <1>0, <1>4 DEF OpenRemote, NotFetching
<1>5. ASSUME NEW f \in Photos, SkipPresent(f)
      PROVE  HereInv'
  BY <1>0, <1>5 DEF SkipPresent
<1>6. ASSUME NEW f \in Photos, Download(f)
      PROVE  HereInv'
  BY <1>0, <1>6 DEF Download
<1>7. CASE StoreDownloaded
  <2> DEFINE f == fetch.file
  <2>0. fetch.pc = "downloaded" /\ UNCHANGED << place, attaching, kept, outbox, spoilt >>
    BY <1>7 DEF StoreDownloaded
  <2>1. CASE /\ onDisk[f] = "absent" /\ onDisk' = [onDisk EXCEPT ![f] = "part"]
             /\ fetch' = [fetch EXCEPT !.pc = "writing"]
    <3>1. OneWriter'
      BY <1>0, <2>0, <2>1
    <3>2. SyncSound'
      BY <1>0, <2>0, <2>1
    <3>3. HereSound'
      BY <1>0, <2>0, <2>1 DEF ToSet
    <3> QED
      BY <3>1, <3>2, <3>3
  <2>2. CASE /\ onDisk[f] # "absent" /\ onDisk' = onDisk
             /\ fetch' = [fetch EXCEPT !.pc = "checking", !.todo = @ \ {f}]
    BY <1>0, <2>0, <2>2
  <2> QED
    BY <1>7, <2>1, <2>2 DEF StoreDownloaded
<1>8. CASE WriteDownloaded
  BY <1>0, <1>8 DEF WriteDownloaded
<1>9. CASE SettleFiles
  <2>1. \A f \in ToSet(outbox') : onDisk'[f] = "whole"
    BY <1>9, OutboxTail DEF SettleFiles
  <2> QED
    BY <1>0, <1>9, <2>1 DEF SettleFiles, NotFetching
<1>10. ASSUME GiveUp, fetch.pc # "idle"
       PROVE  HereInv'
  BY <1>0, <1>10 DEF GiveUp, Unfinished, NotFetching
<1> QED
  BY <1>1, <1>2, <1>3, <1>4, <1>5, <1>6, <1>7, <1>8, <1>9, <1>10
  DEF FetchStep, StopFetching, NotFound

(* The server and the transfers leave the files here alone.                 *)
LEMMA HereFrame ==
  ASSUME AttachmentsInv, UNCHANGED << hereVars, fetch >>
  PROVE  HereInv'
BY DEF AttachmentsInv, HereInv, OneWriter, SyncSound, HereSound, Copied, Written,
       Pulling, Whole, BeingStored, ToSet, hereVars

-----------------------------------------------------------------------------
(* The server, imports and exports. *)

(* Contents of a union, and of fewer files.                                 *)
LEMMA ContentsOfParts ==
  ASSUME NEW A, NEW B
  PROVE  /\ ContentsOf(A \cup B) = ContentsOf(A) \cup ContentsOf(B)
         /\ A \subseteq B => ContentsOf(A) \subseteq ContentsOf(B)
         /\ \A f \in A : f.content \in ContentsOf(A)
         /\ \A f : ContentsOf({f}) = {f.content}
         /\ \A f : ContentsOf(B) \subseteq ContentsOf(B \ {f}) \cup {f.content}
         /\ ContentsOf({}) = {}
BY DEF ContentsOf

(* What is pushed gets a row and an object.                                 *)
LEMMA PushKeepsServer ==
  ASSUME AttachmentsInv, NEW clashing \in SUBSET Uploaded, PushFiles(clashing)
  PROVE  StoredSound'
BY ContentsOfParts DEF AttachmentsInv, StoredSound, PushFiles, transferVars

(* The rest of a sync leaves the server alone, and so does attaching.       *)
LEMMA ServerFrame ==
  ASSUME AttachmentsInv, UNCHANGED << serverVars, transferVars >>
  PROVE  StoredSound'
BY DEF AttachmentsInv, StoredSound, serverVars, transferVars

(* Others push and administrators move.                                     *)
LEMMA OthersKeepServer ==
  ASSUME AttachmentsInv, OthersStep \/ TransferStep
  PROVE  StoredSound'
<1> USE DEF AttachmentsInv, StoredSound, hereVars, serverVars, transferVars, NotImporting,
            NotExporting
<1>0. importing \in ImportSet /\ exporting \in ExportSet /\ archive \in ArchiveSet
  BY DEF AttachmentsTypeOK
<1>1. ASSUME NEW f \in Photos, PushElsewhere(f)
      PROVE  StoredSound'
  BY <1>0, <1>1, ContentsOfParts DEF PushElsewhere
<1>2. ASSUME NEW f \in Photos, PushWithoutContent(f)
      PROVE  StoredSound'
  BY <1>0, <1>2 DEF PushWithoutContent
<1>3. ASSUME NEW c \in Contents, PutAndRollBack(c)
      PROVE  StoredSound'
  BY <1>0, <1>3 DEF PutAndRollBack
<1>4. CASE StartImport
  <2>1. importing'.log \ importing'.todo = {}
    BY <1>4 DEF StartImport
  <2> QED
    BY <1>0, <1>4, <2>1, ContentsOfParts DEF StartImport
<1>5. ASSUME NEW f \in Photos, ImportFile(f)
      PROVE  StoredSound'
  <2>1. CASE importing' = NotImporting /\ contents' = contents
    BY <1>0, <1>5, <2>1 DEF ImportFile
  <2>2. CASE /\ contents' = contents \cup {f.content}
             /\ importing' = [importing EXCEPT !.todo = @ \ {f}]
    <3>1. importing'.log \ importing'.todo \subseteq (importing.log \ importing.todo) \cup {f}
      BY <1>0, <2>2 DEF ImportSet
    <3>2. ContentsOf(importing'.log \ importing'.todo) \subseteq contents'
      BY <1>5, <2>2, <3>1, ContentsOfParts DEF ImportFile
    <3> QED
      BY <1>0, <1>5, <2>2, <3>2 DEF ImportFile
  <2> QED
    BY <1>5, <2>1, <2>2 DEF ImportFile
<1>6. CASE CommitImport
  <2>1. importing.log \ importing.todo = importing.log
    BY <1>6 DEF CommitImport
  <2> QED
    BY <1>0, <1>6, <2>1 DEF CommitImport
<1>7. CASE StopImport
  BY <1>0, <1>7 DEF StopImport
<1>8. CASE ReadRecords
  BY <1>0, <1>8 DEF ReadRecords
<1>9. CASE ReadRows
  BY <1>0, <1>9 DEF ReadRows, ExportSet
<1>10. CASE ReadContents
  BY <1>0, <1>10 DEF ReadContents, ExportSet
<1>11. CASE MakeDirectory
  <2>0. UNCHANGED << serverVars, importing >> /\ exporting.pc = "directory"
    BY <1>11 DEF MakeDirectory
  <2>1. CASE exporting' = NotExporting /\ archive' = archive
    BY <2>0, <2>1
  <2>2. CASE /\ exporting' = [exporting EXCEPT !.pc = "writing", !.todo = exporting.rows]
             /\ archive' = [archive EXCEPT !.exists = TRUE]
    <3>1. /\ exporting'.pc = "writing" /\ exporting'.log = exporting.log
          /\ exporting'.rows = exporting.rows /\ exporting'.todo = exporting.rows
      BY <1>0, <2>2 DEF ExportSet
    <3>2. (archive'.logged <=> archive.logged) /\ archive'.log = archive.log
          /\ archive'.files = archive.files
      BY <1>0, <2>2 DEF ArchiveSet
    <3> QED
      BY <2>0, <3>1, <3>2
  <2> QED
    BY <1>11, <2>1, <2>2 DEF MakeDirectory
<1>12. ASSUME NEW f \in Photos, ExportFile(f)
       PROVE  StoredSound'
  BY <1>0, <1>12 DEF ExportFile, ExportSet, ArchiveSet
<1>13. CASE ExportLog
  BY <1>0, <1>13 DEF ExportLog, ArchiveSet
<1>14. CASE StopExport
  BY <1>0, <1>14 DEF StopExport
<1> QED
  BY <1>1, <1>2, <1>3, <1>4, <1>5, <1>6, <1>7, <1>8, <1>9, <1>10, <1>11, <1>12, <1>13, <1>14
  DEF OthersStep, TransferStep

-----------------------------------------------------------------------------
(* Together. *)

(* Nothing is attached, synced or moved at first.                           *)
LEMMA AttachmentsInvInit == AttachmentsInit => AttachmentsInv
<1> SUFFICES ASSUME AttachmentsInit
             PROVE  AttachmentsInv
  OBVIOUS
<1>1. AttachmentsTypeOK
  BY IdleTypes, SettingsAssumption
     DEF AttachmentsInit, AttachmentsTypeOK, ArchiveSet
<1>2. OneWriter /\ SyncSound /\ HereSound
  BY DEF AttachmentsInit, OneWriter, SyncSound, HereSound, NotAttaching, NotFetching,
         Copied, Written, Pulling, ToSet
<1>3. StoredSound
  BY DEF AttachmentsInit, StoredSound, NotImporting, NotExporting, ContentsOf
<1> QED
  BY <1>1, <1>2, <1>3 DEF AttachmentsInv

(* Every step keeps it.                                                     *)
LEMMA AttachmentsInvStep ==
  ASSUME AttachmentsInv, [AttachmentsNext]_attachmentVars
  PROVE  AttachmentsInv'
<1>1. CASE AttachStep
  <2>1. UNCHANGED << serverVars, transferVars >>
    BY <1>1 DEF AttachStep, Pick, EditPicked, StoreFile, CopyFile, AppendEvent, StopAttaching
  <2> QED
    BY <1>1, <2>1, AttachType, AttachKeepsHere, ServerFrame DEF AttachmentsInv, HereInv
<1>2. CASE FetchStep
  <2>1. AttachmentsTypeOK' /\ HereInv'
    BY <1>2, FetchType, FetchKeepsHere DEF AttachmentsInv
  <2>2. (\E clashing \in SUBSET Uploaded : PushFiles(clashing))
        \/ UNCHANGED << serverVars, transferVars >>
    BY <1>2 DEF FetchStep, StartSync, PullFiles, OpenRemote, SkipPresent, Download, NotFound,
                StoreDownloaded, WriteDownloaded, SettleFiles, StopFetching, GiveUp
  <2> QED
    BY <2>1, <2>2, PushKeepsServer, ServerFrame DEF AttachmentsInv, HereInv
<1>3. CASE OthersStep \/ TransferStep
  <2>1. UNCHANGED << hereVars, fetch >>
    BY <1>3 DEF OthersStep, TransferStep, PushElsewhere, PushWithoutContent, PutAndRollBack,
                StartImport, ImportFile, CommitImport, StopImport, ReadRecords, ReadRows,
                ReadContents, MakeDirectory, ExportFile, ExportLog, StopExport
  <2> QED
    BY <1>3, <2>1, ServerType, HereFrame, OthersKeepServer DEF AttachmentsInv, HereInv
<1>4. CASE UNCHANGED attachmentVars
  <2>1. UNCHANGED << hereVars, fetch >> /\ UNCHANGED << serverVars, transferVars >>
    BY <1>4 DEF attachmentVars, hereVars, serverVars, transferVars
  <2>2. AttachmentsTypeOK'
    BY <1>4 DEF AttachmentsInv, AttachmentsTypeOK, attachmentVars
  <2> QED
    BY <2>1, <2>2, HereFrame, ServerFrame DEF AttachmentsInv, HereInv
<1> QED
  BY <1>1, <1>2, <1>3, <1>4 DEF AttachmentsNext

(* What is kept of files and logs holds in every state.                     *)
THEOREM AttachmentsStaySound == AttachmentsSpec => []AttachmentsInv
<1>1. AttachmentsInv /\ [AttachmentsNext]_attachmentVars => AttachmentsInv'
  BY AttachmentsInvStep
<1> QED
  BY <1>1, AttachmentsInvInit, PTL DEF AttachmentsSpec

(* Every log that names a file has its content.                             *)
THEOREM LoggedStaysWithContent == AttachmentsSpec => []LoggedHasContent
<1>1. AttachmentsInv => LoggedHasContent
  BY DEF AttachmentsInv, HereSound, StoredSound, LoggedHasContent
<1> QED
  BY <1>1, AttachmentsStaySound, PTL

-----------------------------------------------------------------------------
(*****************************************************************************)
(* Bundle.  A directory under a submission's name is a whole bundle, for    *)
(* any number of programs, bundles, failures and losses of power.           *)
(*                                                                          *)
(* PublishedIsWhole is not inductive: it says nothing of the staging        *)
(* directory.  BundleInv adds who works on it (the program with the lock)   *)
(* and what its place in install_bundle says of the directory, up to the    *)
(* point that matters: when it is renamed, every entry is written and the   *)
(* directory is synced.                                                     *)
(*****************************************************************************)

(* Only the program that has the lock is installing.                        *)
HolderWorks ==
  \A i \in Installers :
    /\ installer[i].pc # "idle" <=> lockedBy = i
    /\ installer[i].pc # "idle" => installer[i].bundle \in Bundles

(* What the place of program i says of the directories.                     *)
PlaceSays(i) ==
  LET b == installer[i].bundle IN
  /\ installer[i].pc \in {"staging", "writing", "staged", "ready"} =>
       staging \in Directory /\ staging.bundle = b
  /\ installer[i].pc \in {"staging", "writing"} => staging.whole \subseteq b
  /\ installer[i].pc = "staging" => staging.names = staging.whole
  /\ installer[i].pc = "writing" => staging.names = staging.whole \cup {NextName(i)}
  /\ installer[i].pc \in {"staged", "ready"} =>
       staging.names = EntriesOf(b) /\ staging.whole = EntriesOf(b)
  /\ installer[i].pc = "ready" => staging.kept = EntriesOf(b)
  /\ installer[i].pc = "published" => published # NoBundle /\ published.bundle = b

(* The directory with the name is whole, on the disk too.                   *)
PublishedKept ==
  published # NoBundle =>
    Verified(published, published.bundle) /\ published.kept = published.names

(* What was reported is there, and its name is on the disk.                 *)
ToldIsThere ==
  \A b \in told : published # NoBundle /\ published.bundle = b /\ renameKept

BundleInv ==
  /\ BundleTypeOK
  /\ HolderWorks
  /\ \A i \in Installers : PlaceSays(i)
  /\ PublishedKept
  /\ ToldIsThere

-----------------------------------------------------------------------------
(* The next entry is a file that is not written, or else the receipt.       *)
LEMMA NextNameIs ==
  ASSUME NEW i \in Installers
  PROVE  \/ /\ installer[i].bundle \subseteq staging.whole
            /\ NextName(i) = Receipt
         \/ NextName(i) \in installer[i].bundle \ staging.whole
<1> DEFINE missing == installer[i].bundle \ staging.whole
<1>1. CASE missing = {}
  BY <1>1 DEF NextName
<1>2. CASE missing # {}
  <2>1. (CHOOSE n \in missing : TRUE) \in missing
    BY <1>2
  <2> QED
    BY <1>2, <2>1 DEF NextName
<1> QED
  BY <1>1, <1>2

(* The initial state.                                                       *)
LEMMA BundleInvInit == BundleInit => BundleInv
BY BundleAssumption
   DEF BundleInit, BundleInv, BundleTypeOK, BundlePcs, NotInstalling, HolderWorks,
       PlaceSays, PublishedKept, ToldIsThere

(* Every entry of a bundle is one that a directory may have.                *)
LEMMA EntriesTyped == \A b \in Bundles : EntriesOf(b) \in AnyEntries
BY DEF AnyEntries, EntriesOf

(* Whoever works has the lock, so nobody else does.                         *)
LEMMA OneHolder ==
  ASSUME HolderWorks, NEW i \in Installers, NEW j \in Installers,
         installer[i].pc # "idle", i # j
  PROVE  installer[j].pc = "idle"
BY DEF HolderWorks

(* A program that only goes on stays one, with its bundle.                  *)
LEMMA ReachesTyped ==
  ASSUME BundleTypeOK, NEW i \in Installers, NEW pc, NEW next \in BundlePcs,
         Reaches(i, pc, next)
  PROVE  /\ installer' \in [Installers -> [pc : BundlePcs, bundle : Bundles \cup {NoBundle}]]
         /\ installer'[i].pc = next
         /\ installer'[i].bundle = installer[i].bundle
         /\ \A j \in Installers \ {i} : installer'[j] = installer[j]
BY DEF BundleTypeOK, Reaches

(* What is left of a directory: entries it had, those that were synced      *)
(* among them.                                                              *)
LEMMA RemainsIs ==
  ASSUME BundleAssumption, NEW d \in Directory \cup {NoBundle}, NEW r \in Remains(d)
  PROVE  \/ d = NoBundle /\ r = NoBundle
         \/ /\ d \in Directory /\ r \in Directory
            /\ r.bundle = d.bundle
            /\ d.kept \subseteq r.names /\ r.names \subseteq d.names
            /\ r.whole = d.whole \cap r.names
            /\ r.kept = r.names
<1>1. CASE d = NoBundle
  BY <1>1 DEF Remains
<1>2. CASE d # NoBundle
  <2>1. PICK left \in {n \in SUBSET d.names : d.kept \subseteq n} :
          r = [d EXCEPT !.names = left, !.whole = @ \cap left, !.kept = left]
    BY <1>2 DEF Remains
  <2>2. d \in Directory
    BY <1>2
  <2>3. left \in AnyEntries /\ d.whole \cap left \in AnyEntries
    BY <2>1, <2>2 DEF Directory, AnyEntries
  <2>4. r \in Directory
    BY <2>1, <2>2, <2>3 DEF Directory
  <2>5. /\ r.bundle = d.bundle /\ r.names = left /\ r.whole = d.whole \cap left
        /\ r.kept = left
    BY <2>1, <2>2 DEF Directory
  <2> QED
    BY <2>1, <2>2, <2>4, <2>5
<1> QED
  BY <1>1, <1>2

-----------------------------------------------------------------------------
(* Each step keeps the type.                                                *)
LEMMA BundleTypeStep == BundleInv /\ [BundleNext]_bundleVars => BundleTypeOK'
<1> SUFFICES ASSUME BundleInv, [BundleNext]_bundleVars
             PROVE  BundleTypeOK'
  OBVIOUS
<1> USE BundleAssumption DEF BundleInv, BundleTypeOK, BundlePcs
<1>1. ASSUME NEW i \in Installers, NEW b \in Bundles, AcquireLock(i, b)
      PROVE  BundleTypeOK'
  BY <1>1 DEF AcquireLock
<1>2. ASSUME NEW i \in Installers, CleanUp(i)
      PROVE  BundleTypeOK'
  BY <1>2 DEF CleanUp, Reaches
<1>3. ASSUME NEW i \in Installers, FindPublished(i)
      PROVE  BundleTypeOK'
  <2> DEFINE next == IF Verified(published, installer[i].bundle) THEN "published"
                                                                ELSE "failed"
  <2>1. Reaches(i, "cleaned", next) /\ next \in BundlePcs
    BY <1>3 DEF FindPublished
  <2> HIDE DEF next
  <2> QED
    BY <1>3, <2>1, ReachesTyped DEF FindPublished
<1>4. ASSUME NEW i \in Installers, MakeStaging(i)
      PROVE  BundleTypeOK'
  <2>1. Emptied(installer[i].bundle) \in Directory
    BY <1>4 DEF MakeStaging, Reaches, HolderWorks, Emptied, Directory, AnyEntries
  <2> QED
    BY <1>4, <2>1 DEF MakeStaging, Reaches
<1>5. ASSUME NEW i \in Installers, CreateEntry(i)
      PROVE  BundleTypeOK'
  <2>1. installer[i].bundle \in Bundles /\ staging \in Directory
    BY <1>5 DEF CreateEntry, Reaches, HolderWorks, PlaceSays
  <2>2. {NextName(i)} \in AnyEntries
    BY <2>1, NextNameIs DEF AnyEntries, EntriesOf
  <2>3. [staging EXCEPT !.names = @ \cup {NextName(i)}] \in Directory
    BY <2>1, <2>2 DEF Directory, AnyEntries
  <2> QED
    BY <1>5, <2>3 DEF CreateEntry, Reaches
<1>6. ASSUME NEW i \in Installers, WriteEntry(i)
      PROVE  BundleTypeOK'
  <2>1. installer[i].bundle \in Bundles /\ staging \in Directory
    BY <1>6 DEF WriteEntry, Reaches, HolderWorks, PlaceSays
  <2>2. {NextName(i)} \in AnyEntries
    BY <2>1, NextNameIs DEF AnyEntries, EntriesOf
  <2>3. [staging EXCEPT !.whole = @ \cup {NextName(i)}] \in Directory
    BY <2>1, <2>2 DEF Directory, AnyEntries
  <2> QED
    BY <1>6, <2>3 DEF WriteEntry, Reaches
<1>7. ASSUME NEW i \in Installers, SyncStaging(i)
      PROVE  BundleTypeOK'
  <2>1. staging \in Directory
    BY <1>7 DEF SyncStaging, Reaches, PlaceSays
  <2>2. [staging EXCEPT !.kept = staging.names] \in Directory
    BY <2>1 DEF Directory
  <2> QED
    BY <1>7, <2>2 DEF SyncStaging, Reaches
<1>8. ASSUME NEW i \in Installers, PublishDirectory(i)
      PROVE  BundleTypeOK'
  <2> DEFINE next == IF Verified(published, installer[i].bundle) THEN "published"
                                                                ELSE "failed"
  <2>1. Reaches(i, "ready", "published") \/ Reaches(i, "ready", next)
    BY <1>8 DEF PublishDirectory
  <2>2. next \in BundlePcs /\ "published" \in BundlePcs
    OBVIOUS
  <2> HIDE DEF next
  <2>3. installer' \in [Installers -> [pc : BundlePcs, bundle : Bundles \cup {NoBundle}]]
    BY <2>1, <2>2, ReachesTyped
  <2>4. published' \in Directory \cup {NoBundle} /\ renameKept' \in BOOLEAN
    BY <1>8 DEF PublishDirectory
  <2> QED
    BY <1>8, <2>3, <2>4 DEF PublishDirectory
<1>9. ASSUME NEW i \in Installers, Report(i)
      PROVE  BundleTypeOK'
  BY <1>9 DEF Report, Reaches, HolderWorks
<1>10. ASSUME NEW i \in Installers, GiveUpInstall(i)
       PROVE  BundleTypeOK'
  BY <1>10 DEF GiveUpInstall, NotInstalling
<1>11. ASSUME NEW i \in Installers, FailOperation(i)
       PROVE  BundleTypeOK'
  BY <1>11 DEF FailOperation, Mishap
<1>12. ASSUME NEW i \in Installers, StopProgram(i)
       PROVE  BundleTypeOK'
  BY <1>12 DEF StopProgram, Mishap, NotInstalling
<1>13. CASE LosePower
  <2>1. ASSUME NEW d \in Directory \cup {NoBundle}
        PROVE  Remains(d) \subseteq Directory \cup {NoBundle}
    BY RemainsIs
  <2>2. staging' \in Directory \cup {NoBundle} /\ published' \in Directory \cup {NoBundle}
    BY <1>13, <2>1 DEF LosePower
  <2> QED
    BY <1>13, <2>2 DEF LosePower, Mishap, NotInstalling
<1>14. CASE UNCHANGED bundleVars
  BY <1>14 DEF bundleVars
<1> QED
  BY <1>1, <1>2, <1>3, <1>4, <1>5, <1>6, <1>7, <1>8, <1>9, <1>10, <1>11, <1>12, <1>13,
     <1>14 DEF BundleNext, InstallStep

(* Each step keeps the lock with whoever works.                             *)
LEMMA HolderStep == BundleInv /\ [BundleNext]_bundleVars => HolderWorks'
<1> SUFFICES ASSUME BundleInv, [BundleNext]_bundleVars
             PROVE  HolderWorks'
  OBVIOUS
<1> USE BundleAssumption DEF BundleInv, BundleTypeOK, HolderWorks
<1>1. ASSUME NEW i \in Installers, NEW b \in Bundles, AcquireLock(i, b)
      PROVE  HolderWorks'
  BY <1>1 DEF AcquireLock
<1>2. ASSUME NEW i \in Installers, NEW pc, NEW next \in BundlePcs \ {"idle"},
             Reaches(i, pc, next), pc # "idle", UNCHANGED lockedBy
      PROVE  HolderWorks'
  BY <1>2 DEF Reaches
<1>3. ASSUME NEW i \in Installers,
             CleanUp(i) \/ FindPublished(i) \/ MakeStaging(i) \/ CreateEntry(i)
               \/ WriteEntry(i) \/ SyncStaging(i) \/ PublishDirectory(i)
      PROVE  HolderWorks'
  <2>1. PICK pc \in BundlePcs \ {"idle"}, next \in BundlePcs \ {"idle"} :
          Reaches(i, pc, next)
    <3> USE DEF BundlePcs
    <3>1. CASE CleanUp(i)          BY <3>1 DEF CleanUp
    <3>2. CASE FindPublished(i)    BY <3>2 DEF FindPublished
    <3>3. CASE MakeStaging(i)      BY <3>3 DEF MakeStaging
    <3>4. CASE CreateEntry(i)      BY <3>4 DEF CreateEntry
    <3>5. CASE WriteEntry(i)       BY <3>5 DEF WriteEntry
    <3>6. CASE SyncStaging(i)      BY <3>6 DEF SyncStaging
    <3>7. CASE PublishDirectory(i) BY <3>7 DEF PublishDirectory
    <3> QED
      BY <1>3, <3>1, <3>2, <3>3, <3>4, <3>5, <3>6, <3>7
  <2>2. UNCHANGED lockedBy
    BY <1>3 DEF CleanUp, FindPublished, MakeStaging, CreateEntry, WriteEntry, SyncStaging,
                PublishDirectory
  <2> QED
    BY <2>1, <2>2, <1>2
<1>4. ASSUME NEW i \in Installers, Report(i)
      PROVE  HolderWorks'
  BY <1>4 DEF Report, Reaches
<1>5. ASSUME NEW i \in Installers, GiveUpInstall(i)
      PROVE  HolderWorks'
  BY <1>5 DEF GiveUpInstall, NotInstalling
<1>6. ASSUME NEW i \in Installers, FailOperation(i)
      PROVE  HolderWorks'
  BY <1>6 DEF FailOperation
<1>7. ASSUME NEW i \in Installers, StopProgram(i)
      PROVE  HolderWorks'
  BY <1>7 DEF StopProgram, NotInstalling
<1>8. CASE LosePower
  BY <1>8 DEF LosePower, NotInstalling
<1>9. CASE UNCHANGED bundleVars
  BY <1>9 DEF bundleVars
<1> QED
  BY <1>1, <1>3, <1>4, <1>5, <1>6, <1>7, <1>8, <1>9 DEF BundleNext, InstallStep

-----------------------------------------------------------------------------
(* The four parts that a step of install_bundle by program i changes, when  *)
(* only i works: its own place, and the directories.                        *)
Parts(i) == PlaceSays(i) /\ PublishedKept /\ ToldIsThere

(* Each step of a program keeps what its place says.                        *)
LEMMA OwnPartsStep ==
  ASSUME BundleInv, NEW i \in Installers, InstallStep(i), ~(\E b \in Bundles : AcquireLock(i, b))
  PROVE  Parts(i)'
<1> USE BundleAssumption
    DEF BundleInv, Parts, PlaceSays, PublishedKept, ToldIsThere
<1>0. installer[i].pc # "idle" => installer[i].bundle \in Bundles
  BY DEF HolderWorks
<1>1. CASE CleanUp(i)
  BY <1>1, ReachesTyped DEF CleanUp, BundlePcs
<1>2. CASE FindPublished(i)
  <2>1. CASE Verified(published, installer[i].bundle)
    BY <1>2, <2>1, ReachesTyped DEF FindPublished, BundlePcs, Verified
  <2>2. CASE ~Verified(published, installer[i].bundle)
    BY <1>2, <2>2, ReachesTyped DEF FindPublished, BundlePcs
  <2> QED
    BY <2>1, <2>2
<1>3. CASE MakeStaging(i)
  <2>1. Emptied(installer[i].bundle) \in Directory
    BY <1>0, <1>3 DEF MakeStaging, Reaches, Emptied, Directory, AnyEntries
  <2>2. installer'[i].pc = "staging" /\ installer'[i].bundle = installer[i].bundle
    BY <1>3, ReachesTyped DEF MakeStaging, BundlePcs
  <2> QED
    BY <1>3, <2>1, <2>2 DEF MakeStaging, Emptied
<1>4. CASE CreateEntry(i)
  <2>1. installer'[i].pc = "writing" /\ installer'[i].bundle = installer[i].bundle
    BY <1>4, ReachesTyped DEF CreateEntry, BundlePcs
  <2>2. staging \in Directory /\ installer[i].pc = "staging"
    BY <1>4 DEF CreateEntry, Reaches
  <2>3. /\ staging'.whole = staging.whole /\ staging'.bundle = staging.bundle
        /\ staging'.names = staging.names \cup {NextName(i)}
    BY <1>4, <2>2 DEF CreateEntry, Directory
  <2>4. NextName(i)' = NextName(i)
    BY <2>1, <2>3 DEF NextName
  <2>5. staging' \in Directory
    <3>1. {NextName(i)} \in AnyEntries
      BY <1>0, <2>2, NextNameIs DEF AnyEntries, EntriesOf
    <3> QED
      BY <1>4, <2>2, <3>1 DEF CreateEntry, Directory, AnyEntries
  <2> QED
    BY <1>4, <2>1, <2>2, <2>3, <2>4, <2>5 DEF CreateEntry
<1>5. CASE WriteEntry(i)
  <2>1. staging \in Directory /\ installer[i].pc = "writing" /\ installer[i].bundle \in Bundles
    BY <1>0, <1>5 DEF WriteEntry, Reaches
  <2>2. /\ staging'.whole = staging.whole \cup {NextName(i)}
        /\ staging'.bundle = staging.bundle /\ staging'.names = staging.names
    BY <1>5, <2>1 DEF WriteEntry, Directory
  <2>3. staging' \in Directory
    <3>1. {NextName(i)} \in AnyEntries
      BY <2>1, NextNameIs DEF AnyEntries, EntriesOf
    <3> QED
      BY <1>5, <2>1, <3>1 DEF WriteEntry, Directory, AnyEntries
  <2>4. CASE NextName(i) = Receipt
    <3>1. installer[i].bundle \subseteq staging.whole
      BY <2>1, <2>4, NextNameIs
    <3>2. installer'[i].pc = "staged" /\ installer'[i].bundle = installer[i].bundle
      BY <1>5, <2>4, ReachesTyped DEF WriteEntry, BundlePcs
    <3>3. staging'.whole = EntriesOf(installer[i].bundle) /\ staging'.names = staging'.whole
      BY <2>1, <2>2, <2>4, <3>1 DEF EntriesOf
    <3> QED
      BY <1>5, <2>1, <2>2, <2>3, <3>2, <3>3 DEF WriteEntry
  <2>5. CASE NextName(i) # Receipt
    <3>1. NextName(i) \in installer[i].bundle
      BY <2>5, NextNameIs
    <3>2. installer'[i].pc = "staging" /\ installer'[i].bundle = installer[i].bundle
      BY <1>5, <2>5, ReachesTyped DEF WriteEntry, BundlePcs
    <3> QED
      BY <1>5, <2>1, <2>2, <2>3, <3>1, <3>2 DEF WriteEntry
  <2> QED
    BY <2>4, <2>5
<1>6. CASE SyncStaging(i)
  <2>1. installer'[i].pc = "ready" /\ installer'[i].bundle = installer[i].bundle
    BY <1>6, ReachesTyped DEF SyncStaging, BundlePcs
  <2>2. staging \in Directory /\ installer[i].pc = "staged"
    BY <1>6 DEF SyncStaging, Reaches
  <2>3. /\ staging'.whole = staging.whole /\ staging'.bundle = staging.bundle
        /\ staging'.names = staging.names /\ staging'.kept = staging.names
        /\ staging' \in Directory
    BY <1>6, <2>2 DEF SyncStaging, Directory
  <2> QED
    BY <1>6, <2>1, <2>2, <2>3 DEF SyncStaging
<1>7. CASE PublishDirectory(i)
  <2>1. /\ installer[i].pc = "ready"
        /\ installer'[i].pc \in {"published", "failed"}
        /\ installer'[i].bundle = installer[i].bundle
    BY <1>7, ReachesTyped DEF PublishDirectory, Reaches, BundleTypeOK
  <2>2. CASE published = NoBundle
    <3>1. staging # NoBundle /\ Verified(staging, staging.bundle)
      BY <2>1 DEF Verified
    <3>2. told = {}
      BY <2>2
    <3> QED
      BY <1>7, <2>1, <2>2, <3>1, <3>2 DEF PublishDirectory
  <2>3. CASE published # NoBundle
    <3>1. installer'[i].pc = "published" => Verified(published, installer[i].bundle)
      BY <1>7, <2>3, <2>1 DEF PublishDirectory, Reaches, BundleTypeOK
    <3> QED
      BY <1>7, <2>1, <2>3, <3>1 DEF PublishDirectory, Verified
  <2> QED
    BY <2>2, <2>3
<1>8. CASE Report(i)
  <2>1. installer[i].pc = "published" /\ installer'[i].pc = "idle"
    BY <1>8 DEF Report, Reaches, BundleTypeOK
  <2> QED
    BY <1>8, <2>1 DEF Report
<1>9. CASE GiveUpInstall(i)
  BY <1>9 DEF GiveUpInstall, NotInstalling, BundleTypeOK
<1>10. CASE FailOperation(i)
  BY <1>10 DEF FailOperation, BundleTypeOK
<1>11. CASE StopProgram(i)
  BY <1>11 DEF StopProgram, NotInstalling, BundleTypeOK
<1> QED
  BY <1>1, <1>2, <1>3, <1>4, <1>5, <1>6, <1>7, <1>8, <1>9, <1>10, <1>11 DEF InstallStep

(* Taking the lock changes no directory, and is no place that says anything.*)
LEMMA AcquireStep ==
  ASSUME BundleInv, NEW i \in Installers, NEW b \in Bundles, AcquireLock(i, b)
  PROVE  (\A j \in Installers : PlaceSays(j)) /\ PublishedKept /\ ToldIsThere
           => (\A j \in Installers : PlaceSays(j)') /\ PublishedKept' /\ ToldIsThere'
<1>1. installer'[i].pc = "locked"
  BY DEF AcquireLock, BundleInv, BundleTypeOK
<1>2. \A j \in Installers \ {i} : installer'[j].pc = "idle"
  BY BundleAssumption DEF AcquireLock, BundleInv, BundleTypeOK, HolderWorks
<1>3. \A j \in Installers : installer'[j].pc \in {"idle", "locked"}
  BY <1>1, <1>2
<1>4. UNCHANGED << staging, published, renameKept, told >>
  BY DEF AcquireLock
<1> QED
  BY <1>3, <1>4 DEF PlaceSays, PublishedKept, ToldIsThere, Verified

(* While one program goes on, the others are idle.                          *)
LEMMA OthersIdle ==
  ASSUME BundleInv, NEW i \in Installers, InstallStep(i),
         ~(\E b \in Bundles : AcquireLock(i, b)), NEW j \in Installers \ {i}
  PROVE  installer'[j].pc = "idle"
<1>1. installer[i].pc # "idle"
  BY DEF InstallStep, CleanUp, FindPublished, MakeStaging, CreateEntry, WriteEntry, SyncStaging,
         PublishDirectory, Report, GiveUpInstall, FailOperation, StopProgram, Reaches
<1>2. installer[j].pc = "idle"
  BY <1>1, OneHolder DEF BundleInv
<1>3. installer'[j] = installer[j]
  BY DEF InstallStep, CleanUp, FindPublished, MakeStaging, CreateEntry, WriteEntry, SyncStaging,
         PublishDirectory, Report, GiveUpInstall, FailOperation, StopProgram, Reaches,
         BundleInv, BundleTypeOK
<1> QED
  BY <1>2, <1>3

(* A loss of power leaves a directory that was renamed as it is, or takes   *)
(* the name away if nobody was told.                                        *)
LEMMA LosePowerStep ==
  ASSUME BundleInv, LosePower
  PROVE  (\A j \in Installers : PlaceSays(j)') /\ PublishedKept' /\ ToldIsThere'
<1> USE BundleAssumption DEF BundleInv
<1>1. \A j \in Installers : PlaceSays(j)'
  BY DEF LosePower, NotInstalling, PlaceSays
<1>2. CASE published' \in Remains(published)
  <2>1. published' = published
        \/ /\ published \in Directory /\ published' \in Directory
           /\ published # NoBundle
           /\ published'.bundle = published.bundle
           /\ published'.names = published.names
           /\ published'.whole = published.whole
           /\ published'.kept = published.names
    <3>1. published \in Directory \cup {NoBundle}
      BY DEF BundleTypeOK
    <3>2. CASE published = NoBundle
      BY <1>2, <3>1, <3>2, RemainsIs
    <3>3. CASE published # NoBundle
      <4>1. /\ published \in Directory /\ published' \in Directory
            /\ published'.bundle = published.bundle
            /\ published.kept \subseteq published'.names
            /\ published'.names \subseteq published.names
            /\ published'.whole = published.whole \cap published'.names
            /\ published'.kept = published'.names
        BY <1>2, <3>1, <3>3, RemainsIs
      <4>2. published.kept = published.names /\ published.whole = published.names
        BY <3>3 DEF PublishedKept, Verified
      <4> QED
        BY <3>3, <4>1, <4>2
    <3> QED
      BY <3>2, <3>3
  <2>2. published' = NoBundle <=> published = NoBundle
    BY <2>1
  <2>3. told' = told /\ renameKept'
    BY DEF LosePower
  <2> QED
    BY <1>1, <2>1, <2>2, <2>3 DEF PublishedKept, ToldIsThere, Verified
<1>3. CASE ~renameKept /\ published' = NoBundle
  BY <1>1, <1>3 DEF LosePower, PublishedKept, ToldIsThere
<1> QED
  BY <1>2, <1>3 DEF LosePower

(* The invariant is inductive.                                              *)
LEMMA BundleInvStep == BundleInv /\ [BundleNext]_bundleVars => BundleInv'
<1> SUFFICES ASSUME BundleInv, [BundleNext]_bundleVars
             PROVE  BundleInv'
  OBVIOUS
<1>1. BundleTypeOK' /\ HolderWorks'
  BY BundleTypeStep, HolderStep
<1>2. ASSUME NEW i \in Installers, InstallStep(i), ~(\E b \in Bundles : AcquireLock(i, b))
      PROVE  BundleInv'
  <2>1. Parts(i)'
    BY <1>2, OwnPartsStep
  <2>2. \A j \in Installers \ {i} : PlaceSays(j)'
    BY <1>2, OthersIdle DEF PlaceSays
  <2> QED
    BY <1>1, <2>1, <2>2 DEF BundleInv, Parts
<1>3. ASSUME NEW i \in Installers, NEW b \in Bundles, AcquireLock(i, b)
      PROVE  BundleInv'
  BY <1>1, <1>3, AcquireStep DEF BundleInv
<1>4. CASE LosePower
  BY <1>1, <1>4, LosePowerStep DEF BundleInv
<1>5. CASE UNCHANGED bundleVars
  BY <1>5 DEF bundleVars, BundleInv, BundleTypeOK, HolderWorks, PlaceSays, NextName,
              PublishedKept, ToldIsThere, Verified
<1> QED
  BY <1>2, <1>3, <1>4, <1>5 DEF BundleNext

(* The type invariant holds in every state.                                 *)
THEOREM BundleTypeCorrect == BundleSpec => []BundleTypeOK
<1>1. BundleInv => BundleTypeOK
  BY DEF BundleInv
<1> QED
  BY <1>1, BundleInvInit, BundleInvStep, PTL DEF BundleSpec

(* The inductive invariant holds in every state.                            *)
THEOREM StagedBeforeNamed == BundleSpec => []BundleInv
BY BundleInvInit, BundleInvStep, PTL DEF BundleSpec

(* What has a submission's name is a whole bundle, and what was reported    *)
(* stays (install_bundle, whatever stops it).                               *)
THEOREM PublishedIsAlwaysWhole == BundleSpec => []PublishedIsWhole
<1>1. BundleInv => PublishedIsWhole
  BY DEF BundleInv, PublishedKept, ToldIsThere, PublishedIsWhole
<1> QED
  BY <1>1, StagedBeforeNamed, PTL

-----------------------------------------------------------------------------
(*****************************************************************************)
(* Live.  What the server announced is never lost on its way to the page,   *)
(* for any number of handlers, events, failures and any capacity of the     *)
(* channel.                                                                 *)
(*                                                                          *)
(* QuietIsCurrent says what holds when nothing is on its way.  The invariant*)
(* behind it says where the last announcement, or something later than it, is*)
(* while it is on its way (Carried), and that the calls that hold the       *)
(* execution come one after another (CallsInOrder).                         *)
(*****************************************************************************)

(* The last announcement, or what covers it, is somewhere between the log   *)
(* and the page: the session will read the log or send a length, a length   *)
(* waits or was lost with the session told, a message is on the wire, a     *)
(* pull will answer or has answered, or the page shows it.                  *)
Carried ==
  \/ session.pc = "subscribed"
  \/ session.pc = "sending" /\ session.seq >= announced
  \/ receiver.lagged
  \/ \E i \in DOMAIN receiver.queue : receiver.queue[i] >= announced
  \/ wire # << >>
  \/ waitingOps # << >>
  \/ syncing.pc = "asked"
  \/ syncing.pc = "answered" /\ syncing.count >= announced
  \/ page = "open" /\ shown >= announced

(* The socket has both ends, or neither.                                    *)
SocketSound ==
  /\ session.pc # "none" <=> socket = "open"
  /\ socket # "open" => wire = << >>
  /\ receiver.lagged => receiver.queue # << >>

(* A call waits only behind another; the page's first is the load; the copy *)
(* and the page are no further than the answer under way.                   *)
CallsInOrder ==
  /\ syncing.pc = "idle" <=> syncing = NoCall
  /\ syncing.op = "none" <=> syncing = NoCall
  /\ syncing = NoCall => waitingOps = << >>
  /\ missed => syncing = NoCall
  /\ page = "loading" <=> syncing.op = "load"
  /\ page = "closed" => syncing = NoCall /\ wire = << >> /\ socket = "stopped" /\ ~ missed
  /\ page = "open" <=> shown # NotHeld
  /\ shown # NotHeld => held # NotHeld /\ shown <= held
  /\ held # NotHeld /\ syncing.pc = "answered" => held <= syncing.count

LiveInv ==
  /\ LiveTypeOK
  /\ SocketSound
  /\ CallsInOrder
  /\ socket = "open" /\ ~ missed /\ page # "error" => Carried

-----------------------------------------------------------------------------
(* As the log grows, what is typed by its length stays so.                  *)
LEMMA LogGrows ==
  ASSUME NEW m \in Nat, NEW n \in Nat, m <= n
  PROVE  0..m \subseteq 0..n /\ Seq(0..m) \subseteq Seq(0..n)
<1>1. 0..m \subseteq 0..n
  OBVIOUS
<1> QED
  BY <1>1

(* A message more is a message.                                             *)
LEMMA MessageAdded ==
  ASSUME NEW S, NEW q \in Seq(S), NEW m \in S
  PROVE  Append(q, m) \in Seq(S) /\ Append(q, m) # << >>
<1>1. Append(q, m) \in Seq(S)
  OBVIOUS
<1>2. Len(q) \in Nat /\ Len(Append(q, m)) = Len(q) + 1
  OBVIOUS
<1>3. Len(<< >>) = 0
  OBVIOUS
<1> QED
  BY <1>1, <1>2, <1>3

(* The initial state.                                                       *)
LEMMA LiveInvInit == LiveInit => LiveInv
<1> SUFFICES ASSUME LiveInit
             PROVE  LiveInv
  OBVIOUS
<1> USE ChannelCapacityAssumption, LiveBoundsAssumption, NotHeldAssumption
<1> USE DEF LiveInit, Quiet, NoSession, Nothing, NoCall
<1>1. LiveTypeOK
  <2>1. << >> \in Seq(0..logged) /\ << >> \in Seq({"sync"}) /\ 0 \in 0..logged
        /\ Len(<< >>) <= ChannelCapacity /\ 0 \in 0..MaxFailures
    OBVIOUS
  <2>2. writer \in [Writers -> [pc : {"idle", "reading", "publishing"}, seq : 0..logged]]
    BY <2>1
  <2>3. session \in [pc : {"none", "subscribed", "sending", "listening"}, seq : 0..logged]
        /\ receiver \in [queue : Seq(0..logged), lagged : BOOLEAN]
        /\ Len(receiver.queue) <= ChannelCapacity
        /\ syncing \in [op : {"none", "load", "sync"}, pc : {"idle", "asked", "answered"},
                        count : 0..logged]
    BY <2>1
  <2>4. logged \in Nat /\ announced \in 0..logged /\ held \in 0..logged \cup {NotHeld}
        /\ shown \in 0..logged \cup {NotHeld}
    OBVIOUS
  <2>5. missed \in BOOLEAN
    BY Zenon
  <2> QED
    BY <2>1, <2>2, <2>3, <2>4, <2>5 DEF LiveTypeOK
<1>2. SocketSound /\ CallsInOrder
  BY DEF SocketSound, CallsInOrder
<1> QED
  BY <1>1, <1>2 DEF LiveInv

(* Each step of the server's handlers keeps the invariant.                  *)
LEMMA WritersKeepLive ==
  ASSUME LiveInv, NEW w \in Writers,
         \/ Write(w, "record_action") \/ Write(w, "push_events")
         \/ ReadAgain(w) \/ Publish(w) \/ DropHandler(w)
  PROVE  LiveInv'
<1> USE ChannelCapacityAssumption, LiveBoundsAssumption, NotHeldAssumption
<1> USE DEF pageSide
<1>1. ASSUME Write(w, "record_action") \/ Write(w, "push_events")
      PROVE  LiveInv'
  <2>1. /\ logged \in Nat /\ logged' = logged + 1
        /\ writer' \in [Writers -> [pc : {"idle", "reading", "publishing"}, seq : 0..logged']]
    <3>1. logged \in Nat /\ logged' = logged + 1
          /\ writer \in [Writers -> [pc : {"idle", "reading", "publishing"}, seq : 0..logged]]
      BY <1>1 DEF Write, LiveInv, LiveTypeOK
    <3>2. 0..logged \subseteq 0..logged' /\ logged' \in 0..logged'
      BY <3>1
    <3>3. \E pc \in {"reading", "publishing"} :
            writer' = [writer EXCEPT ![w] = [pc |-> pc, seq |-> logged']]
      BY <1>1 DEF Write
    <3> QED
      BY <3>1, <3>2, <3>3
  <2>2. 0..logged \subseteq 0..logged' /\ Seq(0..logged) \subseteq Seq(0..logged')
    BY <2>1, LogGrows
  <2>3. UNCHANGED << announced, session, receiver, wire, socket, pageSide, failures >>
    BY <1>1 DEF Write
  <2>4. LiveTypeOK'
    BY <2>1, <2>2, <2>3, SMTT(30) DEF LiveInv, LiveTypeOK
  <2> QED
    BY <2>3, <2>4 DEF LiveInv, SocketSound, CallsInOrder, Carried
<1>2. CASE ReadAgain(w)
  <2>1. UNCHANGED << logged, announced, session, receiver, wire, socket, pageSide, failures >>
        /\ writer' \in [Writers -> [pc : {"idle", "reading", "publishing"}, seq : 0..logged]]
    BY <1>2 DEF ReadAgain, LiveInv, LiveTypeOK
  <2> QED
    BY <2>1 DEF LiveInv, LiveTypeOK, SocketSound, CallsInOrder, Carried
<1>3. CASE Publish(w)
  <2> DEFINE seq == writer[w].seq
  <2>1. /\ seq \in 0..logged /\ announced \in 0..logged /\ logged \in Nat
        /\ receiver \in [queue : Seq(0..logged), lagged : BOOLEAN]
        /\ Len(receiver.queue) <= ChannelCapacity
    BY DEF LiveInv, LiveTypeOK
  <2>2. /\ UNCHANGED << logged, session, wire, socket, pageSide, failures >>
        /\ announced' = IF seq > announced THEN seq ELSE announced
        /\ receiver' = IF Subscribed THEN Deliver(seq) ELSE receiver
        /\ writer' = [writer EXCEPT ![w] = Quiet]
    BY <1>3 DEF Publish
  <2>3. writer' \in [Writers -> [pc : {"idle", "reading", "publishing"}, seq : 0..logged]]
    BY <2>2 DEF Quiet, LiveInv, LiveTypeOK
  <2> HIDE DEF seq
  <2>4. /\ Deliver(seq) \in [queue : Seq(0..logged), lagged : BOOLEAN]
        /\ Len(Deliver(seq).queue) <= ChannelCapacity
        /\ Deliver(seq).queue # << >>
        /\ Deliver(seq).queue[Len(Deliver(seq).queue)] = seq
        /\ Deliver(seq).lagged \/ \A i \in DOMAIN receiver.queue :
             i \in DOMAIN Deliver(seq).queue /\ Deliver(seq).queue[i] = receiver.queue[i]
        /\ receiver.lagged => Deliver(seq).lagged
    <3>1. CASE Len(receiver.queue) = ChannelCapacity
      BY <2>1, <3>1 DEF Deliver
    <3>2. CASE Len(receiver.queue) # ChannelCapacity
      <4>1. Deliver(seq) = [receiver EXCEPT !.queue = Append(receiver.queue, seq)]
        BY <3>2 DEF Deliver
      <4>2. Deliver(seq).queue = Append(receiver.queue, seq)
            /\ Deliver(seq).lagged = receiver.lagged
            /\ Deliver(seq) \in [queue : Seq(0..logged), lagged : BOOLEAN]
        <5>1. Append(receiver.queue, seq) \in Seq(0..logged)
          BY <2>1
        <5>2. receiver \in [queue : Seq(0..logged), lagged : BOOLEAN]
          BY <2>1
        <5> QED
          BY <4>1, <5>1, <5>2
      <4>3. Len(receiver.queue) \in Nat /\ Len(receiver.queue) + 1 <= ChannelCapacity
        BY <2>1, <3>2
      <4> QED
        BY <2>1, <4>2, <4>3, SMTT(30)
    <3> QED
      BY <3>1, <3>2
  <2>5. LiveTypeOK'
    BY <2>1, <2>2, <2>3, <2>4 DEF LiveInv, LiveTypeOK
  <2>6. SocketSound' /\ CallsInOrder'
    BY <2>1, <2>2, <2>4 DEF LiveInv, SocketSound, CallsInOrder
  <2>7. ASSUME socket = "open", ~ missed, page # "error"
        PROVE  Carried'
    <3>1. Carried /\ receiver' = Deliver(seq)
      BY <2>2, <2>7 DEF LiveInv, SocketSound, Subscribed
    <3>2. CASE seq > announced
      <4>1. Len(receiver'.queue) \in DOMAIN receiver'.queue
        BY <2>4, <3>1
      <4> QED
        BY <2>1, <2>2, <2>4, <3>1, <3>2, <4>1 DEF Carried
    <3>3. CASE ~ seq > announced
      BY <2>2, <2>4, <3>1, <3>3 DEF Carried
    <3> QED
      BY <3>2, <3>3
  <2> QED
    BY <2>2, <2>5, <2>6, <2>7 DEF LiveInv
<1>4. CASE DropHandler(w)
  <2>1. UNCHANGED << logged, announced, session, receiver, wire, socket, pageSide >>
        /\ writer' \in [Writers -> [pc : {"idle", "reading", "publishing"}, seq : 0..logged]]
        /\ failures' \in 0..MaxFailures
    BY <1>4 DEF DropHandler, Quiet, LiveInv, LiveTypeOK
  <2> QED
    BY <2>1 DEF LiveInv, LiveTypeOK, SocketSound, CallsInOrder, Carried
<1> QED
  BY <1>1, <1>2, <1>3, <1>4

(* Each step of the socket keeps the invariant.                             *)
LEMMA SocketKeepsLive ==
  ASSUME LiveInv, SessionStep \/ ConnectSocket \/ Disconnect \/ StopWatching
  PROVE  LiveInv'
<1> USE ChannelCapacityAssumption, LiveBoundsAssumption, NotHeldAssumption
<1> USE DEF pageSide, serverSide, sessionSide, NoSession, Nothing
<1> USE DEF LiveInv, LiveTypeOK
<1>1. CASE ReadCurrent
  <2>1. LiveTypeOK'
    BY <1>1 DEF ReadCurrent
  <2> QED
    BY <1>1, <2>1 DEF ReadCurrent, SocketSound, CallsInOrder, Carried
<1>2. CASE SendSeq
  <2>1. wire' \in Seq(0..logged) /\ wire' # << >>
    <3>1. wire \in Seq(0..logged) /\ session.seq \in 0..logged
      OBVIOUS
    <3>2. wire' = Append(wire, session.seq)
      BY <1>2 DEF SendSeq
    <3> DEFINE seqs == 0..logged
    <3>3. wire \in Seq(seqs) /\ session.seq \in seqs
      BY <3>1
    <3> HIDE DEF seqs
    <3>4. Append(wire, session.seq) \in Seq(seqs) /\ Append(wire, session.seq) # << >>
      BY <3>3, MessageAdded, SMTT(30)
    <3> QED
      BY <3>2, <3>4 DEF seqs
  <2>2. LiveTypeOK'
    BY <1>2, <2>1 DEF SendSeq
  <2> QED
    BY <1>2, <2>1, <2>2, ZenonT(40) DEF SendSeq, SocketSound, CallsInOrder, Carried
<1>3. CASE Receive
  <2>0. receiver.queue \in Seq(0..logged) /\ receiver.queue # << >>
    BY <1>3 DEF Receive
  <2>1. UNCHANGED << serverSide, wire, socket, pageSide, failures >>
    BY <1>3 DEF Receive
  <2>2. CASE receiver.lagged
    <3>1. /\ receiver' = [receiver EXCEPT !.lagged = FALSE]
          /\ session' = [pc |-> "subscribed", seq |-> 0] /\ session.pc = "listening"
      BY <1>3, <2>2 DEF Receive
    <3>2. LiveTypeOK'
      <4>1. receiver' \in [queue : Seq(0..logged), lagged : BOOLEAN]
            /\ receiver'.queue = receiver.queue
        BY <3>1
      <4>2. session' \in [pc : {"none", "subscribed", "sending", "listening"}, seq : 0..logged]
        BY <3>1
      <4> QED
        BY <2>1, <4>1, <4>2
    <3> QED
      BY <2>1, <3>1, <3>2 DEF SocketSound, CallsInOrder, Carried
  <2>3. CASE ~ receiver.lagged
    <3>1. /\ receiver' = [receiver EXCEPT !.queue = Tail(receiver.queue)]
          /\ session' = [pc |-> "sending", seq |-> Head(receiver.queue)]
          /\ session.pc = "listening"
      BY <1>3, <2>3 DEF Receive
    <3>2. /\ Tail(receiver.queue) \in Seq(0..logged) /\ Head(receiver.queue) \in 0..logged
          /\ Len(Tail(receiver.queue)) <= ChannelCapacity
      BY <2>0, SMTT(30)
    <3>3. LiveTypeOK'
      BY <2>1, <3>1, <3>2
    <3>4. \A i \in DOMAIN receiver.queue :
            \/ receiver.queue[i] = Head(receiver.queue)
            \/ i - 1 \in DOMAIN Tail(receiver.queue)
                 /\ Tail(receiver.queue)[i - 1] = receiver.queue[i]
      <4>1. SUFFICES ASSUME NEW q \in Seq(0..logged), q # << >>, NEW i \in 1..Len(q)
                     PROVE  q[i] = Head(q) \/ (i - 1 \in DOMAIN Tail(q) /\ Tail(q)[i - 1] = q[i])
        BY <2>0, SMTT(30)
      <4> QED
        BY <4>1
    <3>5. SocketSound' /\ CallsInOrder'
      BY <2>1, <2>3, <3>1 DEF SocketSound, CallsInOrder
    <3>6. Carried => Carried'
      BY <2>1, <2>3, <3>1, <3>4 DEF Carried
    <3> QED
      BY <2>1, <3>3, <3>5, <3>6
  <2> QED
    BY <2>2, <2>3
<1>4. CASE ConnectSocket
  BY <1>4 DEF ConnectSocket, SocketSound, CallsInOrder, Carried
<1>5. CASE Disconnect
  BY <1>5 DEF Disconnect, SocketSound, CallsInOrder
<1>6. CASE StopWatching
  BY <1>6 DEF StopWatching, SocketSound, CallsInOrder
<1> QED
  BY <1>1, <1>2, <1>3, <1>4, <1>5, <1>6 DEF SessionStep

(* The next call begins, or none does.                                      *)
LEMMA NextCallIs ==
  ASSUME LiveTypeOK, NextCall
  PROVE  /\ waitingOps' \in Seq({"sync"})
         /\ waitingOps = << >> => syncing' = NoCall /\ waitingOps' = << >>
         /\ waitingOps # << >> => syncing' = Call("sync")
<1>1. waitingOps \in Seq({"sync"})
  BY DEF LiveTypeOK
<1>2. CASE waitingOps = << >>
  BY <1>1, <1>2 DEF NextCall
<1>3. CASE waitingOps # << >>
  <2>1. Head(waitingOps) = "sync" /\ Tail(waitingOps) \in Seq({"sync"})
    BY <1>1, <1>3
  <2> QED
    BY <1>3, <2>1 DEF NextCall
<1> QED
  BY <1>2, <1>3

(* Each step of the page keeps the invariant.                               *)
LEMMA PageKeepsLive ==
  ASSUME LiveInv, OpenPage \/ PageStep \/ SyncFails
  PROVE  LiveInv'
<1> USE ChannelCapacityAssumption, LiveBoundsAssumption, NotHeldAssumption
<1> USE DEF serverSide, sessionSide, NoCall, Call
<1>0. logged \in Nat /\ announced \in 0..logged /\ wire \in Seq(0..logged)
      /\ waitingOps \in Seq({"sync"}) /\ held \in 0..logged \cup {NotHeld}
      /\ shown \in 0..logged \cup {NotHeld} /\ failures \in 0..MaxFailures
      /\ syncing \in [op : {"none", "load", "sync"}, pc : {"idle", "asked", "answered"},
                      count : 0..logged]
  BY DEF LiveInv, LiveTypeOK
<1>1. CASE OpenPage
  <2>1. LiveTypeOK'
    BY <1>1 DEF OpenPage, LiveInv, LiveTypeOK
  <2>2. SocketSound' /\ CallsInOrder'
    BY <1>0, <1>1 DEF OpenPage, LiveInv, SocketSound, CallsInOrder
  <2> QED
    BY <1>1, <2>1, <2>2 DEF OpenPage, LiveInv
<1>2. CASE Announced
  <2>1. Tail(wire) \in Seq(0..logged) /\ Append(waitingOps, "sync") \in Seq({"sync"})
        /\ Append(waitingOps, "sync") # << >>
    <3>1. wire # << >> /\ "sync" \in {"sync"}
      BY <1>2 DEF Announced
    <3> QED
      BY <1>0, <3>1
  <2>2. LiveTypeOK'
    <3>1. wire' \in Seq(0..logged) /\ waitingOps' \in Seq({"sync"}) /\ missed' = FALSE
      BY <1>0, <1>2, <2>1 DEF Announced
    <3>2. syncing' \in [op : {"none", "load", "sync"}, pc : {"idle", "asked", "answered"},
                        count : 0..logged]
      BY <1>0, <1>2 DEF Announced
    <3>3. UNCHANGED << serverSide, sessionSide, socket, held, page, shown, failures >>
      BY <1>2 DEF Announced
    <3> QED
      BY <3>1, <3>2, <3>3 DEF LiveInv, LiveTypeOK
  <2>3. SocketSound'
    BY <1>0, <1>2 DEF Announced, LiveInv, SocketSound
  <2>4. CallsInOrder'
    BY <1>0, <1>2, <2>1, SMTT(30) DEF Announced, LiveInv, SocketSound, CallsInOrder
  <2>5. Carried'
    BY <1>0, <1>2, <2>1 DEF Announced, Carried
  <2> QED
    BY <2>2, <2>3, <2>4, <2>5 DEF LiveInv
<1>3. CASE PullAnswer
  <2>1. syncing' = [syncing EXCEPT !.pc = "answered", !.count = logged]
        /\ syncing.pc = "asked"
        /\ UNCHANGED << serverSide, sessionSide, wire, socket, waitingOps, held, page, shown,
                        missed, failures >>
    BY <1>3 DEF PullAnswer
  <2>2. syncing' \in [op : {"none", "load", "sync"}, pc : {"idle", "asked", "answered"},
                      count : 0..logged]
        /\ syncing'.pc = "answered" /\ syncing'.count = logged /\ syncing'.op = syncing.op
    <3>1. logged \in 0..logged
      BY <1>0
    <3> QED
      BY <1>0, <2>1, <3>1
  <2>6. LiveTypeOK'
    BY <2>1, <2>2 DEF LiveInv, LiveTypeOK
  <2>3. CallsInOrder' /\ SocketSound'
    <3>0. NoCall.pc = "idle"
      OBVIOUS
    <3>1. syncing # NoCall /\ syncing' # NoCall
      <4> HIDE DEF NoCall
      <4>1. syncing.pc = "asked" /\ syncing'.pc = "answered"
        BY <2>1, <2>2
      <4> QED
        BY <3>0, <4>1
    <3>2. held # NotHeld => held <= logged
      BY <1>0
    <3> QED
      BY <2>1, <2>2, <3>1, <3>2 DEF LiveInv, SocketSound, CallsInOrder
  <2>4. Carried'
    BY <1>0, <2>1, <2>2 DEF Carried
  <2> QED
    BY <2>3, <2>4, <2>6 DEF LiveInv
<1>4. CASE Shown
  <2>0. LiveTypeOK /\ NextCall
    BY <1>4 DEF Shown, LiveInv
  <2>1. /\ waitingOps' \in Seq({"sync"})
        /\ waitingOps = << >> => syncing' = NoCall /\ waitingOps' = << >>
        /\ waitingOps # << >> => syncing' = Call("sync")
    BY <2>0, NextCallIs
  <2>2. /\ syncing.pc = "answered" /\ held' = syncing.count /\ missed' = FALSE
        /\ page' = IF syncing.op = "load" THEN "open" ELSE page
        /\ shown' = IF page' = "open" THEN syncing.count ELSE shown
        /\ UNCHANGED << serverSide, sessionSide, wire, socket, failures >>
    BY <1>4 DEF Shown
  <2>3. LiveTypeOK'
    <3>1. syncing' \in [op : {"none", "load", "sync"}, pc : {"idle", "asked", "answered"},
                        count : 0..logged]
      BY <1>0, <2>1
    <3>2. held' \in 0..logged \cup {NotHeld} /\ shown' \in 0..logged \cup {NotHeld}
      BY <1>0, <2>2
    <3>3. page' \in {"closed", "loading", "open", "error"} /\ missed' \in BOOLEAN
      BY <2>0, <2>2 DEF LiveTypeOK
    <3> QED
      BY <2>0, <2>1, <2>2, <3>1, <3>2, <3>3 DEF LiveTypeOK
  <2>4. SocketSound' /\ CallsInOrder'
    BY <1>0, <2>1, <2>2 DEF LiveInv, SocketSound, CallsInOrder
  <2>5. ASSUME socket = "open", page' # "error"
        PROVE  Carried'
    <3>1. Carried /\ page' = "open" /\ shown' = syncing.count
      BY <2>2, <2>5, <1>0 DEF LiveInv, LiveTypeOK, CallsInOrder
    <3>2. CASE waitingOps = << >>
      BY <1>0, <2>1, <2>2, <3>1, <3>2 DEF Carried, LiveInv, CallsInOrder
    <3>3. CASE waitingOps # << >>
      BY <2>1, <3>3 DEF Carried
    <3> QED
      BY <3>2, <3>3
  <2> QED
    BY <2>2, <2>3, <2>4, <2>5 DEF LiveInv
<1>5. CASE SyncFails
  <2>0. LiveTypeOK /\ NextCall
    BY <1>5 DEF SyncFails, LiveInv
  <2>1. /\ waitingOps' \in Seq({"sync"})
        /\ waitingOps = << >> => syncing' = NoCall /\ waitingOps' = << >>
        /\ waitingOps # << >> => syncing' = Call("sync")
    BY <2>0, NextCallIs
  <2>9. missed' \in BOOLEAN /\ (missed' <=> waitingOps = << >>)
    <3>1. missed' = (waitingOps = << >>)
      BY <1>5 DEF SyncFails
    <3> QED
      BY <3>1, Zenon
  <2>2. /\ syncing.pc # "idle"
        /\ page' = IF syncing.op # "load" THEN page
                   ELSE IF held # NotHeld THEN "open" ELSE "error"
        /\ shown' = IF syncing.op = "load" THEN held ELSE shown
        /\ failures' \in 0..MaxFailures
        /\ UNCHANGED << serverSide, sessionSide, wire, socket, held >>
    BY <1>0, <1>5 DEF SyncFails
  <2>3. LiveTypeOK'
    BY <1>0, <2>0, <2>1, <2>2, <2>9 DEF LiveTypeOK
  <2>4. SocketSound' /\ CallsInOrder'
    BY <1>0, <2>1, <2>2, <2>9 DEF LiveInv, SocketSound, CallsInOrder
  <2>5. ~ missed' => Carried'
    BY <2>1, <2>2, <2>9 DEF Carried
  <2> QED
    BY <2>2, <2>3, <2>4, <2>5 DEF LiveInv
<1> QED
  BY <1>1, <1>2, <1>3, <1>4, <1>5 DEF PageStep

(* Every step keeps the invariant.                                          *)
LEMMA LiveInvStep == LiveInv /\ [LiveNext]_liveVars => LiveInv'
<1>1. LiveInv /\ UNCHANGED liveVars => LiveInv'
  BY DEF LiveInv, LiveTypeOK, SocketSound, CallsInOrder, Carried, liveVars
<1> QED
  BY <1>1, WritersKeepLive, SocketKeepsLive, PageKeepsLive DEF LiveNext

(* What the page shows only grows in a step.                                *)
LEMMA ShownStep ==
  ASSUME LiveInv, [LiveNext]_liveVars, shown # NotHeld
  PROVE  shown' # NotHeld /\ shown' >= shown
<1>0. /\ shown \in Nat /\ held \in Nat /\ syncing.count \in Nat /\ shown <= held
      /\ page = "open" /\ syncing.op # "load"
      /\ syncing.pc = "answered" => held <= syncing.count
  BY NotHeldAssumption DEF LiveInv, LiveTypeOK, CallsInOrder
<1>1. CASE Shown
  BY <1>0, <1>1, NotHeldAssumption DEF Shown
<1>2. CASE SyncFails
  BY <1>0, <1>2 DEF SyncFails
<1>3. CASE OpenPage
  BY <1>0, <1>3 DEF OpenPage
<1>4. CASE ~ (Shown \/ SyncFails \/ OpenPage)
  <2>1. UNCHANGED shown
    BY <1>4 DEF LiveNext, liveVars, pageSide, SessionStep, PageStep, Write, ReadAgain,
                Publish, DropHandler, ReadCurrent, SendSeq, Receive, ConnectSocket,
                Disconnect, StopWatching, Announced, PullAnswer
  <2> QED
    BY <1>0, <2>1
<1> QED
  BY <1>1, <1>2, <1>3, <1>4

-----------------------------------------------------------------------------
(* The inductive invariant holds in every state.                            *)
THEOREM LiveStaysSound == LiveSpec => []LiveInv
BY LiveInvInit, LiveInvStep, PTL DEF LiveSpec

(* The type invariant holds in every state; a session that falls behind     *)
(* keeps no more than the channel's capacity (live.rs).                     *)
THEOREM LiveTypeCorrect == LiveSpec => []LiveTypeOK
<1>1. LiveInv => LiveTypeOK
  BY DEF LiveInv
<1> QED
  BY <1>1, LiveStaysSound, PTL

(* An open page that waits for nothing shows all that was announced, across *)
(* lost and reordered announcements and reconnections (live_session, the    *)
(* watch of the browser).                                                   *)
THEOREM QuietIsAlwaysCurrent == LiveSpec => []QuietIsCurrent
<1>1. LiveInv => QuietIsCurrent
  BY DEF LiveInv, LiveTypeOK, SocketSound, CallsInOrder, Carried, QuietIsCurrent,
         NothingUnderWay, NoCall
<1> QED
  BY <1>1, LiveStaysSound, PTL

(* What the page shows never gets shorter (#exclusive).                     *)
THEOREM ShownNeverGoesBack == LiveSpec => ShownNeverShrinks
<1>1. LiveInv /\ [LiveNext]_liveVars =>
        [shown # NotHeld => shown' # NotHeld /\ shown' >= shown]_liveVars
  BY ShownStep
<1> QED
  BY <1>1, LiveStaysSound, PTL DEF LiveSpec, ShownNeverShrinks
-----------------------------------------------------------------------------
(*****************************************************************************)
(* Templates.  A template that was reported as created stays, and an        *)
(* editor's change survives, for any number of creators, editors,           *)
(* templates, changes, resets, lost connections and crashes of the collab   *)
(* service.                                                                 *)
(*                                                                          *)
(* A row is written from the document in memory, so what is stored must     *)
(* already be there: HeldInMemory.  A row is deleted only by the request    *)
(* that inserted it, which has not reported anything: RowsAreOwned.         *)
(*****************************************************************************)

(* The variables that TemplatesTypeOK leaves out, and what else types need. *)
TemplatesTyped ==
  /\ limits \in TemplateScopes
  /\ rows \in [Ids -> Row \cup {Unset}]
  /\ docs \in [Ids -> Doc \cup {Unset}]
  /\ seeding \in [Ids -> {"none", "sent", "applied", "stored", "refused"}]
  /\ creating \in [Creators -> Request]
  /\ \A c \in Creators : creating[c].pc # "idle" => creating[c].proc \in Procedures
  /\ \A c \in Creators : creating[c].pc = "read" => creating[c].id \in Ids
  /\ view \in [Editors -> View \cup {Unset}]
  /\ resetting \subseteq Ids
  /\ made \in 0..MaxTemplates
  /\ edits \subseteq Ids \X Change /\ IsFiniteSet(edits)
  /\ created \subseteq Ids
  /\ resets \in Nat /\ losses \in Nat /\ crashes \in Nat

(* Nothing is known yet under an ID that no row was inserted with.          *)
UnusedIds ==
  /\ \A id \in Ids : id > made =>
       /\ rows[id] = Unset /\ docs[id] = Unset /\ seeding[id] = "none"
       /\ id \notin created
  /\ \A e \in Editors : view[e] # Unset => view[e].id <= made
  /\ \A x \in edits : x[1] <= made
  /\ \A c \in Creators : creating[c].id <= made

(* One row holds a procedure ID.                                            *)
OneHolds ==
  \A i, j \in Ids : Exists(i) /\ Exists(j) /\ rows[i].proc = rows[j].proc => i = j

(* The row a request inserted is there until it reported or deleted it, and *)
(* no other request will.                                                   *)
RowsAreOwned ==
  /\ \A c \in Creators : creating[c].pc \in {"seeding", "cleanup"} =>
       /\ creating[c].id \in Ids
       /\ Exists(creating[c].id) /\ creating[c].id \notin created
  /\ \A c, d \in Creators :
       /\ creating[c].pc \in {"seeding", "cleanup"} /\ creating[d].pc \in {"seeding", "cleanup"}
       /\ creating[c].id = creating[d].id
       => c = d

(* The first content is in memory from when it was applied, and stored from *)
(* when it was stored.                                                      *)
FirstContent ==
  \A id \in Ids : Exists(id) =>
    /\ seeding[id] = "applied" => docs[id] # Unset /\ << "seed", id >> \in docs[id].added
    /\ seeding[id] = "stored"  => << "seed", id >> \in rows[id].state.added

(* A document in memory has all that is stored, and one that somebody is    *)
(* connected to is in memory.                                               *)
HeldInMemory ==
  /\ \A id \in Ids : Exists(id) /\ docs[id] # Unset => rows[id].state.added \subseteq docs[id].added
  /\ \A e \in Editors : Connected(e) => docs[view[e].id] # Unset

TemplatesInv ==
  /\ TemplatesTyped
  /\ UnusedIds
  /\ OneHolds
  /\ RowsAreOwned
  /\ FirstContent
  /\ HeldInMemory
  /\ CreatedStays
  /\ EditsSurvive

-----------------------------------------------------------------------------
(* Types. *)

(* What the operators on documents return.                                  *)
LEMMA DocTypes ==
  /\ EmptyDoc \in Doc
  /\ \A d, e \in Doc : Merge(d, e) \in Doc /\ Merge(d, e).added = d.added \cup e.added
  /\ \A d \in Doc, x \in Change :
       /\ Add(d, x) \in Doc /\ Add(d, x).added = d.added \cup {x}
       /\ Replaced(d, x) \in Doc /\ Replaced(d, x).added = d.added \cup {x}
BY DEF EmptyDoc, Doc, Merge, Add, Replaced

(* A row that exists has its fields, a document in memory is one.           *)
LEMMA Looked ==
  ASSUME TemplatesTyped
  PROVE  /\ \A id \in Ids : Exists(id) =>
              /\ rows[id] \in Row /\ rows[id].state \in Doc /\ InMemory(id) \in Doc
              /\ rows[id].proc \in Procedures
         /\ \A id \in Ids : docs[id] # Unset => docs[id] \in Doc
         /\ \A e \in Editors : view[e] # Unset =>
              view[e] \in View /\ view[e].id \in Ids /\ view[e].doc \in Doc
BY DEF TemplatesTyped, Exists, Row, View, InMemory

(* Changes are of their kind.                                               *)
LEMMA ChangeTypes ==
  /\ \A id \in Ids : << "seed", id >> \in Change
  /\ \A n \in Nat : << "edit", n >> \in Change /\ << "file", n >> \in Change
BY DEF Change

(* What a scope bounds.                                                     *)
LEMMA ScopeTypes ==
  ASSUME limits \in TemplateScopes
  PROVE  /\ limits.maxTemplates \in Ids
         /\ limits.procedures \subseteq Procedures
         /\ limits.creators \subseteq Creators
         /\ limits.editors \subseteq Editors
BY TemplateScopesAssumption

(* The invariant holds at first.                                            *)
LEMMA TemplatesInvInit == TemplatesInit => TemplatesInv
<1> SUFFICES ASSUME TemplatesInit
             PROVE  TemplatesInv
  OBVIOUS
<1>1. TemplatesTyped
  BY MaxTemplatesAssumption, FS_EmptySet DEF TemplatesInit, TemplatesTyped, Request, Resting, Ids
<1>2. /\ UnusedIds /\ OneHolds /\ RowsAreOwned /\ FirstContent /\ HeldInMemory
      /\ CreatedStays /\ EditsSurvive
  BY MaxTemplatesAssumption
     DEF TemplatesInit, UnusedIds, OneHolds, RowsAreOwned, FirstContent, HeldInMemory,
         CreatedStays, EditsSurvive, Resting, Ids, Exists, Connected
<1> QED
  BY <1>1, <1>2 DEF TemplatesInv

(* What a request becomes on its way.                                       *)
LEMMA RequestMoves ==
  ASSUME NEW r \in Request
  PROVE  /\ LET h == [r EXCEPT !.pc = "holder"]
            IN  h \in Request /\ h.proc = r.proc /\ h.pc = "holder" /\ h.id = r.id
         /\ \A i \in 0..MaxTemplates :
              LET s == [r EXCEPT !.pc = "seeding", !.id = i]
              IN  s \in Request /\ s.proc = r.proc /\ s.pc = "seeding" /\ s.id = i
BY DEF Request

(* Each step of a request that creates a template keeps the types.          *)
LEMMA CreatorTypeStep ==
  ASSUME TemplatesTyped, RowsAreOwned, NEW c \in Creators, CreatorStep(c)
  PROVE  TemplatesTyped'
<1> USE MaxTemplatesAssumption DEF TemplatesTyped, bounds, Request
<1>0. /\ Resting.pc = "idle"
      /\ Resting \in Request
  BY DEF Resting, Request
<1>1. ASSUME NEW p \in limits.procedures, NEW kind \in {"open", "create"}, Create(c, kind, p)
      PROVE  TemplatesTyped'
  BY <1>1, ScopeTypes, ZenonT(40) DEF Create
<1>2. ASSUME NEW p \in limits.procedures, NEW source \in Ids, Duplicate(c, p, source)
      PROVE  TemplatesTyped'
  BY <1>2, ScopeTypes, SMTT(30) DEF Duplicate, Ids
<1>3. CASE ReadSource(c)
  <2>1. creating' \in [Creators -> Request]
    BY <1>3, <1>0 DEF ReadSource
  <2>2. /\ \A d \in Creators : creating'[d].pc # "idle" => creating'[d].proc \in Procedures
        /\ \A d \in Creators : creating'[d].pc = "read" => creating'[d].id \in Ids
    BY <1>3, <1>0, SMTT(30) DEF ReadSource
  <2>3. docs' \in [Ids -> Doc \cup {Unset}]
    BY <1>3, Looked DEF ReadSource
  <2>4. UNCHANGED << limits, rows, seeding, view, resetting, made, bounds >>
    BY <1>3 DEF ReadSource
  <2> QED
    BY <2>1, <2>2, <2>3, <2>4
<1>4. CASE Insert(c)
  <2> HIDE DEF Request
  <2> DEFINE id == made + 1
  <2>1. id \in Ids
    BY <1>4, ScopeTypes DEF Insert, Ids
  <2>2. creating[c].proc \in Procedures
    BY <1>4 DEF Insert
  <2>3. [proc |-> creating[c].proc, state |-> EmptyDoc, archived |-> FALSE] \in Row
    BY <2>2, DocTypes DEF Row
  <2>4. rows' \in [Ids -> Row \cup {Unset}]
    BY <1>4, <2>1, <2>3 DEF Insert
  <2>5. PICK r \in Request :
          /\ creating' = [creating EXCEPT ![c] = r]
          /\ r.proc = creating[c].proc /\ r.pc \in {"holder", "seeding"}
    <3> DEFINE h == [creating[c] EXCEPT !.pc = "holder"]
               k == [creating[c] EXCEPT !.pc = "seeding", !.id = id]
    <3>1. creating' = [creating EXCEPT ![c] = h] \/ creating' = [creating EXCEPT ![c] = k]
      BY <1>4 DEF Insert
    <3>2. creating[c] \in Request /\ id \in 0..MaxTemplates
      BY <2>1 DEF Ids
    <3>3. /\ h \in Request /\ h.proc = creating[c].proc /\ h.pc = "holder"
          /\ k \in Request /\ k.proc = creating[c].proc /\ k.pc = "seeding"
      BY <3>2, RequestMoves, ZenonT(100)
    <3> HIDE DEF h, k
    <3> QED
      BY <3>1, <3>3
  <2>6. /\ creating' \in [Creators -> Request]
        /\ \A d \in Creators : creating'[d].pc # "idle" => creating'[d].proc \in Procedures
        /\ \A d \in Creators : creating'[d].pc = "read" => creating'[d].id \in Ids
    BY <2>2, <2>5
  <2>7. seeding' \in [Ids -> {"none", "sent", "applied", "stored", "refused"}]
    BY <1>4, <2>1 DEF Insert
  <2>8. made' \in 0..MaxTemplates
    BY <1>4, <2>1 DEF Insert, Ids
  <2>9. UNCHANGED << limits, docs, view, resetting, bounds >>
    BY <1>4 DEF Insert
  <2> QED
    BY <2>4, <2>6, <2>7, <2>8, <2>9
<1>5. CASE Holder(c)
  BY <1>5, <1>0 DEF Holder
<1>6. CASE SeedAnswered(c)
  <2>1. creating' \in [Creators -> Request]
    BY <1>6, <1>0 DEF SeedAnswered
  <2>2. /\ \A d \in Creators : creating'[d].pc # "idle" => creating'[d].proc \in Procedures
        /\ \A d \in Creators : creating'[d].pc = "read" => creating'[d].id \in Ids
    BY <1>6, <1>0 DEF SeedAnswered
  <2>3. created' \subseteq Ids
    BY <1>6 DEF SeedAnswered, RowsAreOwned
  <2>4. UNCHANGED << limits, rows, docs, seeding, view, resetting, made,
                     edits, abandoned, resets, losses, crashes >>
    BY <1>6 DEF SeedAnswered
  <2> QED
    BY <2>1, <2>2, <2>3, <2>4
<1>7. CASE Cleanup(c)
  <2>1. rows' \in [Ids -> Row \cup {Unset}] /\ losses' \in Nat
    BY <1>7 DEF Cleanup
  <2>2. creating' = [creating EXCEPT ![c] = Resting]
        /\ UNCHANGED << limits, docs, seeding, view, resetting, made,
                        edits, abandoned, created, resets, crashes >>
    BY <1>7 DEF Cleanup
  <2> QED
    BY <1>0, <2>1, <2>2
<1>8. CASE SeedLost(c)
  <2>1. seeding' \in [Ids -> {"none", "sent", "applied", "stored", "refused"}]
    BY <1>8 DEF SeedLost
  <2>2. /\ creating' = [creating EXCEPT ![c].pc = "cleanup"] /\ losses' = losses + 1
        /\ creating[c].pc = "seeding"
        /\ UNCHANGED << limits, rows, docs, view, resetting, made,
                        edits, abandoned, created, resets, crashes >>
    BY <1>8 DEF SeedLost
  <2> QED
    BY <2>1, <2>2
<1>9. CASE CreatorGone(c)
  <2>1. seeding' \in [Ids -> {"none", "sent", "applied", "stored", "refused"}]
    BY <1>9 DEF CreatorGone
  <2>2. /\ creating' = [creating EXCEPT ![c] = Resting] /\ losses' = losses + 1
        /\ UNCHANGED << limits, rows, docs, view, resetting, made,
                        edits, abandoned, created, resets, crashes >>
    BY <1>9 DEF CreatorGone
  <2> QED
    BY <1>0, <2>1, <2>2
<1> QED
  BY <1>1, <1>2, <1>3, <1>4, <1>5, <1>6, <1>7, <1>8, <1>9 DEF CreatorStep

(* Each step on a template, and of the service on its document, too.        *)
LEMMA TemplateTypeStep ==
  ASSUME TemplatesTyped, FirstContent, NEW id \in Ids, TemplateStep(id)
  PROVE  TemplatesTyped'
<1> USE DEF TemplatesTyped, bounds
<1>1. CASE Seed(id)
  <2>1. docs' \in [Ids -> Doc \cup {Unset}]
    <3>1. Add(EmptyDoc, << "seed", id >>) \in Doc
      BY DocTypes, ChangeTypes
    <3> QED
      BY <1>1, <3>1, Looked DEF Seed
  <2>2. seeding' \in [Ids -> {"none", "sent", "applied", "stored", "refused"}]
    BY <1>1 DEF Seed
  <2>3. UNCHANGED << limits, rows, creating, view, resetting, made, bounds >>
    BY <1>1 DEF Seed
  <2> QED
    BY <2>1, <2>2, <2>3
<1>2. ASSUME docs[id] \in Doc, Stored(id)
      PROVE  rows' \in [Ids -> Row \cup {Unset}]
  BY <1>2, Looked DEF Stored, Exists, Row
<1>3. CASE Archive(id)
  <2>1. rows[id] \in Row
    BY <1>3, Looked DEF Archive, Active
  <2>2. rows' \in [Ids -> Row \cup {Unset}]
    BY <1>3, <2>1 DEF Archive, Row
  <2> QED
    BY <1>3, <2>2 DEF Archive
<1>4. CASE Reset(id)
  BY <1>4 DEF Reset
<1>5. CASE Replace(id)
  <2>1. Exists(id) => Replaced(InMemory(id), << "file", resets >>) \in Doc
    BY Looked, DocTypes, ChangeTypes
  <2> QED
    BY <1>5, <2>1 DEF Replace
<1>6. CASE Store(id)
  <2>1. docs[id] \in Doc
    BY <1>6 DEF Store
  <2> QED
    BY <1>2, <1>6, <2>1 DEF Store
<1>7. CASE Unload(id)
  BY <1>7 DEF Unload
<1>8. CASE SeedStored(id)
  <2>1. Exists(id) => docs[id] \in Doc
    BY <1>8 DEF SeedStored, FirstContent
  <2>2. rows' \in [Ids -> Row \cup {Unset}]
    BY <1>2, <1>8, <2>1 DEF SeedStored, Stored
  <2> QED
    BY <1>8, <2>2 DEF SeedStored
<1> QED
  BY <1>1, <1>3, <1>4, <1>5, <1>6, <1>7, <1>8 DEF TemplateStep

(* Each step of an editor, too.                                             *)
LEMMA EditorTypeStep ==
  ASSUME TemplatesTyped, HeldInMemory, NEW e \in Editors, EditorStep(e)
  PROVE  TemplatesTyped'
<1> USE DEF TemplatesTyped, bounds
<1>1. ASSUME NEW id \in Ids, Token(e, id)
      PROVE  TemplatesTyped'
  <2>1. view' \in [Editors -> View \cup {Unset}]
    BY <1>1, DocTypes DEF Token, View
  <2> QED
    BY <1>1, <2>1 DEF Token
<1>2. CASE Connect(e)
  <2>1. view' \in [Editors -> View \cup {Unset}]
    BY <1>2, Looked DEF Connect, View
  <2>2. docs' \in [Ids -> Doc \cup {Unset}]
    BY <1>2, Looked DEF Connect
  <2> QED
    BY <1>2, <2>1, <2>2 DEF Connect
<1>3. CASE Edit(e)
  <2> DEFINE change == << "edit", Cardinality(edits) + 1 >>
  <2>1. change \in Change
    <3>1. Cardinality(edits) + 1 \in Nat
      BY FS_CardinalityType
    <3> QED
      BY <3>1, ChangeTypes
  <2>2. view[e] \in View /\ view[e].id \in Ids /\ view[e].doc \in Doc
    BY <1>3, Looked DEF Edit
  <2>3. Add(view[e].doc, change) \in Doc
    BY <2>1, <2>2, DocTypes
  <2> HIDE DEF change
  <2>4. view' = [view EXCEPT ![e].doc = Add(@, change)]
        /\ edits' = edits \cup {<< view[e].id, change >>}
        /\ UNCHANGED << limits, rows, docs, seeding, creating, resetting, made,
                        created, resets, losses, crashes >>
    BY <1>3 DEF Edit, change
  <2>5. view' \in [Editors -> View \cup {Unset}]
    BY <2>2, <2>3, <2>4 DEF View
  <2>6. edits' \subseteq Ids \X Change /\ IsFiniteSet(edits')
    <3>1. << view[e].id, change >> \in Ids \X Change
      BY <2>1, <2>2
    <3>2. IsFiniteSet(edits \cup {<< view[e].id, change >>})
      BY FS_AddElement
    <3> QED
      BY <2>4, <3>1, <3>2
  <2> QED
    BY <2>4, <2>5, <2>6
<1>4. CASE Up(e)
  <2>1. /\ view[e].id \in Ids /\ docs[view[e].id] \in Doc
        /\ Merge(docs[view[e].id], view[e].doc) \in Doc
    BY <1>4, Looked, DocTypes DEF Up, HeldInMemory, Connected
  <2> QED
    BY <1>4, <2>1 DEF Up
<1>5. CASE Down(e)
  <2>1. /\ view[e] \in View /\ view[e].doc \in Doc /\ docs[view[e].id] \in Doc
        /\ Merge(view[e].doc, docs[view[e].id]) \in Doc
    BY <1>5, Looked, DocTypes DEF Down, HeldInMemory, Connected
  <2>2. view' \in [Editors -> View \cup {Unset}]
    BY <1>5, <2>1 DEF Down, View
  <2> QED
    BY <1>5, <2>2 DEF Down
<1>6. CASE Lose(e)
  <2>1. view' \in [Editors -> View \cup {Unset}]
    BY <1>6, Looked DEF Lose, View, Connected
  <2> QED
    BY <1>6, <2>1 DEF Lose
<1>7. CASE Leave(e)
  BY <1>7 DEF Leave
<1> QED
  BY <1>1, <1>2, <1>3, <1>4, <1>5, <1>6, <1>7 DEF EditorStep

(* And a crash of the service.                                              *)
LEMMA CrashTypeStep ==
  ASSUME TemplatesTyped, CollabCrash
  PROVE  TemplatesTyped'
<1> USE DEF TemplatesTyped, CollabCrash
<1>1. view' \in [Editors -> View \cup {Unset}]
  BY Looked DEF View
<1>2. seeding' \in [Ids -> {"none", "sent", "applied", "stored", "refused"}]
  OBVIOUS
<1> QED
  BY <1>1, <1>2

-----------------------------------------------------------------------------
(* The rest of the invariant, over a request's steps. *)

(* What is about neither rows nor documents nor editors stays.              *)
LEMMA FrameStep ==
  ASSUME UNCHANGED << rows, docs, view, edits >>, HeldInMemory, OneHolds
  PROVE  HeldInMemory' /\ OneHolds'
BY DEF HeldInMemory, OneHolds, Exists, Connected

(* A step of a creation keeps the rest of the invariant.                    *)
LEMMA CreatorOthersStep ==
  ASSUME TemplatesInv, NEW c \in Creators, CreatorStep(c)
  PROVE  /\ UnusedIds' /\ OneHolds' /\ RowsAreOwned' /\ FirstContent' /\ HeldInMemory'
         /\ CreatedStays' /\ EditsSurvive'
<1> USE MaxTemplatesAssumption DEF TemplatesInv, bounds
<1>0. creating \in [Creators -> Request] /\ Resting.pc = "idle" /\ Resting.id = 0 /\ made \in Nat
  BY DEF TemplatesTyped, Resting
<1>r. Resting.pc \notin {"seeding", "cleanup"} /\ Resting.id \in 0..made
  BY <1>0
<1>1. ASSUME NEW r, creating' = [creating EXCEPT ![c] = r],
             r.pc \notin {"seeding", "cleanup"}, r.id \in 0..made,
             \/ UNCHANGED seeding
             \/ \E id \in 1..made : seeding' = [seeding EXCEPT ![id] = "refused"],
             UNCHANGED << rows, docs, view, made, edits, abandoned, created >>
      PROVE  /\ UnusedIds' /\ OneHolds' /\ RowsAreOwned' /\ FirstContent' /\ HeldInMemory'
             /\ CreatedStays' /\ EditsSurvive'
  <2>1. UnusedIds'
    BY <1>0, <1>1 DEF UnusedIds, TemplatesTyped
  <2>2. RowsAreOwned'
    BY <1>0, <1>1 DEF RowsAreOwned, Exists
  <2>3. FirstContent'
    BY <1>1 DEF FirstContent, Exists, TemplatesTyped
  <2>4. HeldInMemory' /\ OneHolds'
    BY <1>1, FrameStep
  <2>5. CreatedStays' /\ EditsSurvive'
    BY <1>1 DEF CreatedStays, EditsSurvive, Exists
  <2> QED
    BY <2>1, <2>2, <2>3, <2>4, <2>5
<1>2. ASSUME NEW p \in limits.procedures, NEW kind \in {"open", "create"}, Create(c, kind, p)
      PROVE  /\ UnusedIds' /\ OneHolds' /\ RowsAreOwned' /\ FirstContent' /\ HeldInMemory'
             /\ CreatedStays' /\ EditsSurvive'
  <2> DEFINE r == [creating[c] EXCEPT !.pc = "insert", !.kind = kind, !.proc = p]
  <2>1. r.pc = "insert" /\ r.id \in 0..made
    BY <1>0 DEF UnusedIds, Request
  <2>2. creating' = [creating EXCEPT ![c] = r]
        /\ UNCHANGED << rows, docs, seeding, view, made, bounds >>
    BY <1>2 DEF Create
  <2> HIDE DEF r
  <2> QED
    BY <1>1, <2>1, <2>2
<1>3. ASSUME NEW p \in limits.procedures, NEW source \in Ids, Duplicate(c, p, source)
      PROVE  /\ UnusedIds' /\ OneHolds' /\ RowsAreOwned' /\ FirstContent' /\ HeldInMemory'
             /\ CreatedStays' /\ EditsSurvive'
  <2> DEFINE r == [pc |-> "read", kind |-> "create", proc |-> p, id |-> source]
  <2>1. r.pc = "read" /\ r.id \in 0..made
    BY <1>3, <1>0 DEF UnusedIds, Duplicate, Active, Exists, Ids
  <2>2. creating' = [creating EXCEPT ![c] = r]
        /\ UNCHANGED << rows, docs, seeding, view, made, bounds >>
    BY <1>3 DEF Duplicate
  <2> HIDE DEF r
  <2> QED
    BY <1>1, <2>1, <2>2
<1>4. CASE ReadSource(c)
  <2> DEFINE source == creating[c].id
  <2>1. /\ creating[c].pc = "read" /\ source \in Ids
        /\ \/ /\ Exists(source) /\ docs' = [docs EXCEPT ![source] = InMemory(source)]
              /\ creating' = [creating EXCEPT ![c].pc = "insert"]
           \/ creating' = [creating EXCEPT ![c] = Resting] /\ UNCHANGED docs
        /\ UNCHANGED << rows, seeding, view, made, bounds >>
    BY <1>4 DEF ReadSource, TemplatesTyped
  <2>2. UnusedIds'
    BY <1>0, <2>1 DEF UnusedIds, Request, Exists, TemplatesTyped
  <2>3. OneHolds' /\ CreatedStays' /\ EditsSurvive'
    BY <2>1 DEF OneHolds, CreatedStays, EditsSurvive, Exists
  <2>4. RowsAreOwned'
    BY <1>0, <2>1 DEF RowsAreOwned, Exists, Request
  <2>5. \A id \in Ids : docs[id] # Unset => docs'[id] = docs[id]
    BY <2>1 DEF InMemory, TemplatesTyped
  <2>6. \A id \in Ids : docs[id] = Unset /\ docs'[id] # Unset =>
           Exists(id) /\ docs'[id] = rows[id].state
    BY <2>1 DEF InMemory, TemplatesTyped
  <2>7. FirstContent' /\ HeldInMemory'
    BY <2>1, <2>5, <2>6, Looked
       DEF FirstContent, HeldInMemory, Exists, Connected
  <2> QED
    BY <2>2, <2>3, <2>4, <2>7
<1>5. CASE Insert(c) /\ ~ Free(creating[c].proc)
  <2>1. creating' = [creating EXCEPT ![c] = [creating[c] EXCEPT !.pc = "holder"]]
        /\ UNCHANGED << rows, docs, seeding, view, made, bounds >>
    BY <1>5 DEF Insert
  <2>2. LET h == [creating[c] EXCEPT !.pc = "holder"] IN h.pc = "holder" /\ h.id \in 0..made
    BY <1>0 DEF Request, UnusedIds
  <2> QED
    BY <1>1, <2>1, <2>2
<1>6. CASE Insert(c) /\ Free(creating[c].proc)
  <2> DEFINE id  == made + 1
             row == [proc |-> creating[c].proc, state |-> EmptyDoc, archived |-> FALSE]
             r   == [creating[c] EXCEPT !.pc = "seeding", !.id = id]
  <2>1. /\ rows' = [rows EXCEPT ![id] = row]
        /\ seeding' = [seeding EXCEPT ![id] = "sent"]
        /\ creating' = [creating EXCEPT ![c] = r]
        /\ made' = id
        /\ UNCHANGED << docs, view, bounds >>
    BY <1>6 DEF Insert
  <2>2. id \in Ids /\ id > made /\ made \in Nat
    BY <1>0, <1>6, ScopeTypes DEF Insert, Ids, TemplatesTyped
  <2>3. row # Unset /\ row.proc = creating[c].proc
    <3>1. row \in Row
      BY <1>6, DocTypes DEF Insert, Row, TemplatesTyped
    <3> QED
      BY <3>1, UnsetAssumption
  <2>4. r.pc = "seeding" /\ r.id = id /\ creating[c].pc = "insert"
    BY <1>0, <1>6 DEF Request, Insert
  <2> HIDE DEF id, row, r
  <2>5. rows[id] = Unset /\ docs[id] = Unset /\ seeding[id] = "none" /\ id \notin created
    BY <2>2 DEF UnusedIds
  <2>6. UnusedIds'
    <3>1. \A i \in Ids : i > id => i > made /\ i # id
      BY <2>2 DEF Ids, id
    <3>2. \A i : i \in Int /\ i <= made => i <= id
      BY <2>2 DEF id
    <3>3. \A d \in Creators : creating'[d].id <= id
      BY <1>0, <2>1, <2>2, <2>4, <3>2 DEF UnusedIds, Request, id
    <3>4. /\ \A e \in Editors : view[e] # Unset => view[e].id <= id
          /\ \A x \in edits : x[1] <= id
      BY <3>2, Looked DEF UnusedIds, TemplatesTyped, Ids
    <3> QED
      BY <2>1, <2>2, <3>1, <3>3, <3>4 DEF UnusedIds, TemplatesTyped
  <2>7. OneHolds'
    <3>1. \A i \in Ids : Exists(i) => rows[i].proc # creating[c].proc
      BY <1>6 DEF Free, TemplateHolding
    <3> QED
      BY <2>1, <2>2, <2>3, <3>1 DEF OneHolds, Exists, TemplatesTyped
  <2>8. RowsAreOwned'
    <3>1. \A d \in Creators : creating[d].id # id
      BY <1>0, <2>2 DEF UnusedIds, Request
    <3> QED
      BY <1>0, <2>1, <2>2, <2>3, <2>4, <2>5, <3>1 DEF RowsAreOwned, Exists, TemplatesTyped
  <2>9. FirstContent' /\ HeldInMemory'
    BY <2>1, <2>2, <2>5 DEF FirstContent, HeldInMemory, Exists, Connected, TemplatesTyped
  <2>10. CreatedStays'
    BY <2>1, <2>2, <2>5 DEF CreatedStays, Exists, TemplatesTyped
  <2>11. EditsSurvive'
    <3>1. \A x \in edits : x[1] \in Ids /\ x[1] # id
      BY <2>2 DEF UnusedIds, TemplatesTyped, Ids
    <3> QED
      BY <2>1, <2>2, <3>1 DEF EditsSurvive, Exists, TemplatesTyped
  <2> QED
    BY <2>6, <2>7, <2>8, <2>9, <2>10, <2>11
<1>7. CASE Holder(c)
  <2>1. creating' = [creating EXCEPT ![c] = Resting]
        /\ UNCHANGED << rows, docs, seeding, view, made, edits, abandoned, created >>
    BY <1>7 DEF Holder
  <2> QED
    BY <1>r, <1>1, <2>1
<1>8. CASE SeedAnswered(c)
  <2> DEFINE id == creating[c].id
  <2>1. creating[c].pc = "seeding" /\ id \in Ids /\ Exists(id)
    BY <1>8 DEF SeedAnswered, RowsAreOwned
  <2>2. CASE seeding[id] = "refused"
    <3>1. creating' = [creating EXCEPT ![c].pc = "cleanup"]
          /\ UNCHANGED << rows, docs, seeding, view, made, edits, abandoned, created >>
      BY <1>8, <2>2 DEF SeedAnswered
    <3>2. UnusedIds' /\ RowsAreOwned'
      BY <1>0, <2>1, <3>1 DEF UnusedIds, RowsAreOwned, Request, Exists
    <3> QED
      BY <3>1, <3>2, FrameStep DEF FirstContent, CreatedStays, EditsSurvive, Exists
  <2>3. CASE seeding[id] = "stored"
    <3>1. creating' = [creating EXCEPT ![c] = Resting] /\ created' = created \cup {id}
          /\ UNCHANGED << rows, docs, seeding, view, made, edits, abandoned >>
      BY <1>8, <2>3 DEF SeedAnswered
    <3>2. UnusedIds'
      BY <1>0, <2>1, <3>1 DEF UnusedIds, Exists
    <3>3. RowsAreOwned'
      BY <1>0, <2>1, <3>1 DEF RowsAreOwned, Exists
    <3>4. FirstContent' /\ OneHolds' /\ HeldInMemory'
      BY <3>1, FrameStep DEF FirstContent, Exists
    <3>5. CreatedStays'
      BY <2>1, <2>3, <3>1 DEF FirstContent, CreatedStays, Exists
    <3>6. EditsSurvive'
      BY <2>1, <3>1 DEF EditsSurvive, Exists
    <3> QED
      BY <3>2, <3>3, <3>4, <3>5, <3>6
  <2> QED
    BY <1>8, <2>2, <2>3 DEF SeedAnswered
<1>9. CASE Cleanup(c)
  <2> DEFINE id == creating[c].id
  <2>1. /\ creating[c].pc = "cleanup" /\ id \in Ids /\ id \notin created
        /\ creating' = [creating EXCEPT ![c] = Resting]
        /\ UNCHANGED << docs, seeding, view, made, edits, abandoned, created >>
    BY <1>9 DEF Cleanup, RowsAreOwned
  <2>2. CASE UNCHANGED rows
    BY <1>r, <1>1, <2>1, <2>2
  <2>3. CASE rows' = [rows EXCEPT ![id] = Unset]
    <3>1. UnusedIds' /\ OneHolds'
      BY <1>0, <2>1, <2>3 DEF UnusedIds, OneHolds, Exists, TemplatesTyped
    <3>2. RowsAreOwned'
      BY <1>0, <2>1, <2>3 DEF RowsAreOwned, Exists, TemplatesTyped
    <3>3. FirstContent' /\ HeldInMemory' /\ CreatedStays' /\ EditsSurvive'
      BY <2>1, <2>3
         DEF FirstContent, HeldInMemory, CreatedStays, EditsSurvive, Exists, Connected, TemplatesTyped
    <3> QED
      BY <3>1, <3>2, <3>3
  <2> QED
    BY <1>9, <2>2, <2>3 DEF Cleanup
<1>10. CASE SeedLost(c)
  <2> DEFINE id == creating[c].id
  <2>1. /\ creating[c].pc = "seeding" /\ id \in Ids
        /\ creating' = [creating EXCEPT ![c].pc = "cleanup"]
        /\ UNCHANGED seeding \/ seeding' = [seeding EXCEPT ![id] = "refused"]
        /\ UNCHANGED << rows, docs, view, made, edits, abandoned, created >>
    BY <1>10 DEF SeedLost, RowsAreOwned
  <2>2. UnusedIds' /\ RowsAreOwned'
    BY <1>0, <2>1 DEF UnusedIds, RowsAreOwned, Request, Exists, TemplatesTyped
  <2> QED
    BY <2>1, <2>2, FrameStep DEF FirstContent, CreatedStays, EditsSurvive, Exists, TemplatesTyped
<1>11. CASE CreatorGone(c)
  <2>1. /\ creating' = [creating EXCEPT ![c] = Resting]
        /\ \/ UNCHANGED seeding
           \/ creating[c].pc = "seeding" /\ seeding' = [seeding EXCEPT ![creating[c].id] = "refused"]
        /\ UNCHANGED << rows, docs, view, made, edits, abandoned, created >>
    BY <1>11 DEF CreatorGone
  <2>2. creating[c].pc = "seeding" => creating[c].id \in 1..made
    BY <1>0 DEF RowsAreOwned, UnusedIds, Ids
  <2> QED
    BY <1>r, <1>1, <2>1, <2>2
<1> QED
  BY <1>2, <1>3, <1>4, <1>5, <1>6, <1>7, <1>8, <1>9, <1>10, <1>11 DEF CreatorStep

-----------------------------------------------------------------------------
(* The rest of the invariant, over the other steps. *)

(* Storing the document in memory adds to what is stored.                   *)
LEMMA StoringKeeps ==
  ASSUME TemplatesInv, NEW id \in Ids, docs[id] # Unset, Exists(id),
         rows' = [rows EXCEPT ![id].state = docs[id]],
         \A i \in Ids : seeding'[i] # seeding[i] =>
           i = id /\ seeding[i] = "applied" /\ seeding'[i] = "stored",
         UNCHANGED << docs, creating, view, made, edits, abandoned, created >>
  PROVE  /\ UnusedIds' /\ OneHolds' /\ RowsAreOwned' /\ FirstContent' /\ HeldInMemory'
         /\ CreatedStays' /\ EditsSurvive'
<1> USE DEF TemplatesInv, TemplatesTyped
<1>1. /\ rows[id] \in Row /\ docs[id] \in Doc
      /\ rows[id].state.added \subseteq docs[id].added
  BY Looked DEF HeldInMemory
<1>2. /\ rows'[id] # Unset /\ rows'[id].state = docs[id] /\ rows'[id].proc = rows[id].proc
      /\ \A i \in Ids \ {id} : rows'[i] = rows[i]
  <2>1. [rows[id] EXCEPT !.state = docs[id]] \in Row
    BY <1>1 DEF Row
  <2> QED
    BY <1>1, <2>1, UnsetAssumption DEF Row
<1>3. \A i \in Ids : Exists(i)' <=> Exists(i)
  BY <1>2 DEF Exists
<1>4. \A i \in Ids : Exists(i) => rows[i].state.added \subseteq rows'[i].state.added
  BY <1>1, <1>2
<1>5. UnusedIds' /\ OneHolds' /\ RowsAreOwned'
  BY <1>2, <1>3 DEF UnusedIds, OneHolds, RowsAreOwned, Exists
<1>6. FirstContent'
  <2> SUFFICES ASSUME NEW i \in Ids, Exists(i)'
               PROVE  /\ seeding'[i] = "applied" =>
                           docs'[i] # Unset /\ << "seed", i >> \in docs'[i].added
                      /\ seeding'[i] = "stored"  => << "seed", i >> \in rows'[i].state.added
    BY DEF FirstContent
  <2>1. CASE seeding'[i] = seeding[i]
    BY <1>3, <1>4, <2>1 DEF FirstContent
  <2>2. CASE seeding'[i] # seeding[i]
    BY <1>2, <1>3, <2>2 DEF FirstContent
  <2> QED
    BY <2>1, <2>2
<1>7. HeldInMemory'
  BY <1>1, <1>2, <1>3 DEF HeldInMemory, Connected
<1>8. CreatedStays'
  BY <1>3, <1>4 DEF CreatedStays
<1>9. EditsSurvive'
  <2>1. \A x \in edits : x[1] \in Ids
    OBVIOUS
  <2> QED
    BY <1>3, <1>4, <2>1 DEF EditsSurvive
<1> QED
  BY <1>5, <1>6, <1>7, <1>8, <1>9

(* A document in memory only grows, and is loaded as it was stored.         *)
LEMMA GrowingKeeps ==
  ASSUME TemplatesInv, NEW id \in Ids, NEW d \in Doc,
         docs' = [docs EXCEPT ![id] = d],
         Exists(id) \/ docs[id] # Unset,
         Exists(id) => rows[id].state.added \subseteq d.added,
         docs[id] # Unset => docs[id].added \subseteq d.added,
         \A i \in Ids : seeding'[i] # seeding[i] =>
           /\ i = id /\ seeding[i] = "sent"
           /\ \/ seeding'[i] = "refused"
              \/ seeding'[i] = "applied" /\ << "seed", i >> \in d.added,
         UNCHANGED << rows, creating, view, made, edits, abandoned, created >>
  PROVE  /\ UnusedIds' /\ OneHolds' /\ RowsAreOwned' /\ FirstContent' /\ HeldInMemory'
         /\ CreatedStays' /\ EditsSurvive'
<1> USE DEF TemplatesInv, TemplatesTyped
<1>1. docs'[id] = d /\ d # Unset /\ \A i \in Ids \ {id} : docs'[i] = docs[i]
  BY UnsetAssumption
<1>2. UnusedIds'
  BY <1>1 DEF UnusedIds, Exists
<1>3. OneHolds' /\ RowsAreOwned' /\ CreatedStays' /\ EditsSurvive'
  BY DEF OneHolds, RowsAreOwned, CreatedStays, EditsSurvive, Exists
<1>4. FirstContent'
  <2> SUFFICES ASSUME NEW i \in Ids, Exists(i)
               PROVE  /\ seeding'[i] = "applied" =>
                           docs'[i] # Unset /\ << "seed", i >> \in docs'[i].added
                      /\ seeding'[i] = "stored"  => << "seed", i >> \in rows[i].state.added
    BY DEF FirstContent, Exists
  <2>1. CASE seeding'[i] = seeding[i]
    BY <1>1, <2>1 DEF FirstContent
  <2>2. CASE seeding'[i] # seeding[i]
    BY <1>1, <2>2
  <2> QED
    BY <2>1, <2>2
<1>5. HeldInMemory'
  BY <1>1 DEF HeldInMemory, Exists, Connected
<1> QED
  BY <1>2, <1>3, <1>4, <1>5

(* So does a step of the collaboration server with one template.            *)
LEMMA TemplateOthersStep ==
  ASSUME TemplatesInv, NEW id \in Ids, TemplateStep(id)
  PROVE  /\ UnusedIds' /\ OneHolds' /\ RowsAreOwned' /\ FirstContent' /\ HeldInMemory'
         /\ CreatedStays' /\ EditsSurvive'
<1> USE DEF TemplatesInv, bounds
<1>t. /\ rows \in [Ids -> Row \cup {Unset}] /\ docs \in [Ids -> Doc \cup {Unset}]
      /\ seeding \in [Ids -> {"none", "sent", "applied", "stored", "refused"}]
  BY DEF TemplatesTyped
<1>0. ASSUME UNCHANGED << rows, docs, creating, view, made, edits, abandoned, created >>,
             \/ UNCHANGED seeding
             \/ seeding[id] = "sent" /\ seeding' = [seeding EXCEPT ![id] = "refused"]
             \/ /\ seeding[id] = "applied" /\ ~ Exists(id)
                /\ seeding' = [seeding EXCEPT ![id] = "stored"]
      PROVE  /\ UnusedIds' /\ OneHolds' /\ RowsAreOwned' /\ FirstContent' /\ HeldInMemory'
             /\ CreatedStays' /\ EditsSurvive'
  <2>1. UnusedIds' /\ FirstContent'
    BY <1>0, <1>t DEF UnusedIds, FirstContent, Exists
  <2>2. OneHolds' /\ RowsAreOwned' /\ HeldInMemory' /\ CreatedStays' /\ EditsSurvive'
    BY <1>0 DEF OneHolds, RowsAreOwned, HeldInMemory, CreatedStays, EditsSurvive, Exists, Connected
  <2> QED
    BY <2>1, <2>2
<1>1. CASE Seed(id)
  <2>1. CASE ~ Exists(id)
    <3>1. /\ seeding[id] = "sent" /\ seeding' = [seeding EXCEPT ![id] = "refused"]
          /\ UNCHANGED << rows, docs, creating, view, made, edits, abandoned, created >>
      BY <1>1, <2>1 DEF Seed
    <3> QED
      BY <1>0, <3>1
  <2>2. CASE Exists(id) /\ InMemory(id).added = {}
    <3>1. LET d == Add(EmptyDoc, << "seed", id >>)
          IN  d \in Doc /\ << "seed", id >> \in d.added
      BY DocTypes, ChangeTypes
    <3>2. /\ rows[id].state.added = {}
          /\ docs[id] # Unset => docs[id].added = {}
      BY <2>2 DEF InMemory, HeldInMemory
    <3>3. /\ docs' = [docs EXCEPT ![id] = Add(EmptyDoc, << "seed", id >>)]
          /\ seeding[id] = "sent" /\ seeding' = [seeding EXCEPT ![id] = "applied"]
          /\ UNCHANGED << rows, creating, view, made, edits, abandoned, created >>
      BY <1>1, <2>2 DEF Seed
    <3>4. \A i \in Ids : seeding'[i] # seeding[i] =>
             i = id /\ seeding[i] = "sent" /\ seeding'[i] = "applied"
      BY <1>t, <3>3
    <3> HIDE DEF TemplatesInv
    <3> QED
      BY <2>2, <3>1, <3>2, <3>3, <3>4, GrowingKeeps
  <2>3. CASE Exists(id) /\ InMemory(id).added # {}
    <3>1. InMemory(id) \in Doc
      BY <2>3, Looked
    <3>2. /\ rows[id].state.added \subseteq InMemory(id).added
          /\ docs[id] # Unset => docs[id].added \subseteq InMemory(id).added
      BY <2>3 DEF InMemory, HeldInMemory
    <3>3. /\ docs' = [docs EXCEPT ![id] = InMemory(id)]
          /\ seeding[id] = "sent" /\ seeding' = [seeding EXCEPT ![id] = "refused"]
          /\ UNCHANGED << rows, creating, view, made, edits, abandoned, created >>
      BY <1>1, <2>3 DEF Seed
    <3>4. \A i \in Ids : seeding'[i] # seeding[i] =>
             i = id /\ seeding[i] = "sent" /\ seeding'[i] = "refused"
      BY <1>t, <3>3
    <3>5. \A i \in Ids : seeding'[i] # seeding[i] =>
             /\ i = id /\ seeding[i] = "sent"
             /\ \/ seeding'[i] = "refused"
                \/ seeding'[i] = "applied" /\ << "seed", i >> \in InMemory(id).added
      BY <3>4
    <3>6. TemplatesInv
      OBVIOUS
    <3> DEFINE d == InMemory(id)
    <3> HIDE DEF TemplatesInv, d
    <3>7. /\ d \in Doc /\ docs' = [docs EXCEPT ![id] = d]
          /\ rows[id].state.added \subseteq d.added
          /\ docs[id] # Unset => docs[id].added \subseteq d.added
          /\ \A i \in Ids : seeding'[i] # seeding[i] =>
               /\ i = id /\ seeding[i] = "sent"
               /\ \/ seeding'[i] = "refused"
                  \/ seeding'[i] = "applied" /\ << "seed", i >> \in d.added
      BY <3>1, <3>2, <3>3, <3>5 DEF d
    <3> QED
      BY <2>3, <3>3, <3>6, <3>7, GrowingKeeps
  <2> QED
    BY <2>1, <2>2, <2>3
<1>2. CASE SeedStored(id)
  <2>1. /\ seeding[id] = "applied" /\ seeding' = [seeding EXCEPT ![id] = "stored"]
        /\ UNCHANGED << docs, creating, view, made, edits, abandoned, created >>
        /\ rows' = IF Exists(id) THEN [rows EXCEPT ![id].state = docs[id]] ELSE rows
    BY <1>2 DEF SeedStored, Stored
  <2>2. CASE ~ Exists(id)
    BY <1>0, <2>1, <2>2
  <2>3. CASE Exists(id)
    <3>1. docs[id] # Unset
      BY <2>1, <2>3 DEF FirstContent
    <3>2. \A i \in Ids : seeding'[i] # seeding[i] =>
             i = id /\ seeding[i] = "applied" /\ seeding'[i] = "stored"
      BY <1>t, <2>1
    <3> HIDE DEF TemplatesInv
    <3> QED
      BY <2>1, <2>3, <3>1, <3>2, StoringKeeps
  <2> QED
    BY <2>2, <2>3
<1>3. CASE Archive(id)
  <2>1. rows[id] \in Row /\ Exists(id)
    BY <1>3, Looked DEF Archive, Active
  <2>2. /\ rows'[id] # Unset /\ rows'[id].proc = rows[id].proc
        /\ rows'[id].state = rows[id].state
        /\ \A i \in Ids \ {id} : rows'[i] = rows[i]
        /\ UNCHANGED << docs, seeding, creating, view, made, edits, abandoned, created >>
    <3>1. [rows[id] EXCEPT !.archived = TRUE] \in Row
      BY <2>1 DEF Row
    <3> QED
      BY <1>3, <1>t, <2>1, <3>1, UnsetAssumption DEF Archive, Row
  <2>3. \A i \in Ids : /\ Exists(i)' <=> Exists(i)
                       /\ Exists(i) => rows'[i].state = rows[i].state
    BY <2>1, <2>2 DEF Exists
  <2>4. UnusedIds' /\ OneHolds' /\ RowsAreOwned' /\ FirstContent'
    BY <2>2, <2>3 DEF UnusedIds, OneHolds, RowsAreOwned, FirstContent, Exists
  <2>5. HeldInMemory'
    BY <2>2, <2>3 DEF HeldInMemory, Connected
  <2>6. CreatedStays'
    BY <2>2, <2>3 DEF CreatedStays, TemplatesTyped
  <2>7. EditsSurvive'
    <3>1. \A x \in edits : x[1] \in Ids
      BY DEF TemplatesTyped
    <3> QED
      BY <2>2, <2>3, <3>1 DEF EditsSurvive
  <2> QED
    BY <2>4, <2>5, <2>6, <2>7
<1>4. CASE Reset(id)
  <2>1. UNCHANGED << rows, docs, seeding, creating, view, made, edits, abandoned, created >>
    BY <1>4 DEF Reset
  <2> QED
    BY <1>0, <2>1
<1>5. CASE Replace(id)
  <2>1. CASE ~ Exists(id)
    <3>1. UNCHANGED << rows, docs, seeding, creating, view, made, edits, abandoned, created >>
      BY <1>5, <2>1 DEF Replace
    <3> QED
      BY <1>0, <3>1
  <2>2. CASE Exists(id)
    <3> DEFINE d == Replaced(InMemory(id), << "file", resets >>)
    <3>1. d \in Doc /\ InMemory(id).added \subseteq d.added
      <4>1. << "file", resets >> \in Change
        BY ChangeTypes DEF TemplatesTyped
      <4>2. InMemory(id) \in Doc
        BY <2>2, Looked
      <4> QED
        BY <4>1, <4>2, DocTypes
    <3>2. /\ rows[id].state.added \subseteq d.added
          /\ docs[id] # Unset => docs[id].added \subseteq d.added
      BY <2>2, <3>1 DEF InMemory, HeldInMemory
    <3>3. /\ docs' = [docs EXCEPT ![id] = d]
          /\ UNCHANGED << rows, seeding, creating, view, made, edits, abandoned, created >>
      BY <1>5, <2>2 DEF Replace
    <3> HIDE DEF TemplatesInv, d
    <3> QED
      BY <2>2, <3>1, <3>2, <3>3, GrowingKeeps
  <2> QED
    BY <2>1, <2>2
<1>6. CASE Store(id)
  <2>1. /\ docs[id] # Unset /\ Exists(id)
        /\ rows' = [rows EXCEPT ![id].state = docs[id]]
        /\ UNCHANGED << docs, seeding, creating, view, made, edits, abandoned, created >>
    BY <1>6 DEF Store, Stored
  <2> HIDE DEF TemplatesInv
  <2> QED
    BY <2>1, StoringKeeps
<1>7. CASE Unload(id)
  <2>1. /\ ~ InUse(id) /\ docs' = [docs EXCEPT ![id] = Unset]
        /\ UNCHANGED << rows, seeding, creating, view, made, edits, abandoned, created >>
    BY <1>7 DEF Unload
  <2>2. UnusedIds' /\ FirstContent'
    BY <1>t, <2>1 DEF UnusedIds, FirstContent, InUse, Exists
  <2>3. HeldInMemory'
    BY <1>t, <2>1, Looked DEF HeldInMemory, InUse, Exists, Connected
  <2>4. OneHolds' /\ RowsAreOwned' /\ CreatedStays' /\ EditsSurvive'
    BY <2>1 DEF OneHolds, RowsAreOwned, CreatedStays, EditsSurvive, Exists
  <2> QED
    BY <2>2, <2>3, <2>4
<1> QED
  BY <1>1, <1>2, <1>3, <1>4, <1>5, <1>6, <1>7 DEF TemplateStep

(* And a step of an editor.                                                 *)
LEMMA EditorOthersStep ==
  ASSUME TemplatesInv, NEW e \in Editors, EditorStep(e)
  PROVE  /\ UnusedIds' /\ OneHolds' /\ RowsAreOwned' /\ FirstContent' /\ HeldInMemory'
         /\ CreatedStays' /\ EditsSurvive'
<1> USE DEF TemplatesInv, bounds
<1>t. view \in [Editors -> View \cup {Unset}]
  BY DEF TemplatesTyped
<1>f. ASSUME UNCHANGED << rows, seeding, creating, made, created >>
      PROVE  OneHolds' /\ RowsAreOwned' /\ CreatedStays'
  BY <1>f DEF OneHolds, RowsAreOwned, CreatedStays, Exists
<1>0. ASSUME NEW v \in View, view' = [view EXCEPT ![e] = v],
             UNCHANGED << rows, docs, seeding, creating, made, edits, abandoned, created >>,
             \/ v.id \in Ids /\ Exists(v.id)
             \/ view[e] # Unset /\ v.id = view[e].id,
             view[e] # Unset => v.id = view[e].id /\ view[e].doc.added \subseteq v.doc.added,
             v.link = "on" => view[e] # Unset /\ view[e].link = "on"
      PROVE  /\ UnusedIds' /\ OneHolds' /\ RowsAreOwned' /\ FirstContent' /\ HeldInMemory'
             /\ CreatedStays' /\ EditsSurvive'
  <2>1. view'[e] = v /\ v # Unset /\ \A d \in Editors \ {e} : view'[d] = view[d]
    BY <1>0, <1>t, UnsetAssumption
  <2>2. v.id <= made
    BY <1>0 DEF UnusedIds, Exists, TemplatesTyped, Ids
  <2>3. UnusedIds'
    BY <1>0, <2>1, <2>2 DEF UnusedIds
  <2>4. FirstContent' /\ HeldInMemory'
    BY <1>0, <2>1 DEF FirstContent, HeldInMemory, Exists, Connected
  <2>5. EditsSurvive'
    BY <1>0, <2>1 DEF EditsSurvive, Exists
  <2> QED
    BY <1>0, <1>f, <2>3, <2>4, <2>5
<1>1. ASSUME NEW id \in Ids, Token(e, id)
      PROVE  /\ UnusedIds' /\ OneHolds' /\ RowsAreOwned' /\ FirstContent' /\ HeldInMemory'
             /\ CreatedStays' /\ EditsSurvive'
  <2>0. /\ Exists(id)
        /\ UNCHANGED << rows, docs, seeding, creating, made, edits, abandoned, created >>
    BY <1>1 DEF Token, Active
  <2>1. CASE view[e] = Unset
    <3> DEFINE v == [id |-> id, doc |-> EmptyDoc, link |-> "token"]
    <3>1. v \in View /\ v.id = id /\ v.link = "token"
      BY DocTypes DEF View
    <3>2. view' = [view EXCEPT ![e] = v]
      BY <1>1, <2>1 DEF Token
    <3> HIDE DEF v
    <3> QED
      BY <1>0, <2>0, <2>1, <3>1, <3>2
  <2>2. CASE view[e] # Unset
    <3> DEFINE v == [view[e] EXCEPT !.link = "token"]
    <3>1. v \in View /\ v.id = view[e].id /\ v.doc = view[e].doc /\ v.link = "token"
      BY <2>2, Looked DEF View
    <3>2. view' = [view EXCEPT ![e] = v] /\ view[e].id = id
      BY <1>1, <2>2 DEF Token
    <3> HIDE DEF v
    <3> QED
      BY <1>0, <2>0, <2>2, <3>1, <3>2
  <2> QED
    BY <2>1, <2>2
<1>2. ASSUME view[e] # Unset, NEW mode \in {"token", "off"},
             view' = [view EXCEPT ![e] = [view[e] EXCEPT !.link = mode]],
             UNCHANGED << rows, docs, seeding, creating, made, edits, abandoned, created >>
      PROVE  /\ UnusedIds' /\ OneHolds' /\ RowsAreOwned' /\ FirstContent' /\ HeldInMemory'
             /\ CreatedStays' /\ EditsSurvive'
  <2> DEFINE v == [view[e] EXCEPT !.link = mode]
  <2>1. v \in View /\ v.id = view[e].id /\ v.doc = view[e].doc /\ v.link # "on"
    BY <1>2, Looked DEF View
  <2>2. view[e].id \in Ids /\ view' = [view EXCEPT ![e] = v]
    BY <1>2, Looked
  <2> HIDE DEF v
  <2> QED
    BY <1>0, <1>2, <2>1, <2>2
<1>3. CASE Connect(e)
  <2> DEFINE id == view[e].id
  <2>1. view[e] # Unset /\ id \in Ids
    BY <1>3, Looked DEF Connect
  <2>2. CASE ~ Exists(id)
    <3>1. /\ view' = [view EXCEPT ![e] = [view[e] EXCEPT !.link = "off"]]
          /\ UNCHANGED << rows, docs, seeding, creating, made, edits, abandoned, created >>
      BY <1>3, <2>2 DEF Connect
    <3> QED
      BY <1>2, <2>1, <3>1
  <2>3. CASE Exists(id)
    <3> DEFINE v == [view[e] EXCEPT !.link = "on"]
    <3>1. /\ docs' = [docs EXCEPT ![id] = InMemory(id)]
          /\ view' = [view EXCEPT ![e] = v]
          /\ UNCHANGED << rows, seeding, creating, made, edits, abandoned, created >>
      BY <1>3, <2>3 DEF Connect
    <3>2. v \in View /\ v.id = id /\ v.doc = view[e].doc
      BY <2>1, Looked DEF View
    <3>3. InMemory(id) \in Doc /\ docs \in [Ids -> Doc \cup {Unset}]
      BY <2>1, <2>3, Looked DEF TemplatesTyped
    <3>4. /\ docs'[id] = InMemory(id) /\ docs'[id] # Unset
          /\ \A i \in Ids : i # id => docs'[i] = docs[i]
          /\ \A i \in Ids : docs[i] # Unset => docs'[i] = docs[i]
          /\ docs[id] = Unset => docs'[id] = rows[id].state
      BY <2>1, <3>1, <3>3, UnsetAssumption DEF InMemory
    <3>5. view'[e] = v /\ v # Unset /\ \A d \in Editors \ {e} : view'[d] = view[d]
      BY <1>t, <3>1, <3>2, UnsetAssumption
    <3> HIDE DEF v
    <3>6. UnusedIds'
      BY <2>1, <2>3, <3>1, <3>2, <3>4, <3>5 DEF UnusedIds, Exists
    <3>7. FirstContent'
      BY <3>1, <3>4 DEF FirstContent, Exists
    <3>8. HeldInMemory'
      <4>1. \A d \in Editors : Connected(d) \/ d = e => docs'[view[d].id] # Unset
        BY <3>4, Looked DEF HeldInMemory, Connected
      <4>2. \A d \in Editors : Connected(d)' => Connected(d) \/ d = e
        BY <3>5 DEF Connected
      <4>3. \A d \in Editors : Connected(d)' => view'[d].id = view[d].id
        BY <3>2, <3>5
      <4>4. \A i \in Ids : Exists(i)' /\ docs'[i] # Unset => rows'[i].state.added \subseteq docs'[i].added
        BY <3>1, <3>4 DEF HeldInMemory, Exists
      <4> QED
        BY <4>1, <4>2, <4>3, <4>4 DEF HeldInMemory
    <3>9. EditsSurvive'
      BY <3>1, <3>2, <3>5 DEF EditsSurvive, Exists
    <3> QED
      BY <1>f, <3>1, <3>6, <3>7, <3>8, <3>9
  <2> QED
    BY <2>2, <2>3
<1>4. CASE Edit(e)
  <2> DEFINE change == << "edit", Cardinality(edits) + 1 >>
             v == [view[e] EXCEPT !.doc = Add(@, change)]
  <2>1. /\ view[e] # Unset /\ view' = [view EXCEPT ![e] = v]
        /\ edits' = edits \cup {<< view[e].id, change >>}
        /\ UNCHANGED << rows, docs, seeding, creating, made, abandoned, created >>
    BY <1>4 DEF Edit
  <2>2. /\ v \in View /\ v.id = view[e].id /\ v.link = view[e].link
        /\ v.doc.added = view[e].doc.added \cup {change}
    <3>1. change \in Change
      <4>1. Cardinality(edits) + 1 \in Nat
        BY FS_CardinalityType DEF TemplatesTyped
      <4> QED
        BY <4>1, ChangeTypes
    <3>2. view[e] \in View /\ view[e].doc \in Doc
      BY <2>1, Looked
    <3>3. /\ Add(view[e].doc, change) \in Doc
          /\ Add(view[e].doc, change).added = view[e].doc.added \cup {change}
      BY <3>1, <3>2, DocTypes
    <3> HIDE DEF change
    <3> QED
      BY <3>2, <3>3 DEF View
  <2>3. view[e].id \in Ids /\ view[e].id <= made
    BY <2>1, Looked DEF UnusedIds
  <2> HIDE DEF change, v
  <2>4. view'[e] = v /\ v # Unset /\ \A d \in Editors \ {e} : view'[d] = view[d]
    BY <1>t, <2>1, <2>2, UnsetAssumption
  <2>5. UnusedIds'
    BY <2>1, <2>2, <2>3, <2>4 DEF UnusedIds
  <2>6. FirstContent' /\ HeldInMemory'
    BY <2>1, <2>2, <2>4 DEF FirstContent, HeldInMemory, Exists, Connected
  <2>7. EditsSurvive'
    <3> DEFINE x == << view[e].id, change >>
    <3>1. x[1] = view[e].id /\ x[2] = change
      OBVIOUS
    <3>2. ASSUME NEW y \in edits
          PROVE  \/ ~ Exists(y[1])' /\ y[1] \notin created'
                 \/ Exists(y[1])' /\ y[2] \in rows'[y[1]].state.added
                 \/ \E d \in Editors :
                      view'[d] # Unset /\ view'[d].id = y[1] /\ y[2] \in view'[d].doc.added
                 \/ y[2] \in abandoned'
      BY <2>1, <2>2, <2>4, <3>2 DEF EditsSurvive, Exists
    <3>3. view'[e] # Unset /\ view'[e].id = x[1] /\ x[2] \in view'[e].doc.added
      BY <2>2, <2>4, <3>1
    <3> QED
      BY <2>1, <3>2, <3>3 DEF EditsSurvive
  <2> QED
    BY <1>f, <2>1, <2>5, <2>6, <2>7
<1>5. CASE Up(e)
  <2> DEFINE id == view[e].id
             d  == Merge(docs[id], view[e].doc)
  <2>1. /\ id \in Ids /\ docs[id] # Unset /\ docs[id] \in Doc /\ view[e].doc \in Doc
        /\ docs' = [docs EXCEPT ![id] = d]
        /\ UNCHANGED << rows, seeding, creating, view, made, edits, abandoned, created >>
    BY <1>5, Looked DEF Up, HeldInMemory, Connected
  <2>2. d \in Doc /\ docs[id].added \subseteq d.added
    BY <2>1, DocTypes
  <2>3. Exists(id) => rows[id].state.added \subseteq d.added
    BY <2>1, <2>2 DEF HeldInMemory
  <2>4. TemplatesInv
    OBVIOUS
  <2> HIDE DEF TemplatesInv, id, d
  <2> QED
    BY <2>1, <2>2, <2>3, <2>4, GrowingKeeps
<1>6. CASE Down(e)
  <2> DEFINE v == [view[e] EXCEPT !.doc = Merge(@, docs[view[e].id])]
  <2>1. /\ view[e] # Unset /\ view[e].id \in Ids /\ docs[view[e].id] \in Doc
        /\ view[e] \in View /\ view[e].doc \in Doc
        /\ view' = [view EXCEPT ![e] = v]
        /\ UNCHANGED << rows, docs, seeding, creating, made, edits, abandoned, created >>
    BY <1>6, Looked DEF Down, HeldInMemory, Connected
  <2>2. /\ v \in View /\ v.id = view[e].id /\ v.link = view[e].link
        /\ view[e].doc.added \subseteq v.doc.added
    <3>1. /\ Merge(view[e].doc, docs[view[e].id]) \in Doc
          /\ view[e].doc.added \subseteq Merge(view[e].doc, docs[view[e].id]).added
      BY <2>1, DocTypes
    <3> QED
      BY <2>1, <3>1 DEF View
  <2> HIDE DEF v
  <2> QED
    BY <1>0, <2>1, <2>2
<1>7. CASE Lose(e)
  <2>1. /\ view[e] # Unset
        /\ view' = [view EXCEPT ![e] = [view[e] EXCEPT !.link = "off"]]
        /\ UNCHANGED << rows, docs, seeding, creating, made, edits, abandoned, created >>
    BY <1>7 DEF Lose, Connected
  <2> QED
    BY <1>2, <2>1
<1>8. CASE Leave(e)
  <2> DEFINE id     == view[e].id
             stored == IF Exists(id) THEN rows[id].state.added ELSE {}
  <2>1. /\ view[e] # Unset /\ view' = [view EXCEPT ![e] = Unset]
        /\ abandoned' = abandoned \cup (view[e].doc.added \ stored)
        /\ UNCHANGED << rows, docs, seeding, creating, made, edits, created >>
    BY <1>8 DEF Leave
  <2>2. view'[e] = Unset /\ \A d \in Editors \ {e} : view'[d] = view[d]
    BY <1>t, <2>1
  <2>3. UnusedIds' /\ FirstContent' /\ HeldInMemory'
    BY <2>1, <2>2 DEF UnusedIds, FirstContent, HeldInMemory, Exists, Connected
  <2>4. EditsSurvive'
    BY <2>1, <2>2 DEF EditsSurvive, Exists
  <2> QED
    BY <1>f, <2>1, <2>3, <2>4
<1> QED
  BY <1>1, <1>3, <1>4, <1>5, <1>6, <1>7, <1>8 DEF EditorStep

(* And its crash: what is in memory goes, and the editors' connections.     *)
LEMMA CrashOthersStep ==
  ASSUME TemplatesInv, CollabCrash
  PROVE  /\ UnusedIds' /\ OneHolds' /\ RowsAreOwned' /\ FirstContent' /\ HeldInMemory'
         /\ CreatedStays' /\ EditsSurvive'
<1> USE DEF TemplatesInv, CollabCrash
<1>1. \A e \in Editors :
        /\ view'[e] # Unset <=> view[e] # Unset
        /\ view[e] # Unset =>
             view'[e].id = view[e].id /\ view'[e].doc = view[e].doc /\ view'[e].link = "off"
  <2>1. \A e \in Editors : view[e] # Unset => [view[e] EXCEPT !.link = "off"] \in View
    BY Looked DEF View
  <2> QED
    BY <2>1, Looked, UnsetAssumption DEF View
<1>2. /\ \A id \in Ids : docs'[id] = Unset
      /\ \A id \in Ids : seeding[id] = "none" => seeding'[id] = "none"
      /\ \A id \in Ids : seeding'[id] # "applied"
      /\ \A id \in Ids : seeding'[id] = "stored" => seeding[id] = "stored"
  BY DEF TemplatesTyped
<1>3. UnusedIds'
  BY <1>1, <1>2 DEF UnusedIds
<1>4. OneHolds' /\ RowsAreOwned' /\ CreatedStays'
  BY DEF OneHolds, RowsAreOwned, CreatedStays, Exists
<1>5. FirstContent' /\ HeldInMemory'
  BY <1>1, <1>2 DEF FirstContent, HeldInMemory, Exists, Connected
<1>6. EditsSurvive'
  BY <1>1 DEF EditsSurvive, Exists
<1> QED
  BY <1>3, <1>4, <1>5, <1>6

(* Every step keeps the invariant.                                          *)
LEMMA TemplatesInvStep == TemplatesInv /\ [TemplatesNext]_templateVars => TemplatesInv'
<1> SUFFICES ASSUME TemplatesInv, [TemplatesNext]_templateVars
             PROVE  TemplatesInv'
  OBVIOUS
<1>1. ASSUME NEW c \in Creators, CreatorStep(c)
      PROVE  TemplatesInv'
  BY <1>1, CreatorTypeStep, CreatorOthersStep DEF TemplatesInv
<1>2. ASSUME NEW id \in Ids, TemplateStep(id)
      PROVE  TemplatesInv'
  BY <1>2, TemplateTypeStep, TemplateOthersStep DEF TemplatesInv
<1>3. ASSUME NEW e \in Editors, EditorStep(e)
      PROVE  TemplatesInv'
  BY <1>3, EditorTypeStep, EditorOthersStep DEF TemplatesInv
<1>4. CASE CollabCrash
  BY <1>4, CrashTypeStep, CrashOthersStep DEF TemplatesInv
<1>5. CASE UNCHANGED templateVars
  BY <1>5 DEF templateVars, TemplatesInv, TemplatesTyped, UnusedIds, OneHolds, RowsAreOwned,
              FirstContent, HeldInMemory, CreatedStays, EditsSurvive, Exists, Connected
<1> QED
  BY <1>1, <1>2, <1>3, <1>4, <1>5 DEF TemplatesNext

-----------------------------------------------------------------------------
(* The templates, the documents and the requests about them stay as the     *)
(* invariant says.                                                          *)
THEOREM TemplatesStaySound == TemplatesSpec => []TemplatesInv
BY TemplatesInvInit, TemplatesInvStep, PTL DEF TemplatesSpec

(* The invariant bounds the rows that hold one procedure ID.                *)
LEMMA TemplatesInvTypes == TemplatesInv => TemplatesTypeOK
<1> SUFFICES ASSUME TemplatesInv, NEW p \in Procedures
             PROVE  Cardinality(TemplateHolding(p)) <= 1
  BY DEF TemplatesInv, TemplatesTyped, TemplatesTypeOK
<1>1. \A i, j \in TemplateHolding(p) : i = j
  BY DEF TemplatesInv, OneHolds, TemplateHolding
<1>2. CASE TemplateHolding(p) = {}
  BY <1>2, FS_EmptySet
<1>3. CASE TemplateHolding(p) # {}
  <2>1. PICK i : TemplateHolding(p) = {i}
    BY <1>1, <1>3
  <2> QED
    BY <2>1, FS_Singleton
<1> QED
  BY <1>2, <1>3

(* No two rows hold the same procedure ID, whichever requests insert and    *)
(* delete them at the same time, and everything has its type.               *)
THEOREM TemplatesTypeCorrect == TemplatesSpec => []TemplatesTypeOK
BY TemplatesInvTypes, TemplatesStaySound, PTL

(* A template whose creation was reported keeps its row and its content.    *)
THEOREM CreatedAlwaysStays == TemplatesSpec => []CreatedStays
BY TemplatesStaySound, PTL DEF TemplatesInv

(* A change is stored or with somebody, or its editors left, or its         *)
(* template could not be created.                                           *)
THEOREM EditsAlwaysSurvive == TemplatesSpec => []EditsSurvive
BY TemplatesStaySound, PTL DEF TemplatesInv
=============================================================================
