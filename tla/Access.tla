------------------------------- MODULE Access -------------------------------
(***************************************************************************)
(* Credentials between the desktop app, phones and procnote-server.         *)
(*                                                                          *)
(* The workspace's connection: the app waits on a loopback port for a token *)
(* issued on the server's connect page (connect.rs, commands/server.rs,     *)
(* device_tokens.rs), keeps it (link.rs), and syncs in the background with  *)
(* it (server_sync.rs), saying whether the server still takes it.           *)
(*                                                                          *)
(* An execution's upload link: a token a phone sends files with             *)
(* (upload_links.rs), created and revoked by requests of several clients.   *)
(*                                                                          *)
(* Random numbers never repeat; tokens are numbered as they are issued.     *)
(***************************************************************************)
EXTENDS Naturals, FiniteSets

CONSTANTS
  Attempts,     \* calls of connect_server
  LinkRequests, \* requests that create or revoke the upload link
  MaxTokens,    \* bound: device tokens, and upload links, ever issued
  MaxOutages,   \* bound: syncs that do not reach the server
  NotLinked     \* the workspace is not connected

ASSUME AccessBoundsAssumption == MaxTokens \in Nat /\ MaxOutages \in Nat
ASSUME NotLinkedAssumption    == NotLinked \notin Nat

DeviceTokens == 1..MaxTokens

VARIABLES
  issued,    \* number of device tokens issued
  live,      \* those the server takes
  attempt,   \* per call: [pc, token]
  connectPage,\* per call, the token its page in the browser was given, or 0
  link,      \* the workspace's token, or NotLinked
  sync,      \* the background sync: [pc, token, outcome]
  problem,   \* what the status says
  outages,
  links,     \* upload link files of the execution
  linksMade, \* number of them ever
  request,   \* per request: [pc, token]
  overlapped \* history: two requests were creating a link at once

connectVars == << issued, live, attempt, connectPage, link, sync, problem, outages >>
uploadVars  == << links, linksMade, request, overlapped >>
accessVars  == << issued, live, attempt, connectPage, link, sync, problem, outages,
                  links, linksMade, request, overlapped >>

-----------------------------------------------------------------------------
NotAsked == [pc |-> "none", token |-> 0]

(* DeviceTokens::resolve: by the file named after the token's hash.         *)
Resolves(token) == token \in live

(* Links::get.                                                              *)
Linked == link # NotLinked

NotSyncing == [pc |-> "idle", token |-> 0, outcome |-> "none"]

AccessInit ==
  /\ issued = 0
  /\ live = {}
  /\ attempt = [k \in Attempts |-> NotAsked]
  /\ connectPage = [k \in Attempts |-> 0]
  /\ link = NotLinked
  /\ sync = NotSyncing
  /\ problem = "none"
  /\ outages = 0
  /\ links = {}
  /\ linksMade = 0
  /\ request = [r \in LinkRequests |-> NotAsked]
  /\ overlapped = FALSE

-----------------------------------------------------------------------------
(* Connecting. *)

(* connect::begin: listen, and open the page in the browser.                *)
BeginConnect(k) ==
  /\ attempt[k].pc = "none"
  /\ attempt' = [attempt EXCEPT ![k].pc = "listening"]
  /\ UNCHANGED << issued, live, connectPage, link, sync, problem, outages, uploadVars >>

(* The page's person confirms, whether or not the app still waits:          *)
(* issue_device_token, then the page is redirected to its callback.         *)
IssueToken(k) ==
  /\ attempt[k].pc # "none"
  /\ connectPage[k] = 0
  /\ issued < MaxTokens
  /\ issued' = issued + 1
  /\ live' = live \cup {issued'}
  /\ connectPage' = [connectPage EXCEPT ![k] = issued']
  /\ UNCHANGED << attempt, link, sync, problem, outages, uploadVars >>

(* finish, parse_callback: the page comes back with the call's own state;   *)
(* one of an earlier call on the same port does not have it.                *)
Callback(k) ==
  /\ attempt[k].pc = "listening"
  /\ connectPage[k] # 0
  /\ attempt' = [attempt EXCEPT ![k] = [pc |-> "asking", token |-> connectPage[k]]]
  /\ UNCHANGED << issued, live, connectPage, link, sync, problem, outages, uploadVars >>

(* CONNECT_TIMEOUT.                                                         *)
TimeOut(k) ==
  /\ attempt[k].pc = "listening"
  /\ attempt' = [attempt EXCEPT ![k].pc = "ended"]
  /\ UNCHANGED << issued, live, connectPage, link, sync, problem, outages, uploadVars >>

(* me(): the server says whether it takes the token (or is not reached).    *)
AskMe(k) ==
  /\ attempt[k].pc = "asking"
  /\ \/ Resolves(attempt[k].token) /\ attempt' = [attempt EXCEPT ![k].pc = "linking"]
     \/ attempt' = [attempt EXCEPT ![k].pc = "ended"]
  /\ UNCHANGED << issued, live, connectPage, link, sync, problem, outages, uploadVars >>

(* set_link.                                                                *)
SetLink(k) ==
  /\ attempt[k].pc = "linking"
  /\ link' = attempt[k].token
  /\ attempt' = [attempt EXCEPT ![k].pc = "ended"]
  /\ UNCHANGED << issued, live, connectPage, sync, problem, outages, uploadVars >>

DisconnectServer ==
  /\ Linked
  /\ link' = NotLinked
  /\ UNCHANGED << issued, live, attempt, connectPage, sync, problem, outages, uploadVars >>

RevokeToken(t) ==
  /\ t \in live
  /\ live' = live \ {t}
  /\ UNCHANGED << issued, attempt, connectPage, link, sync, problem, outages, uploadVars >>

-----------------------------------------------------------------------------
(* The background sync of a workspace with a linked execution. *)

(* sync_now holds the lock and reads the link once; without one it leaves   *)
(* the status alone.                                                        *)
SyncStart ==
  /\ sync.pc = "idle"
  /\ Linked
  /\ sync' = [pc |-> "asked", token |-> link, outcome |-> "none"]
  /\ UNCHANGED << issued, live, attempt, connectPage, link, problem, outages, uploadVars >>

(* require_device: a request is refused once its token is revoked.          *)
SyncAnswered ==
  /\ sync.pc = "asked"
  /\ sync' = [sync EXCEPT !.pc = "answered",
                !.outcome = IF Resolves(sync.token) THEN "synced" ELSE "unauthorized"]
  /\ UNCHANGED << issued, live, attempt, connectPage, link, problem, outages, uploadVars >>

SyncUnreachable ==
  /\ sync.pc = "asked"
  /\ outages < MaxOutages
  /\ sync' = [sync EXCEPT !.pc = "answered", !.outcome = "unreachable"]
  /\ outages' = outages + 1
  /\ UNCHANGED << issued, live, attempt, connectPage, link, problem, uploadVars >>

(* Faulty variant of SyncRecord: a complete sync leaves the problem.        *)
SyncRecordProblems ==
  /\ sync.pc = "answered"
  /\ problem' = IF sync.outcome = "synced" THEN problem ELSE sync.outcome
  /\ sync' = NotSyncing
  /\ UNCHANGED << issued, live, attempt, connectPage, link, outages, uploadVars >>

(* record.                                                                  *)
SyncRecord ==
  /\ sync.pc = "answered"
  /\ problem' = IF sync.outcome = "synced" THEN "none" ELSE sync.outcome
  /\ sync' = NotSyncing
  /\ UNCHANGED << issued, live, attempt, connectPage, link, outages, uploadVars >>

-----------------------------------------------------------------------------
(* Upload links. *)

(* Faulty variant of FindLink: every request makes a link.                  *)
FindLinkNever(r) ==
  /\ request[r].pc = "none"
  /\ request' = [request EXCEPT ![r] = [pc |-> "creating", token |-> 0]]
  /\ overlapped' = (overlapped \/ \E q \in LinkRequests : request[q].pc = "creating")
  /\ UNCHANGED << links, linksMade, connectVars >>

(* create_upload_link, get_or_create: an existing link is answered.         *)
FindLink(r) ==
  /\ request[r].pc = "none"
  /\ request' = [request EXCEPT ![r] =
       IF links # {} THEN [pc |-> "done", token |-> CHOOSE t \in links : TRUE]
                     ELSE [pc |-> "creating", token |-> 0]]
  /\ overlapped' = (overlapped \/
                    (links = {} /\ \E q \in LinkRequests : request[q].pc = "creating"))
  /\ UNCHANGED << links, linksMade, connectVars >>

WriteLink(r) ==
  /\ request[r].pc = "creating"
  /\ linksMade < MaxTokens
  /\ linksMade' = linksMade + 1
  /\ links' = links \cup {linksMade'}
  /\ request' = [request EXCEPT ![r] = [pc |-> "done", token |-> linksMade']]
  /\ UNCHANGED << overlapped, connectVars >>

(* revoke: any one link of the execution is looked for, then removed.       *)
FindRevoked(r, t) ==
  /\ request[r].pc = "none"
  /\ t \in links
  /\ request' = [request EXCEPT ![r] = [pc |-> "removing", token |-> t]]
  /\ UNCHANGED << links, linksMade, overlapped, connectVars >>

RemoveLink(r) ==
  /\ request[r].pc = "removing"
  /\ links' = links \ {request[r].token}
  /\ request' = [request EXCEPT ![r].pc = "done"]
  /\ UNCHANGED << linksMade, overlapped, connectVars >>

-----------------------------------------------------------------------------
ConnectNext ==
  \/ \E k \in Attempts : \/ BeginConnect(k) \/ IssueToken(k) \/ Callback(k)
                         \/ TimeOut(k) \/ AskMe(k) \/ SetLink(k)
  \/ DisconnectServer
  \/ \E t \in DeviceTokens : RevokeToken(t)
  \/ SyncStart \/ SyncAnswered \/ SyncUnreachable \/ SyncRecord

UploadLinkNext ==
  \E r \in LinkRequests : \/ FindLink(r) \/ WriteLink(r) \/ RemoveLink(r)
                          \/ \E t \in links : FindRevoked(r, t)

AccessNext == ConnectNext \/ UploadLinkNext

AccessSpec == AccessInit /\ [][AccessNext]_accessVars

(* The loop syncs every half minute.                                        *)
AccessFairness == WF_accessVars(SyncStart \/ SyncAnswered \/ SyncRecord)

-----------------------------------------------------------------------------
(***************************************************************************)
(* Properties.                                                              *)
(***************************************************************************)

AccessTypeOK ==
  /\ issued \in 0..MaxTokens /\ live \subseteq 1..issued
  /\ attempt \in [Attempts -> [pc : {"none", "listening", "asking", "linking", "ended"},
                               token : 0..issued]]
  /\ connectPage \in [Attempts -> 0..issued]
  /\ link \in 1..issued \cup {NotLinked}
  /\ sync \in [pc : {"idle", "asked", "answered"}, token : 0..issued,
               outcome : {"none", "synced", "unauthorized", "unreachable"}]
  /\ problem \in {"none", "unauthorized", "unreachable"}
  /\ outages \in 0..MaxOutages
  /\ linksMade \in 0..MaxTokens /\ links \subseteq 1..linksMade
  /\ request \in [LinkRequests -> [pc : {"none", "creating", "removing", "done"},
                                   token : 0..linksMade]]
  /\ overlapped \in BOOLEAN

(* Once nothing changes any more, the status of a connected workspace says  *)
(* "unauthorized" exactly when its token was revoked: a sync that began     *)
(* with an earlier link, and ends after the workspace was connected again,  *)
(* does not leave its outcome behind.                                       *)
StatusFollowsToken ==
  <>[](Linked => (problem = "unauthorized") = (link \notin live))

(* An execution has one upload link, so revoking it leaves none, unless two *)
(* requests looked for it before either had written one.                    *)
OneUploadLink == overlapped \/ Cardinality(links) <= 1
=============================================================================
