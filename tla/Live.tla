-------------------------------- MODULE Live --------------------------------
(***************************************************************************)
(* Following an execution: a page shows what others record while it is      *)
(* open.  Handlers of procnote-server write and announce how long the log   *)
(* is (live.rs, lib.rs), a WebSocket session passes that on, the browser    *)
(* reconnects (commands.ts) and syncs its copy, and the page's store shows  *)
(* it (localExecutions.ts, execution.ts).                                   *)
(*                                                                          *)
(* One execution and one page.  The log is its length, the copy the length  *)
(* it had when it was pulled; what the page itself records is in Browser.   *)
(***************************************************************************)
EXTENDS Naturals, Sequences

CONSTANTS
  Writers,         \* handlers that write to the execution
  ChannelCapacity, \* announcements kept for a session that is behind (64)
  MaxLogged,       \* bound: events of the log
  MaxFailures,     \* bound: connections, requests and answers lost
  NotHeld          \* no copy, or nothing shown

ASSUME ChannelCapacityAssumption == ChannelCapacity \in Nat \ {0}
ASSUME LiveBoundsAssumption      == MaxLogged \in Nat /\ MaxFailures \in Nat
ASSUME NotHeldAssumption         == NotHeld \notin Nat

VARIABLES
  logged,    \* events of the server's log
  writer,    \* per handler: [pc, seq]
  announced, \* history: the largest seq announced
  session,   \* the server's side of the socket: [pc, seq]
  receiver,  \* what it has not received yet: [queue, lagged]
  wire,      \* messages on the socket
  socket,    \* the browser's side: "closed", "open", or "stopped"
  syncing,   \* the call holding the execution: [op, pc, count], and
  waitingOps,\* those waiting for it
  held,      \* the copy on the device, or NotHeld
  page,      \* "closed", "loading", "open" or "error"
  shown,     \* what the page shows, or NotHeld
  missed,    \* history: the last sync failed, nothing has come since
  failures

liveVars == << logged, writer, announced, session, receiver, wire, socket, syncing,
               waitingOps, held, page, shown, missed, failures >>

serverSide == << logged, writer, announced >>
sessionSide == << session, receiver >>
pageSide == << syncing, waitingOps, held, page, shown, missed >>

-----------------------------------------------------------------------------
Quiet       == [pc |-> "idle", seq |-> 0]
NoSession   == [pc |-> "none", seq |-> 0]
Nothing     == [queue |-> << >>, lagged |-> FALSE]
NoCall      == [op |-> "none", pc |-> "idle", count |-> 0]
Call(op)    == [op |-> op, pc |-> "asked", count |-> 0]

LiveInit ==
  /\ logged = 1
  /\ writer = [w \in Writers |-> Quiet]
  /\ announced = 0
  /\ session = NoSession
  /\ receiver = Nothing
  /\ wire = << >>
  /\ socket = "stopped"
  /\ held \in {NotHeld, 1}
  /\ syncing = NoCall
  /\ waitingOps = << >>
  /\ page = "closed"
  /\ shown = NotHeld
  /\ missed = FALSE
  /\ failures = 0

-----------------------------------------------------------------------------
(* Writing and announcing. *)

(* record_action and upload_to_link announce the length of their own        *)
(* result; push_events reads the state again.                               *)
Write(w, handler) ==
  /\ writer[w].pc = "idle"
  /\ logged < MaxLogged
  /\ logged' = logged + 1
  /\ writer' = [writer EXCEPT ![w] =
       [pc |-> IF handler = "push_events" THEN "reading" ELSE "publishing", seq |-> logged']]
  /\ UNCHANGED << announced, session, receiver, wire, socket, pageSide, failures >>

ReadAgain(w) ==
  /\ writer[w].pc = "reading"
  /\ writer' = [writer EXCEPT ![w] = [pc |-> "publishing", seq |-> logged]]
  /\ UNCHANGED << logged, announced, session, receiver, wire, socket, pageSide, failures >>

(* live_session subscribes before it reads the current length.              *)
Subscribed == session.pc # "none"

(* broadcast::channel: a receiver that is behind loses the oldest.          *)
Deliver(seq) ==
  IF Len(receiver.queue) = ChannelCapacity
    THEN [queue |-> Append(Tail(receiver.queue), seq), lagged |-> TRUE]
    ELSE [receiver EXCEPT !.queue = Append(@, seq)]

Publish(w) ==
  LET seq == writer[w].seq IN
  /\ writer[w].pc = "publishing"
  /\ writer' = [writer EXCEPT ![w] = Quiet]
  /\ receiver' = IF Subscribed THEN Deliver(seq) ELSE receiver
  /\ announced' = IF seq > announced THEN seq ELSE announced
  /\ UNCHANGED << logged, session, wire, socket, pageSide, failures >>

(* The client that sent the request is gone: its handler is dropped, what   *)
(* it had written stays.                                                    *)
DropHandler(w) ==
  /\ writer[w].pc # "idle"
  /\ failures < MaxFailures
  /\ writer' = [writer EXCEPT ![w] = Quiet]
  /\ failures' = failures + 1
  /\ UNCHANGED << logged, announced, session, receiver, wire, socket, pageSide >>

-----------------------------------------------------------------------------
(* The socket. *)

(* live_session, current_seq.                                               *)
ReadCurrent ==
  /\ session.pc = "subscribed"
  /\ session' = [pc |-> "sending", seq |-> logged]
  /\ UNCHANGED << serverSide, receiver, wire, socket, pageSide, failures >>

(* WebSocket connect, upgrade and subscribe, after the retry delay.         *)
ConnectSocket ==
  /\ socket = "closed"
  /\ socket' = "open"
  /\ session' = [pc |-> "subscribed", seq |-> 0]
  /\ receiver' = Nothing
  /\ wire' = << >>
  /\ UNCHANGED << serverSide, pageSide, failures >>

SendSeq ==
  /\ session.pc = "sending"
  /\ wire' = Append(wire, session.seq)
  /\ session' = [pc |-> "listening", seq |-> 0]
  /\ UNCHANGED << serverSide, receiver, socket, pageSide, failures >>

(* updates.recv(): an announcement, or Lagged and the log is read.          *)
Receive ==
  /\ session.pc = "listening"
  /\ receiver.queue # << >>
  /\ IF receiver.lagged
       THEN /\ receiver' = [receiver EXCEPT !.lagged = FALSE]
            /\ session' = [pc |-> "subscribed", seq |-> 0]
       ELSE /\ receiver' = [receiver EXCEPT !.queue = Tail(@)]
            /\ session' = [pc |-> "sending", seq |-> Head(receiver.queue)]
  /\ UNCHANGED << serverSide, wire, socket, pageSide, failures >>

(* The connection breaks, or the log could not be read.                     *)
Disconnect ==
  /\ socket = "open"
  /\ failures < MaxFailures
  /\ socket' = "closed"
  /\ session' = NoSession
  /\ receiver' = Nothing
  /\ wire' = << >>
  /\ failures' = failures + 1
  /\ UNCHANGED << serverSide, pageSide >>

-----------------------------------------------------------------------------
(* The page. *)

(* The page loads the execution and watches it.                             *)
OpenPage ==
  /\ page = "closed"
  /\ page' = "loading"
  /\ syncing' = Call("load")
  /\ socket' = "closed"
  /\ UNCHANGED << serverSide, sessionSide, wire, waitingOps, held, shown, missed, failures >>

(* Faulty variant of Announced: a call under way is taken to be enough.     *)
AnnouncedUnlessSyncing ==
  /\ wire # << >>
  /\ wire' = Tail(wire)
  /\ syncing' = IF syncing = NoCall THEN Call("sync") ELSE syncing
  /\ missed' = FALSE
  /\ UNCHANGED << serverSide, sessionSide, socket, waitingOps, held, page, shown, failures >>

(* onSeq: every announcement queues a sync behind the calls of this         *)
(* execution (#exclusive).                                                  *)
Announced ==
  /\ wire # << >>
  /\ wire' = Tail(wire)
  /\ IF syncing = NoCall
       THEN syncing' = Call("sync") /\ UNCHANGED waitingOps
       ELSE waitingOps' = Append(waitingOps, "sync") /\ UNCHANGED syncing
  /\ missed' = FALSE
  /\ UNCHANGED << serverSide, sessionSide, socket, held, page, shown, failures >>

(* pull_events answers with the log as it is now.                           *)
PullAnswer ==
  /\ syncing.pc = "asked"
  /\ syncing' = [syncing EXCEPT !.pc = "answered", !.count = logged]
  /\ UNCHANGED << serverSide, sessionSide, wire, socket, waitingOps, held, page, shown,
                  missed, failures >>

NextCall ==
  IF waitingOps = << >>
    THEN syncing' = NoCall /\ UNCHANGED waitingOps
    ELSE syncing' = Call(Head(waitingOps)) /\ waitingOps' = Tail(waitingOps)

(* The copy is kept and shown: load sets the summary; a sync notifies the   *)
(* page, which takes it only when it has one already.                       *)
Shown ==
  /\ syncing.pc = "answered"
  /\ held' = syncing.count
  /\ page' = IF syncing.op = "load" THEN "open" ELSE page
  /\ shown' = IF page' = "open" THEN syncing.count ELSE shown
  /\ missed' = FALSE
  /\ NextCall
  /\ UNCHANGED << serverSide, sessionSide, wire, socket, failures >>

(* The server can't be reached: load shows what is kept, or the error; a    *)
(* sync's failure is dropped, and nothing asks for it again.                *)
SyncFails ==
  /\ syncing.pc # "idle"
  /\ failures < MaxFailures
  /\ page' = CASE syncing.op # "load"  -> page
               [] syncing.op = "load" /\ held # NotHeld -> "open"
               [] syncing.op = "load" /\ held = NotHeld -> "error"
  /\ shown' = IF syncing.op = "load" THEN held ELSE shown
  /\ missed' = (waitingOps = << >>)
  /\ failures' = failures + 1
  /\ NextCall
  /\ UNCHANGED << serverSide, sessionSide, wire, socket, held >>

(* The page is left: the watch is stopped.                                  *)
StopWatching ==
  /\ socket # "stopped"
  /\ socket' = "stopped"
  /\ session' = NoSession
  /\ receiver' = Nothing
  /\ wire' = << >>
  /\ UNCHANGED << serverSide, pageSide, failures >>

-----------------------------------------------------------------------------
SessionStep == ReadCurrent \/ SendSeq \/ Receive
PageStep    == Announced \/ PullAnswer \/ Shown

LiveNext ==
  \/ \E w \in Writers, handler \in {"record_action", "push_events"} : Write(w, handler)
  \/ \E w \in Writers : ReadAgain(w) \/ Publish(w) \/ DropHandler(w)
  \/ OpenPage \/ SessionStep \/ PageStep
  \/ ConnectSocket \/ Disconnect \/ SyncFails \/ StopWatching

LiveSpec == LiveInit /\ [][LiveNext]_liveVars

(* A handler that is not dropped finishes; the session, the retry timer and *)
(* the page's calls go on.                                                  *)
LiveFairness ==
  /\ \A w \in Writers : WF_liveVars(ReadAgain(w) \/ Publish(w))
  /\ WF_liveVars(SessionStep)
  /\ WF_liveVars(ConnectSocket)
  /\ WF_liveVars(Announced) /\ WF_liveVars(PullAnswer \/ Shown)

-----------------------------------------------------------------------------
(***************************************************************************)
(* Properties.                                                              *)
(***************************************************************************)

LiveTypeOK ==
  /\ logged \in Nat /\ announced \in 0..logged /\ failures \in 0..MaxFailures
  /\ writer \in [Writers -> [pc : {"idle", "reading", "publishing"}, seq : 0..logged]]
  /\ session \in [pc : {"none", "subscribed", "sending", "listening"}, seq : 0..logged]
  /\ receiver \in [queue : Seq(0..logged), lagged : BOOLEAN]
  /\ Len(receiver.queue) <= ChannelCapacity
  /\ wire \in Seq(0..logged)
  /\ socket \in {"closed", "open", "stopped"}
  /\ syncing \in [op : {"none", "load", "sync"}, pc : {"idle", "asked", "answered"},
                  count : 0..logged]
  /\ waitingOps \in Seq({"sync"})
  /\ held \in 0..logged \cup {NotHeld}
  /\ page \in {"closed", "loading", "open", "error"}
  /\ shown \in 0..logged \cup {NotHeld}
  /\ missed \in BOOLEAN

(* Once nothing more is written, an open page shows all the server          *)
(* announced: across lost announcements, reordered ones, a session that     *)
(* falls behind, and reconnecting.  The exception is a sync that fails      *)
(* while its socket stays up: nothing repeats it before the next            *)
(* announcement or connection.                                              *)
AnnouncedIsShown ==
  <>[](page = "open" /\ socket # "stopped" /\ ~ missed => shown >= announced)

(* Nothing of what was announced is on its way to the page.                 *)
NothingUnderWay ==
  /\ session.pc = "listening" /\ receiver.queue = << >> /\ wire = << >>
  /\ syncing = NoCall /\ waitingOps = << >>

(* The reason why AnnouncedIsShown holds: an announcement is never lost, it *)
(* is queued, on the wire, in a pull, or a later reading of the log covers  *)
(* it.  So an open page that waits for nothing shows all of them, while its *)
(* socket is up and the last sync did not fail.                             *)
QuietIsCurrent ==
  page = "open" /\ socket = "open" /\ ~ missed /\ NothingUnderWay =>
    shown # NotHeld /\ shown >= announced

(* What the page shows never gets shorter: a call that holds the execution  *)
(* ends before the next one pulls, so answers are not applied out of order  *)
(* (#exclusive).                                                            *)
ShownNeverShrinks ==
  [][shown # NotHeld => shown' # NotHeld /\ shown' >= shown]_liveVars
=============================================================================
