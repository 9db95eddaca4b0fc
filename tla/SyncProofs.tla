------------------------------ MODULE SyncProofs ------------------------------
(***************************************************************************)
(* Theorems about Sync, for all events, devices and numbers of failures:    *)
(* nothing that was recorded is lost, the server keeps each device's order, *)
(* and Sync implements ReplicatedLog.                                       *)
(*                                                                          *)
(* Whether an event applies to a log does not matter to any of them: the    *)
(* proofs never look into the engine.                                       *)
(***************************************************************************)
EXTENDS Sync, SequenceTheorems, TLAPS

-----------------------------------------------------------------------------
(* The inductive invariant. *)

ServerType == [exists : BOOLEAN, log : Seq(EventIds), kept : SUBSET EventIds]

DevType ==
  [kind : {"none", "starting", "local", "linked"}, registered : BOOLEAN, log : Seq(EventIds),
   pending : Seq(EventIds), handled : Nat, rejected : SUBSET EventIds]

RunType ==
  [pc : {"idle", "register", "push", "pushing", "pull"} \cup Settling, after : Nat, from : Nat,
   upto : Nat, registered : BOOLEAN, refused : SUBSET EventIds, pulled : Seq(EventIds)]

PushType ==
  [from : Devices, todo : Seq(EventIds), at : {"check", "record", "keep"},
   refused : SUBSET EventIds, awaited : BOOLEAN]

Types ==
  /\ server \in ServerType
  /\ dev \in [Devices -> DevType]
  /\ run \in [Devices -> RunType]
  /\ pushes \subseteq PushType
  /\ author \in [EventIds -> Devices \cup {Web, None}]

(* The lines a sync deals with are those after the handled ones.            *)
Fits(v, r) ==
  /\ v.handled <= Len(v.pending)
  /\ r.from <= r.upto /\ r.upto <= Len(v.pending)
  /\ r.pc # "idle" => v.kind = "linked" /\ r.from = v.handled /\ r.after <= Len(v.log)

Positions == \A d \in Devices : Fits(dev[d], run[d])

(* A waiting line is its device's own and waits once.                       *)
Authors ==
  /\ \A d \in Devices : \A k \in DOMAIN dev[d].pending : author[dev[d].pending[k]] = d
  /\ \A d \in Devices : \A j, k \in DOMAIN dev[d].pending :
       dev[d].pending[j] = dev[d].pending[k] => j = k
  /\ \A k \in DOMAIN server.log : author[server.log[k]] # None

(* A log is a beginning of another.                                         *)
Begins(a, b) == Len(a) <= Len(b) /\ \A k \in 1..Len(a) : a[k] = b[k]

(* A linked copy's log is a beginning of the server's, and what was pulled  *)
(* is the server's from where the sync read on.                             *)
IsCopy(v, r, log) ==
  /\ v.kind \in {"none", "starting"} => v.log = << >>
  /\ v.kind = "linked" => Begins(v.log, log)
  /\ r.pc = "settle log" =>
       \A k \in 1..Len(r.pulled) : r.after + k <= Len(log) /\ r.pulled[k] = log[r.after + k]

(* Nothing is sent before the execution is registered.                      *)
Logs ==
  /\ ~ server.exists =>
       /\ server.log = << >> /\ pushes = {}
       /\ \A d \in Devices : ~ dev[d].registered /\ run[d].pc \in {"idle", "register"}
  /\ \A d \in Devices : IsCopy(dev[d], run[d], server.log)

(* What the server dealt with, or may have refused.                         *)
Answered(e) == Recorded(e) \/ e \in server.kept
Passed(e)   == Answered(e) \/ e \in WithFiles

Outbox(d) == {dev[d].pending[k] : k \in (run[d].from + 1)..run[d].upto}

(* Only events with files are refused.                                      *)
Refusals ==
  /\ \A d \in Devices : dev[d].rejected \cup run[d].refused \subseteq WithFiles
  /\ \A p \in pushes : p.refused \subseteq WithFiles

(* A device waits for the answer to one push at most, and all it sent has   *)
(* been dealt with or is still to do in that push.                          *)
Awaited(p) ==
  /\ run[p.from].pc = "pushing"
  /\ \A e \in Outbox(p.from) : In(e, p.todo) \/ Answered(e) \/ e \in p.refused

Awaiting ==
  /\ \A p, q \in pushes : p.awaited /\ q.awaited /\ p.from = q.from => p = q
  /\ \A p \in pushes : p.awaited => Awaited(p)

(* After the answer all of it has been dealt with or refused.               *)
Settled(d) ==
  /\ run[d].pc \in {"pull", "settle log", "settle rejected"} =>
       \A e \in Outbox(d) : Answered(e) \/ e \in run[d].refused
  /\ run[d].pc = "settle state" =>
       \A e \in Outbox(d) : Answered(e) \/ e \in dev[d].rejected

Settlement == \A d \in Devices : Settled(d)

(* What a push has to do are lines of its device in a row, and all lines    *)
(* before them were passed; so were all before a handled one.               *)
RowOf(p) ==
  \E a \in 0..Len(dev[p.from].pending) :
    /\ a + Len(p.todo) <= Len(dev[p.from].pending)
    /\ \A k \in 1..Len(p.todo) : p.todo[k] = dev[p.from].pending[a + k]
    /\ \A k \in 1..a : Passed(dev[p.from].pending[k])

Rows ==
  /\ \A d \in Devices : \A k \in 1..dev[d].handled : Passed(dev[d].pending[k])
  /\ \A p \in pushes : RowOf(p)

(* All lines before a recorded one were passed.                             *)
PassedBefore ==
  \A d \in Devices : \A j, k \in DOMAIN dev[d].pending :
    j < k /\ Recorded(dev[d].pending[k]) => Passed(dev[d].pending[j])

SyncInv ==
  /\ Types /\ Positions /\ Authors /\ Logs
  /\ Refusals /\ Awaiting /\ Settlement /\ Rows /\ PassedBefore
  /\ NothingLost /\ DeviceOrderKept

-----------------------------------------------------------------------------
(* Types and positions. *)

(* What a sync is at each step has the type of a sync.                      *)
LEMMA IdleType == Idle \in RunType
BY DEF Idle, RunType, Settling

(* Registering leaves a server behind.                                      *)
LEMMA CreateStartedType ==
  ASSUME Types, Positions, NEW d \in Devices, run[d].pc # "idle", CreateStarted(d)
  PROVE  server' \in ServerType
<1>1. dev[d].log \in Seq(EventIds) /\ run[d].after \in Nat
  BY DEF Types, DevType, RunType
<1>2. run[d].after <= Len(dev[d].log)
  BY DEF Positions, Fits
<1>3. SubSeq(dev[d].log, 1, run[d].after) \in Seq(EventIds)
  BY <1>1, <1>2
<1> QED BY <1>3 DEF Types, CreateStarted, ServerType

(* The actions keep the types.                                              *)
LEMMA TypesStep ==
  ASSUME Types, Positions, [Next]_vars
  PROVE  Types'
<1> USE DEF Types
<1>0. CASE UNCHANGED vars
  BY <1>0 DEF vars
<1>1. ASSUME NEW d \in Devices, Recording(d) PROVE Types'
  <2>1. CASE Start(d)
    BY <2>1, ZenonT(40) DEF Start, DevType
  <2>2. CASE Link(d)
    BY <2>2, ZenonT(40) DEF Link, DevType
  <2>3. CASE CrashBeforeLink(d)
    BY <2>3, ZenonT(40) DEF CrashBeforeLink, DevType
  <2>4. CASE OpenRemote(d)
    <3>1. PICK n \in 0..Len(server.log) :
            dev' = [dev EXCEPT ![d].kind = "linked", ![d].registered = TRUE,
                               ![d].log = SubSeq(server.log, 1, n)]
      BY <2>4 DEF OpenRemote
    <3>2. SubSeq(server.log, 1, n) \in Seq(EventIds)
      <4>1. server.log \in Seq(EventIds)
        BY DEF ServerType
      <4> QED BY <4>1
    <3>3. [dev[d] EXCEPT !.kind = "linked", !.registered = TRUE, !.log = SubSeq(server.log, 1, n)]
            \in DevType
      BY <3>2 DEF DevType
    <3>4. dev' \in [Devices -> DevType]
      BY <3>1, <3>3
    <3> QED BY <2>4, <3>4 DEF OpenRemote
  <2>5. ASSUME NEW e \in EventIds, Record(d, e) PROVE Types'
    <3>1. Append(dev[d].pending, e) \in Seq(EventIds) /\ Append(dev[d].log, e) \in Seq(EventIds)
      BY DEF DevType
    <3>2. /\ [dev[d] EXCEPT !.pending = Append(@, e)] \in DevType
          /\ [dev[d] EXCEPT !.log = Append(@, e)] \in DevType
      BY <3>1 DEF DevType
    <3>3. dev' \in [Devices -> DevType] /\ author' \in [EventIds -> Devices \cup {Web, None}]
      BY <2>5, <3>2 DEF Record
    <3> QED BY <2>5, <3>3 DEF Record
  <2> HIDE DEF Types
  <2> QED BY <1>1, <2>1, <2>2, <2>3, <2>4, <2>5 DEF Recording
<1>2. ASSUME NEW d \in Devices, Syncing(d) PROVE Types'
  <2>1. CASE Begin(d)
    <3> DEFINE r == [Idle EXCEPT !.after = Len(dev[d].log), !.from = OutboxFrom(d),
                                 !.upto = Len(dev[d].pending)]
    <3>1. Len(dev[d].log) \in Nat /\ OutboxFrom(d) \in Nat /\ Len(dev[d].pending) \in Nat
      BY DEF DevType, OutboxFrom
    <3>2. r \in RunType
      BY <3>1, IdleType DEF RunType
    <3>3. AfterRegister(r) \in {"push", "pull"}
      BY DEF AfterRegister
    <3>4. PICK pc \in {"push", "pull", "register"} : run' = [run EXCEPT ![d] = [r EXCEPT !.pc = pc]]
      <4>1. run' = [run EXCEPT ![d] =
                      [r EXCEPT !.pc = IF dev[d].registered THEN AfterRegister(r) ELSE "register"]]
        BY <2>1 DEF Begin
      <4> HIDE DEF r
      <4> QED BY <4>1, <3>3
    <3>5. run' \in [Devices -> RunType]
      <4> HIDE DEF r
      <4> QED BY <3>2, <3>4 DEF RunType
    <3> QED BY <2>1, <3>5 DEF Begin
  <2>3. CASE Register(d)
    <3>1. server' \in ServerType
      BY <2>3, CreateStartedType DEF Register
    <3>2. AfterRegister(run[d]) \in {"push", "pull"}
      BY DEF AfterRegister
    <3>3. [run[d] EXCEPT !.pc = AfterRegister(run[d]), !.registered = TRUE] \in RunType
      BY <3>2 DEF RunType
    <3>4. run' \in [Devices -> RunType]
      BY <2>3, <3>3 DEF Register
    <3> QED BY <2>3, <3>1, <3>4 DEF Register
  <2>4. CASE Push(d)
    <3>1. SubSeq(dev[d].pending, run[d].from + 1, run[d].upto) \in Seq(EventIds)
      <4>1. dev[d].pending \in Seq(EventIds)
        BY DEF DevType
      <4>2. run[d].from \in Nat /\ run[d].upto \in Nat /\ run[d].upto <= Len(dev[d].pending)
        BY DEF RunType, Positions, Fits
      <4> QED BY <4>1, <4>2
    <3>2. [from |-> d, todo |-> SubSeq(dev[d].pending, run[d].from + 1, run[d].upto),
           at |-> "check", refused |-> {}, awaited |-> TRUE] \in PushType
      BY <3>1 DEF PushType
    <3>3. [run[d] EXCEPT !.pc = "pushing"] \in RunType
      BY DEF RunType
    <3>4. run' \in [Devices -> RunType]
      BY <2>4, <3>3 DEF Push
    <3>5. pushes' \subseteq PushType
      BY <2>4, <3>2 DEF Push
    <3> QED BY <2>4, <3>4, <3>5 DEF Push
  <2>5. CASE Pull(d)
    <3>1. SubSeq(server.log, PulledFrom(d) + 1, Len(server.log)) \in Seq(EventIds)
      <4>1. server.log \in Seq(EventIds) /\ run[d].after \in Nat
        BY DEF ServerType, RunType
      <4> QED BY <4>1 DEF PulledFrom
    <3>2. [run[d] EXCEPT !.pc = "settle log",
                         !.pulled = SubSeq(server.log, PulledFrom(d) + 1, Len(server.log))] \in RunType
      BY <3>1 DEF RunType, Settling
    <3>3. run' \in [Devices -> RunType]
      BY <2>5, <3>2, IdleType DEF Pull
    <3> QED BY <2>5, <3>3 DEF Pull
  <2>6. CASE SettleLog(d)
    <3>1. dev[d].log \o run[d].pulled \in Seq(EventIds)
      BY DEF DevType, RunType
    <3>2. [run[d] EXCEPT !.pc = "settle rejected"] \in RunType
      BY DEF RunType, Settling
    <3>3. run' \in [Devices -> RunType]
      BY <2>6, <3>2, IdleType DEF SettleLog
    <3>4. [dev[d] EXCEPT !.log = dev[d].log \o run[d].pulled] \in DevType
      BY <3>1 DEF DevType
    <3>5. dev' = dev \/ dev' = [dev EXCEPT ![d] = [dev[d] EXCEPT !.log = dev[d].log \o run[d].pulled]]
      BY <2>6 DEF SettleLog
    <3>6. dev' \in [Devices -> DevType]
      BY <3>4, <3>5
    <3> QED BY <2>6, <3>3, <3>6 DEF SettleLog
  <2>7. CASE SettleRejected(d)
    <3>1. [run[d] EXCEPT !.pc = "settle state"] \in RunType
      BY DEF RunType, Settling
    <3>2. run[d].refused \in SUBSET EventIds /\ dev[d].rejected \in SUBSET EventIds
      BY DEF RunType, DevType
    <3>3. [dev[d] EXCEPT !.rejected = dev[d].rejected \cup run[d].refused] \in DevType
      BY <3>2 DEF DevType
    <3>4. run' \in [Devices -> RunType] /\ dev' \in [Devices -> DevType]
      BY <2>7, <3>1, <3>3 DEF SettleRejected
    <3> QED BY <2>7, <3>4 DEF SettleRejected
  <2>8. CASE SettleState(d)
    <3> DEFINE known == dev[d].registered \/ run[d].registered
    <3>1. SettledUpto(d) \in Nat
      BY DEF SettledUpto, RunType, DevType
    <3>2. dev' = [dev EXCEPT ![d] = [@ EXCEPT !.registered = known, !.handled = SettledUpto(d)]]
      BY <2>8 DEF SettleState, DevType
    <3>3. known \in BOOLEAN
      OBVIOUS
    <3>4. [dev[d] EXCEPT !.registered = known, !.handled = SettledUpto(d)] \in DevType
      <4> HIDE DEF known
      <4> QED BY <3>1, <3>3 DEF DevType
    <3>5. dev' \in [Devices -> DevType]
      <4> HIDE DEF known
      <4> QED BY <3>2, <3>4
    <3> QED BY <2>8, <3>5, IdleType DEF SettleState
  <2> QED BY <1>2, <2>1, <2>3, <2>4, <2>5, <2>6, <2>7, <2>8 DEF Syncing
<1>3. ASSUME NEW d \in Devices, Failing(d) PROVE Types'
  <2>1. CASE RegisterUnanswered(d)
    <3>1. server' \in ServerType
      BY <2>1, CreateStartedType DEF RegisterUnanswered
    <3> QED BY <2>1, <3>1, IdleType DEF RegisterUnanswered
  <2>2. CASE GiveUp(d)
    <3>1. pushes' \subseteq PushType
      BY <2>2, ZenonT(40) DEF GiveUp, PushType
    <3> QED BY <2>2, <3>1, IdleType DEF GiveUp
  <2>3. CASE CrashSettling(d)
    BY <2>3, IdleType DEF CrashSettling
  <2> QED BY <1>3, <2>1, <2>2, <2>3 DEF Failing
<1>4. ASSUME NEW e \in EventIds, RecordOnServer(e) PROVE Types'
  <2>1. [server EXCEPT !.log = Append(@, e)] \in ServerType
    <3>1. Append(server.log, e) \in Seq(EventIds)
      BY DEF ServerType
    <3> QED BY <3>1 DEF ServerType
  <2> QED BY <1>4, <2>1 DEF RecordOnServer
<1>5. ASSUME NEW p \in pushes, Handling(p) \/ LosePush(p) PROVE Types'
  <2>0. p \in PushType
    OBVIOUS
  <2>1. ASSUME p.todo # << >>
        PROVE  Head(p.todo) \in EventIds /\ NextEvent(p) \in PushType
    <3>1. p.todo \in Seq(EventIds)
      BY <2>0 DEF PushType
    <3>2. Head(p.todo) \in EventIds /\ Tail(p.todo) \in Seq(EventIds)
      BY <2>1, <3>1
    <3> QED BY <2>0, <3>2 DEF PushType, NextEvent
  <2>2. CASE CheckConflicts(p)
    <3>1. [p EXCEPT !.at = "record"] \in PushType
      BY <2>0 DEF PushType
    <3> QED BY <2>1, <2>2, <3>1 DEF CheckConflicts, Finish
  <2>3. CASE RecordPushed(p)
    <3>1. [p EXCEPT !.at = "keep"] \in PushType
      BY <2>0 DEF PushType
    <3>2. [server EXCEPT !.log = Append(@, Head(p.todo))] \in ServerType
      <4>1. Append(server.log, Head(p.todo)) \in Seq(EventIds)
        BY <2>1, <2>3 DEF RecordPushed, ServerType
      <4> QED BY <4>1 DEF ServerType
    <3> QED BY <2>1, <2>3, <3>1, <3>2 DEF RecordPushed, Finish
  <2>4. CASE RefusePushed(p)
    <3>1. [NextEvent(p) EXCEPT !.refused = @ \cup {Head(p.todo)}] \in PushType
      BY <2>1, <2>4 DEF RefusePushed, PushType
    <3> QED BY <2>4, <3>1 DEF RefusePushed, Finish
  <2>5. CASE KeepConflict(p)
    <3>1. [server EXCEPT !.kept = @ \cup {Head(p.todo)}] \in ServerType
      BY <2>1, <2>5 DEF KeepConflict, ServerType
    <3> QED BY <2>1, <2>5, <3>1 DEF KeepConflict, Finish
  <2>6. CASE Answer(p)
    <3>1. p.from \in Devices /\ p.refused \in SUBSET EventIds
      BY <2>0 DEF PushType
    <3>2. [run[p.from] EXCEPT !.pc = "pull", !.refused = p.refused] \in RunType
      BY <3>1, ZenonT(40) DEF RunType
    <3>3. run' \in [Devices -> RunType]
      BY <2>6, <3>1, <3>2 DEF Answer
    <3> QED BY <2>6, <3>3 DEF Answer
  <2>7. CASE LosePush(p)
    BY <2>0, <2>7, IdleType DEF LosePush, PushType
  <2> QED BY <1>5, <2>2, <2>3, <2>4, <2>5, <2>6, <2>7 DEF Handling
<1> QED BY <1>0, <1>1, <1>2, <1>3, <1>4, <1>5 DEF Next

-----------------------------------------------------------------------------
(* What each action that writes a device's files or moves its sync does,    *)
(* field by field.                                                          *)

OthersKept(d) == \A x \in Devices \ {d} : dev'[x] = dev[x] /\ run'[x] = run[x]

(* A sync goes on with the outbox it began with.                            *)
GoesOn(d, pc) ==
  /\ run'[d].pc = pc
  /\ run'[d].from = run[d].from /\ run'[d].upto = run[d].upto /\ run'[d].after = run[d].after

Stops(d) ==
  /\ run'[d].pc = "idle" /\ run'[d].from = 0 /\ run'[d].upto = 0
  /\ run'[d].refused = {} /\ run'[d].pulled = << >>

KeepsLines(d) ==
  /\ dev'[d].kind = dev[d].kind /\ dev'[d].pending = dev[d].pending

(* Only the kind of the copy changes.                                       *)
Becomes(d, kind) ==
  /\ OthersKept(d) /\ run' = run
  /\ dev'[d].kind = kind /\ dev'[d].log = dev[d].log /\ dev'[d].pending = dev[d].pending
  /\ dev'[d].handled = dev[d].handled /\ dev'[d].rejected = dev[d].rejected
  /\ dev'[d].registered = dev[d].registered

(* Starting an execution makes a copy that is not linked yet.               *)
LEMMA StartEffect ==
  ASSUME Types, NEW d \in Devices, Start(d)
  PROVE  Becomes(d, "starting")
BY DEF Types, DevType, Start, Becomes, OthersKept

(* Linking changes nothing but the kind of the copy.                        *)
LEMMA LinkEffect ==
  ASSUME Types, NEW d \in Devices, Link(d)
  PROVE  Becomes(d, "linked")
BY DEF Types, DevType, Link, Becomes, OthersKept

(* A crash before linking leaves a copy that stays local.                   *)
LEMMA CrashBeforeLinkEffect ==
  ASSUME Types, NEW d \in Devices, CrashBeforeLink(d)
  PROVE  Becomes(d, "local")
BY DEF Types, DevType, CrashBeforeLink, Becomes, OthersKept

(* A copy opened from the server holds a beginning of its log.              *)
LEMMA OpenRemoteEffect ==
  ASSUME Types, NEW d \in Devices, OpenRemote(d)
  PROVE  \E n \in 0..Len(server.log) :
           /\ OthersKept(d) /\ run' = run
           /\ dev'[d].kind = "linked" /\ dev'[d].pending = dev[d].pending
           /\ dev'[d].handled = dev[d].handled /\ dev'[d].rejected = dev[d].rejected
           /\ dev'[d].log = SubSeq(server.log, 1, n)
<1>1. PICK n \in 0..Len(server.log) :
        dev' = [dev EXCEPT ![d].kind = "linked", ![d].registered = TRUE,
                           ![d].log = SubSeq(server.log, 1, n)]
  BY DEF OpenRemote
<1> DEFINE log == SubSeq(server.log, 1, n)
<1>2. /\ OthersKept(d) /\ run' = run
      /\ dev'[d].kind = "linked" /\ dev'[d].pending = dev[d].pending
      /\ dev'[d].handled = dev[d].handled /\ dev'[d].rejected = dev[d].rejected
      /\ dev'[d].log = log
  <2>1. dev' = [dev EXCEPT ![d].kind = "linked", ![d].registered = TRUE, ![d].log = log] /\ run' = run
    BY <1>1 DEF OpenRemote
  <2> HIDE DEF log
  <2> QED BY <2>1 DEF Types, DevType, OthersKept
<1> QED BY <1>2

(* Recording adds a line: a waiting one, or one in the log of a local copy. *)
LEMMA RecordEffect ==
  ASSUME Types, NEW d \in Devices, NEW e \in EventIds, Record(d, e)
  PROVE  /\ OthersKept(d) /\ run' = run
         /\ dev'[d].kind = dev[d].kind /\ dev'[d].registered = dev[d].registered
         /\ dev'[d].handled = dev[d].handled /\ dev'[d].rejected = dev[d].rejected
         /\ \/ /\ Linked(d) /\ dev'[d].log = dev[d].log
               /\ dev'[d].pending = Append(dev[d].pending, e)
            \/ /\ dev[d].kind = "local" /\ dev'[d].pending = dev[d].pending
               /\ dev'[d].log = Append(dev[d].log, e)
<1>1. CASE Linked(d)
  <2>1. dev' = [dev EXCEPT ![d].pending = Append(@, e)] /\ run' = run
    BY <1>1 DEF Record
  <2> QED BY <1>1, <2>1 DEF Types, DevType, OthersKept, Linked
<1>2. CASE ~ Linked(d)
  <2>1. dev' = [dev EXCEPT ![d].log = Append(@, e)] /\ run' = run
    BY <1>2 DEF Record
  <2>2. dev[d].kind = "local"
    BY <1>2 DEF Record, Linked
  <2> QED BY <2>1, <2>2 DEF Types, DevType, OthersKept
<1> QED BY <1>1, <1>2

(* A sync begins with the lines waiting, after the handled ones.            *)
LEMMA BeginEffect ==
  ASSUME Types, NEW d \in Devices, Begin(d)
  PROVE  /\ OthersKept(d) /\ dev' = dev /\ Linked(d)
         /\ run'[d].after = Len(dev[d].log) /\ run'[d].from = dev[d].handled
         /\ run'[d].upto = Len(dev[d].pending) /\ run'[d].refused = {}
         /\ ~ dev[d].registered => run'[d].pc = "register"
         /\ \/ run'[d].pc \in {"push", "register"}
            \/ run'[d].pc = "pull" /\ ~ run'[d].upto > run'[d].from
<1> DEFINE r == [Idle EXCEPT !.after = Len(dev[d].log), !.from = OutboxFrom(d),
                             !.upto = Len(dev[d].pending)]
<1>1. /\ r.after = Len(dev[d].log) /\ r.from = dev[d].handled
      /\ r.upto = Len(dev[d].pending) /\ r.refused = {}
      /\ \A pc : \A f \in {"after", "from", "upto", "refused"} : [r EXCEPT !.pc = pc][f] = r[f]
      /\ \A pc : [r EXCEPT !.pc = pc].pc = pc
  BY DEF Idle, OutboxFrom
<1>2. run'[d] = [r EXCEPT !.pc = IF dev[d].registered THEN AfterRegister(r) ELSE "register"]
  BY DEF Begin, Types
<1>3. OthersKept(d) /\ dev' = dev /\ Linked(d)
  BY DEF Begin, OthersKept, Types
<1> HIDE DEF r
<1> QED BY <1>1, <1>2, <1>3 DEF AfterRegister

(* After registering a sync pushes, or pulls when nothing waits.            *)
LEMMA RegisterEffect ==
  ASSUME Types, NEW d \in Devices, Register(d)
  PROVE  /\ OthersKept(d) /\ dev' = dev
         /\ run[d].pc = "register" /\ run'[d].refused = run[d].refused
         /\ \/ GoesOn(d, "push")
            \/ GoesOn(d, "pull") /\ ~ run[d].upto > run[d].from
BY DEF Types, RunType, Register, OthersKept, GoesOn, AfterRegister

(* Sending a push changes no file.                                          *)
LEMMA PushEffect ==
  ASSUME Types, NEW d \in Devices, Push(d)
  PROVE  /\ OthersKept(d) /\ dev' = dev /\ run[d].pc = "push"
         /\ GoesOn(d, "pushing") /\ run'[d].refused = run[d].refused
BY DEF Types, RunType, Push, OthersKept, GoesOn

(* A pull fails or brings the server's lines after those the sync knew.     *)
LEMMA PullEffect ==
  ASSUME Types, NEW d \in Devices, Pull(d)
  PROVE  /\ OthersKept(d) /\ dev' = dev /\ run[d].pc = "pull"
         /\ \/ Stops(d)
            \/ /\ GoesOn(d, "settle log") /\ run'[d].refused = run[d].refused
               /\ run[d].after <= Len(server.log)
               /\ run'[d].pulled = SubSeq(server.log, run[d].after + 1, Len(server.log))
<1>1. CASE Diverged(d)
  BY <1>1 DEF Types, Pull, OthersKept, Stops, Idle
<1>2. CASE ~ Diverged(d)
  <2> DEFINE news == SubSeq(server.log, run[d].after + 1, Len(server.log))
  <2>1. run' = [run EXCEPT ![d].pc = "settle log", ![d].pulled = news]
    BY <1>2 DEF Pull, PulledFrom
  <2>2. GoesOn(d, "settle log") /\ run'[d].refused = run[d].refused /\ run'[d].pulled = news
    <3> HIDE DEF news
    <3> QED BY <2>1 DEF Types, RunType, GoesOn
  <2>3. OthersKept(d) /\ dev' = dev /\ run[d].pc = "pull"
    BY <2>1 DEF Types, Pull, OthersKept
  <2>4. run[d].after <= Len(server.log)
    BY <1>2 DEF Types, RunType, ServerType, Diverged, PulledFrom
  <2> QED BY <2>2, <2>3, <2>4
<1> QED BY <1>1, <1>2

(* Settling the log fails or appends what was pulled.                       *)
LEMMA SettleLogEffect ==
  ASSUME Types, NEW d \in Devices, SettleLog(d)
  PROVE  /\ OthersKept(d) /\ run[d].pc = "settle log" /\ KeepsLines(d)
         /\ dev'[d].handled = dev[d].handled /\ dev'[d].rejected = dev[d].rejected
         /\ \/ Stops(d) /\ dev'[d].log = dev[d].log
            \/ /\ GoesOn(d, "settle rejected") /\ run'[d].refused = run[d].refused
               /\ dev'[d].log = dev[d].log \o run[d].pulled
               /\ run[d].pulled = << >> \/ run[d].after = Len(dev[d].log)
<1>1. CASE dev' = dev /\ run' = [run EXCEPT ![d] = Idle]
  BY <1>1 DEF Types, SettleLog, OthersKept, Stops, Idle, KeepsLines
<1>2. CASE /\ run[d].pulled = << >> \/ run[d].after = Len(dev[d].log)
           /\ run' = [run EXCEPT ![d].pc = "settle rejected"]
           /\ dev' = [dev EXCEPT ![d].log = dev[d].log \o run[d].pulled]
  <2> DEFINE longer == dev[d].log \o run[d].pulled
  <2>1. /\ KeepsLines(d) /\ dev'[d].log = longer
        /\ dev'[d].handled = dev[d].handled /\ dev'[d].rejected = dev[d].rejected
    <3>1. dev' = [dev EXCEPT ![d].log = longer]
      BY <1>2
    <3> HIDE DEF longer
    <3> QED BY <3>1 DEF Types, DevType, KeepsLines
  <2>2. GoesOn(d, "settle rejected") /\ run'[d].refused = run[d].refused
    BY <1>2 DEF Types, RunType, GoesOn
  <2>3. OthersKept(d)
    BY <1>2 DEF Types, OthersKept
  <2> QED BY <1>2, <2>1, <2>2, <2>3 DEF SettleLog
<1> QED BY <1>1, <1>2 DEF SettleLog

(* Then the refused events are listed.                                      *)
LEMMA SettleRejectedEffect ==
  ASSUME Types, NEW d \in Devices, SettleRejected(d)
  PROVE  /\ OthersKept(d) /\ run[d].pc = "settle rejected" /\ KeepsLines(d)
         /\ GoesOn(d, "settle state") /\ run'[d].refused = run[d].refused
         /\ dev'[d].log = dev[d].log /\ dev'[d].handled = dev[d].handled
         /\ dev'[d].rejected = dev[d].rejected \cup run[d].refused
BY DEF Types, RunType, DevType, SettleRejected, OthersKept, GoesOn, KeepsLines

(* And then the lines up to the end of the outbox are handled.              *)
LEMMA SettleStateEffect ==
  ASSUME Types, Positions, NEW d \in Devices, SettleState(d)
  PROVE  /\ OthersKept(d) /\ run[d].pc = "settle state" /\ KeepsLines(d) /\ Stops(d)
         /\ dev'[d].log = dev[d].log /\ dev'[d].rejected = dev[d].rejected
         /\ dev'[d].handled = run[d].upto
<1>1. run'[d] = Idle /\ OthersKept(d)
  BY DEF Types, SettleState, OthersKept
<1>2. /\ KeepsLines(d) /\ dev'[d].log = dev[d].log /\ dev'[d].rejected = dev[d].rejected
      /\ dev'[d].handled = SettledUpto(d)
  <2> DEFINE known == dev[d].registered \/ run[d].registered
  <2>1. dev' = [dev EXCEPT ![d].registered = known, ![d].handled = SettledUpto(d)]
    BY DEF SettleState
  <2> HIDE DEF known
  <2> QED BY <2>1 DEF Types, DevType, KeepsLines
<1>3. SettledUpto(d) = run[d].upto
  <2>1. run[d].pc # "idle" => run[d].from = dev[d].handled
    BY DEF Positions, Fits
  <2>2. run[d].pc = "settle state"
    BY DEF SettleState
  <2>3. dev[d].handled <= run[d].upto
    BY <2>1, <2>2 DEF Positions, Fits
  <2> QED BY <2>3 DEF Types, DevType, RunType, SettledUpto
<1>4. Stops(d)
  BY <1>1 DEF Stops, Idle
<1>5. run[d].pc = "settle state"
  BY DEF SettleState
<1> QED BY <1>1, <1>2, <1>3, <1>4, <1>5

(* Where nothing is written, a failure puts the sync of a device back.      *)
LEMMA FailingEffect ==
  ASSUME Types, NEW d \in Devices, Failing(d)
  PROVE  OthersKept(d) /\ dev' = dev /\ Stops(d) /\ author' = author
BY DEF Types, Failing, RegisterUnanswered, GiveUp, CrashSettling, OthersKept, Stops, Idle

(* The answer to a push reaches its device if it still waits for it.        *)
LEMMA AnswerEffect ==
  ASSUME Types, NEW p \in pushes, Answer(p)
  PROVE  /\ OthersKept(p.from) /\ dev' = dev
         /\ \/ run' = run /\ ~ p.awaited
            \/ p.awaited /\ GoesOn(p.from, "pull") /\ run'[p.from].refused = p.refused
BY DEF Types, RunType, PushType, Answer, OthersKept, GoesOn

(* A device whose push is lost stops its sync.                              *)
LEMMA LosePushEffect ==
  ASSUME Types, NEW p \in pushes, LosePush(p)
  PROVE  /\ OthersKept(p.from) /\ dev' = dev
         /\ run' = run \/ Stops(p.from)
BY DEF Types, PushType, LosePush, OthersKept, Stops, Idle

-----------------------------------------------------------------------------
(* The positions of a sync and of the outbox stay in the pending lines.     *)

(* A step that leaves the files and the syncs alone.                        *)
LEMMA PositionsFrame ==
  ASSUME Positions, dev' = dev, run' = run
  PROVE  Positions'
BY DEF Positions

(* A step of one device.                                                    *)
LEMMA PositionsOf ==
  ASSUME Positions, NEW d \in Devices, OthersKept(d), Fits(dev'[d], run'[d])
  PROVE  Positions'
BY DEF Positions, OthersKept

(* Every step keeps the positions.                                          *)
LEMMA PositionsStep ==
  ASSUME Types, Positions, Awaiting, [Next]_vars
  PROVE  Positions'
<1>a. ASSUME NEW d \in Devices
      PROVE  /\ dev[d].log \in Seq(EventIds) /\ dev[d].pending \in Seq(EventIds)
             /\ dev[d].handled \in Nat /\ run[d].pulled \in Seq(EventIds)
             /\ run[d].after \in Nat /\ run[d].from \in Nat /\ run[d].upto \in Nat
             /\ Fits(dev[d], run[d])
  BY DEF Types, DevType, RunType, Positions
<1>b. ASSUME NEW d \in Devices, OthersKept(d), dev' = dev, Stops(d) PROVE Positions'
  <2>1. Len(dev[d].pending) \in Nat
    BY <1>a
  <2>2. Fits(dev'[d], run'[d])
    BY <1>b, <2>1, <1>a DEF Stops, Fits
  <2> QED BY <1>b, <2>2, PositionsOf
<1>c. ASSUME NEW d \in Devices, OthersKept(d), dev' = dev, run[d].pc # "idle",
             NEW pc, GoesOn(d, pc)
      PROVE  Positions'
  <2>1. Fits(dev'[d], run'[d])
    BY <1>c, <1>a DEF GoesOn, Fits
  <2> QED BY <1>c, <2>1, PositionsOf
<1>0. CASE UNCHANGED vars
  BY <1>0, PositionsFrame DEF vars
<1>1. ASSUME NEW d \in Devices, Recording(d) PROVE Positions'
  <2>a. /\ Len(dev[d].pending) \in Nat /\ Len(dev[d].log) \in Nat /\ Len(run[d].pulled) \in Nat
        /\ dev[d].handled \in Nat /\ run[d].after \in Nat /\ run[d].from \in Nat /\ run[d].upto \in Nat
    BY <1>a, SMTT(30)
  <2>b. Fits(dev[d], run[d])
    BY <1>a
  <2>1. ASSUME NEW kind, Becomes(d, kind), dev[d].kind # "linked" PROVE Positions'
    <3>1. Fits(dev'[d], run'[d])
      BY <2>1, <1>a DEF Becomes, Fits
    <3> QED BY <2>1, <3>1, PositionsOf DEF Becomes
  <2>2. CASE Start(d)
    BY <2>2, <2>1, StartEffect DEF Start
  <2>3. CASE Link(d)
    BY <2>3, <2>1, LinkEffect DEF Link
  <2>4. CASE CrashBeforeLink(d)
    BY <2>4, <2>1, CrashBeforeLinkEffect DEF CrashBeforeLink
  <2>5. CASE OpenRemote(d)
    <3>1. dev[d].kind = "none"
      BY <2>5 DEF OpenRemote
    <3>2. Fits(dev'[d], run'[d])
      BY <2>5, <3>1, <1>a, OpenRemoteEffect DEF Fits
    <3> QED BY <2>5, <3>2, OpenRemoteEffect, PositionsOf
  <2>6. ASSUME NEW e \in EventIds, Record(d, e) PROVE Positions'
    <3>1. /\ Len(Append(dev[d].pending, e)) = Len(dev[d].pending) + 1
          /\ Len(Append(dev[d].log, e)) = Len(dev[d].log) + 1
      BY <1>a
    <3>2. Fits(dev'[d], run'[d])
      BY SMTT(30), <2>6, <3>1, <2>a, <2>b, RecordEffect DEF Linked, Fits
    <3> QED BY <2>6, <3>2, RecordEffect, PositionsOf
  <2> QED BY <1>1, <2>2, <2>3, <2>4, <2>5, <2>6 DEF Recording
<1>2. ASSUME NEW d \in Devices, Syncing(d) PROVE Positions'
  <2>a. /\ Len(dev[d].pending) \in Nat /\ Len(dev[d].log) \in Nat /\ Len(run[d].pulled) \in Nat
        /\ dev[d].handled \in Nat /\ run[d].after \in Nat /\ run[d].from \in Nat /\ run[d].upto \in Nat
    BY <1>a
  <2>b. Fits(dev[d], run[d])
    BY <1>a
  <2>1. CASE Begin(d)
    <3>1. Fits(dev'[d], run'[d])
      BY <2>1, <2>a, <2>b, BeginEffect DEF Linked, Fits
    <3> QED BY <2>1, <3>1, BeginEffect, PositionsOf
  <2>2. CASE Register(d)
    BY <2>2, <1>c, RegisterEffect
  <2>3. CASE Push(d)
    BY <2>3, <1>c, PushEffect
  <2>4. CASE Pull(d)
    BY <2>4, <1>b, <1>c, PullEffect
  <2>5. CASE SettleLog(d)
    <3>1. Len(dev[d].log \o run[d].pulled) = Len(dev[d].log) + Len(run[d].pulled)
      BY <1>a
    <3>2. OthersKept(d) /\ KeepsLines(d) /\ dev'[d].handled = dev[d].handled
          /\ run[d].pc = "settle log"
      BY <2>5, SettleLogEffect
    <3>3. CASE Stops(d)
      <4>1. Fits(dev'[d], run'[d])
        <5>1. dev'[d].handled <= Len(dev'[d].pending) /\ Len(dev'[d].pending) \in Nat
          BY <2>a, <2>b, <3>2 DEF KeepsLines, Fits
        <5>2. run'[d].pc = "idle" /\ run'[d].from = 0 /\ run'[d].upto = 0
          BY <3>3 DEF Stops
        <5> QED BY <5>1, <5>2 DEF Fits
      <4> QED BY <3>2, <4>1, PositionsOf
    <3>4. CASE GoesOn(d, "settle rejected") /\ dev'[d].log = dev[d].log \o run[d].pulled
      <4>1. Fits(dev'[d], run'[d])
        <5>1. Len(dev'[d].log) = Len(dev[d].log) + Len(run[d].pulled)
          BY <3>1, <3>4
        <5>2. /\ dev'[d].handled = dev[d].handled /\ dev'[d].pending = dev[d].pending
              /\ dev'[d].kind = dev[d].kind /\ run[d].pc # "idle"
          BY <3>2 DEF KeepsLines
        <5>3. /\ run'[d].from = run[d].from /\ run'[d].upto = run[d].upto
              /\ run'[d].after = run[d].after
          BY <3>4 DEF GoesOn
        <5>4. run[d].after <= Len(dev'[d].log)
          <6>1. run[d].after <= Len(dev[d].log)
            BY <2>b, <5>2 DEF Fits
          <6>2. \A p, q, r \in Nat : p <= q => p <= q + r
            OBVIOUS
          <6>3. run[d].after <= Len(dev[d].log) + Len(run[d].pulled)
            BY <2>a, <6>1, <6>2
          <6> QED BY <5>1, <6>3
        <5>5. dev[d].kind = "linked" /\ run[d].from = dev[d].handled
          BY <2>b, <5>2 DEF Fits
        <5>6. /\ dev[d].handled <= Len(dev[d].pending)
              /\ run[d].from <= run[d].upto /\ run[d].upto <= Len(dev[d].pending)
          BY <2>b DEF Fits
        <5> QED BY <5>2, <5>3, <5>4, <5>5, <5>6 DEF Fits
      <4> QED BY <3>2, <4>1, PositionsOf
    <3> QED BY <2>5, <3>3, <3>4, SettleLogEffect
  <2>6. CASE SettleRejected(d)
    <3>1. Fits(dev'[d], run'[d])
      BY <2>6, <2>a, <2>b, SettleRejectedEffect DEF GoesOn, KeepsLines, Fits
    <3> QED BY <2>6, <3>1, SettleRejectedEffect, PositionsOf
  <2>7. CASE SettleState(d)
    <3>1. dev'[d].handled <= Len(dev'[d].pending) /\ run'[d].pc = "idle"
      BY <2>7, <2>a, <2>b, SettleStateEffect DEF Stops, KeepsLines, Fits
    <3>2. run'[d].from = 0 /\ run'[d].upto = 0 /\ Len(dev'[d].pending) \in Nat
      BY <2>7, <2>a, SettleStateEffect DEF Stops, KeepsLines
    <3>3. Fits(dev'[d], run'[d])
      BY <3>1, <3>2 DEF Fits
    <3> QED BY <2>7, <3>3, SettleStateEffect, PositionsOf
  <2> QED BY <1>2, <2>1, <2>2, <2>3, <2>4, <2>5, <2>6, <2>7 DEF Syncing
<1>3. ASSUME NEW d \in Devices, Failing(d) PROVE Positions'
  BY <1>3, <1>b, FailingEffect
<1>4. ASSUME NEW e \in EventIds, RecordOnServer(e) PROVE Positions'
  BY <1>4, PositionsFrame DEF RecordOnServer
<1>5. ASSUME NEW p \in pushes, Handling(p) \/ LosePush(p) PROVE Positions'
  <2>0. p.from \in Devices
    BY DEF Types, PushType
  <2>1. CASE UNCHANGED << dev, run >>
    BY <2>1, PositionsFrame
  <2>2. CASE Answer(p)
    <3>1. p.awaited => run[p.from].pc = "pushing"
      BY DEF Awaiting, Awaited
    <3> QED BY <2>0, <2>2, <3>1, <1>c, AnswerEffect, PositionsFrame
  <2>3. CASE LosePush(p)
    BY <2>0, <2>3, <1>b, LosePushEffect, PositionsFrame
  <2> QED BY <1>5, <2>1, <2>2, <2>3
        DEF Handling, CheckConflicts, RecordPushed, RefusePushed, KeepConflict
<1> QED BY <1>0, <1>1, <1>2, <1>3, <1>4, <1>5 DEF Next

-----------------------------------------------------------------------------
(* The server's log and the copies of it. *)

(* Registering an execution does not change the server's log: before, there *)
(* is nothing in the copies.                                                *)
LEMMA CreateStartedEffect ==
  ASSUME Types, Positions, Logs, NEW d \in Devices, run[d].pc = "register", CreateStarted(d)
  PROVE  server'.exists /\ server'.log = server.log /\ server'.kept = server.kept
<1>1. CASE server.exists
  BY <1>1 DEF CreateStarted
<1>2. CASE ~ server.exists
  <2>1. server.log = << >>
    BY <1>2 DEF Logs
  <2>2. dev[d].log \in Seq(EventIds) /\ run[d].after \in Nat
    BY DEF Types, DevType, RunType
  <2>3. dev[d].kind = "linked" /\ run[d].after <= Len(dev[d].log)
    BY DEF Positions, Fits
  <2>4. Len(dev[d].log) <= Len(server.log)
    BY <2>3 DEF Logs, IsCopy, Begins
  <2>5. Len(dev[d].log) = 0 /\ run[d].after = 0
    BY <2>1, <2>2, <2>3, <2>4
  <2>6. SubSeq(dev[d].log, 1, run[d].after) = << >>
    BY <2>2, <2>5
  <2>7. server' = [server EXCEPT !.exists = TRUE, !.log = << >>]
    BY <1>2, <2>6 DEF CreateStarted
  <2> QED BY <2>1, <2>7 DEF Types, ServerType
<1> QED BY <1>1, <1>2

(* The server only learns: it never forgets that the execution exists, an   *)
(* event it recorded or a conflict it keeps.                                *)
LEMMA ServerLearns ==
  ASSUME Types, Positions, Logs, [Next]_vars
  PROVE  /\ server.exists => server'.exists
         /\ \/ server'.log = server.log
            \/ server.exists /\ \E e \in EventIds : server'.log = Append(server.log, e)
            \/ pushes # {} /\ \E e \in EventIds : server'.log = Append(server.log, e)
         /\ server.kept \subseteq server'.kept
<1>0. CASE server' = server
  BY <1>0
<1>1. ASSUME NEW d \in Devices, Register(d) \/ RegisterUnanswered(d)
      PROVE  server'.exists /\ server'.log = server.log /\ server'.kept = server.kept
  BY <1>1, CreateStartedEffect DEF Register, RegisterUnanswered
<1>2. ASSUME NEW e \in EventIds, RecordOnServer(e)
      PROVE  /\ server.exists /\ server'.exists = server.exists /\ server'.kept = server.kept
             /\ server'.log = Append(server.log, e)
  BY <1>2 DEF RecordOnServer, Types, ServerType
<1>3. ASSUME NEW p \in pushes, RecordPushed(p)
      PROVE  /\ server'.exists = server.exists /\ server'.kept = server.kept
             /\ \/ server'.log = server.log
                \/ \E e \in EventIds : server'.log = Append(server.log, e)
  <2>1. Head(p.todo) \in EventIds
    BY <1>3 DEF RecordPushed, Types, PushType
  <2>2. server' = server \/ server' = [server EXCEPT !.log = Append(server.log, Head(p.todo))]
    BY <1>3 DEF RecordPushed
  <2> QED BY <2>1, <2>2 DEF Types, ServerType
<1>4. ASSUME NEW p \in pushes, KeepConflict(p)
      PROVE  /\ server'.exists = server.exists /\ server'.log = server.log
             /\ server'.kept = server.kept \cup {Head(p.todo)}
  BY <1>4, SMTT(30) DEF KeepConflict, Types, ServerType
<1>5. ASSUME NEW d \in Devices, Recording(d) \/ Syncing(d) \/ Failing(d)
      PROVE  server' = server \/ Register(d) \/ RegisterUnanswered(d)
  BY <1>5 DEF Recording, Start, Link, CrashBeforeLink, OpenRemote, Record, Syncing, Begin, Push,
              Pull, SettleLog, SettleRejected, SettleState, Failing, GiveUp, CrashSettling
<1>6. ASSUME NEW p \in pushes, Handling(p) \/ LosePush(p)
      PROVE  server' = server \/ RecordPushed(p) \/ KeepConflict(p)
  BY <1>6 DEF Handling, CheckConflicts, RefusePushed, Answer, LosePush
<1>7. CASE UNCHANGED vars
  BY <1>7 DEF vars
<1> QED BY <1>0, <1>1, <1>2, <1>3, <1>4, <1>5, <1>6, <1>7 DEF Next

(* A log stays a beginning of one that an event is added to.                *)
LEMMA LongerLog ==
  ASSUME NEW a \in Seq(EventIds), NEW b \in Seq(EventIds),
         a = b \/ \E e \in EventIds : b = Append(a, e)
  PROVE  Begins(a, b)
BY DEF Begins

(* A beginning of a beginning is a beginning.                               *)
LEMMA BeginsTransitive ==
  ASSUME NEW a \in Seq(EventIds), NEW b \in Seq(EventIds), NEW c \in Seq(EventIds),
         Begins(a, b), Begins(b, c)
  PROVE  Begins(a, c)
<1>1. Len(a) \in Nat /\ Len(b) \in Nat /\ Len(c) \in Nat
  OBVIOUS
<1>2. Len(a) <= Len(b) /\ Len(b) <= Len(c)
  BY DEF Begins
<1>3. Len(a) <= Len(c) /\ 1..Len(a) \subseteq 1..Len(b)
  BY <1>1, <1>2
<1> QED BY <1>3 DEF Begins

(* A beginning continued by what follows it is a beginning.                 *)
LEMMA BeginsConcat ==
  ASSUME NEW a \in Seq(EventIds), NEW b \in Seq(EventIds), NEW c \in Seq(EventIds), Begins(a, c),
         \A k \in 1..Len(b) : Len(a) + k <= Len(c) /\ b[k] = c[Len(a) + k]
  PROVE  Begins(a \o b, c)
<1>1. /\ Len(a) \in Nat /\ Len(b) \in Nat /\ Len(c) \in Nat
      /\ Len(a \o b) = Len(a) + Len(b)
  OBVIOUS
<1>2. Len(a) + Len(b) <= Len(c)
  <2>1. CASE Len(b) = 0
    BY <1>1, <2>1 DEF Begins
  <2>2. CASE Len(b) # 0
    <3>1. Len(b) \in 1..Len(b)
      BY <1>1, <2>2
    <3> QED BY <3>1
  <2> QED BY <2>1, <2>2
<1>3. ASSUME NEW k \in 1..(Len(a) + Len(b)) PROVE (a \o b)[k] = c[k]
  <2>1. CASE k <= Len(a)
    <3>1. (a \o b)[k] = a[k] /\ k \in 1..Len(a)
      BY <1>1, <2>1
    <3> QED BY <3>1 DEF Begins
  <2>2. CASE ~ k <= Len(a)
    <3>1. (a \o b)[k] = b[k - Len(a)] /\ k - Len(a) \in 1..Len(b)
      BY <1>1, <2>2
    <3>2. b[k - Len(a)] = c[Len(a) + (k - Len(a))] /\ Len(a) + (k - Len(a)) = k
      BY <1>1, <3>1
    <3> QED BY <3>1, <3>2
  <2> QED BY <2>1, <2>2
<1> QED BY <1>1, <1>2, <1>3 DEF Begins

(* What follows the first n events of a log.                                *)
LEMMA RestOfLog ==
  ASSUME NEW a \in Seq(EventIds), NEW n \in Nat, n <= Len(a)
  PROVE  \A k \in 1..Len(SubSeq(a, n + 1, Len(a))) :
           n + k <= Len(a) /\ SubSeq(a, n + 1, Len(a))[k] = a[n + k]
<1>1. Len(a) \in Nat /\ Len(SubSeq(a, n + 1, Len(a))) = Len(a) - n
  OBVIOUS
<1>2. ASSUME NEW k \in 1..(Len(a) - n)
      PROVE  n + k <= Len(a) /\ SubSeq(a, n + 1, Len(a))[k] = a[n + k]
  <2>1. n + k <= Len(a) /\ (n + 1) + k - 1 = n + k
    BY <1>1
  <2>2. SubSeq(a, n + 1, Len(a))[k] = a[(n + 1) + k - 1]
    BY <1>1
  <2> QED BY <2>1, <2>2
<1> QED BY <1>1, <1>2

(* A copy of a log is a copy of a longer one.                               *)
LEMMA StaysCopy ==
  ASSUME NEW a \in Seq(EventIds), NEW b \in Seq(EventIds), Begins(a, b),
         NEW v \in DevType, NEW r \in RunType, IsCopy(v, r, a)
  PROVE  IsCopy(v, r, b)
<1>1. v.kind = "linked" => Begins(v.log, b)
  <2>1. v.log \in Seq(EventIds)
    BY DEF DevType
  <2> QED BY <2>1, BeginsTransitive DEF IsCopy
<1>2. ASSUME r.pc = "settle log", NEW k \in 1..Len(r.pulled)
      PROVE  r.after + k <= Len(b) /\ r.pulled[k] = b[r.after + k]
  <2>1. r.after + k <= Len(a) /\ r.pulled[k] = a[r.after + k]
    BY <1>2 DEF IsCopy
  <2>2. r.after \in Nat /\ r.pulled \in Seq(EventIds)
    BY DEF RunType
  <2>3. r.after + k \in 1..Len(a)
    BY <2>1, <2>2
  <2> QED BY <2>1, <2>3 DEF Begins
<1> QED BY <1>1, <1>2 DEF IsCopy

(* The copies stay beginnings of the server's log.                          *)
LEMMA LogsStep ==
  ASSUME Types, Types', Positions, Awaiting, Logs, [Next]_vars
  PROVE  Logs'
<1>a. server.log \in Seq(EventIds) /\ server'.log \in Seq(EventIds)
  BY DEF Types, ServerType
<1>b. Begins(server.log, server'.log)
  BY <1>a, ServerLearns, LongerLog
<1>c. ASSUME NEW x \in Devices PROVE IsCopy(dev[x], run[x], server'.log)
  <2>1. dev[x] \in DevType /\ run[x] \in RunType /\ IsCopy(dev[x], run[x], server.log)
    BY DEF Types, Logs
  <2> QED BY <1>a, <1>b, <2>1, StaysCopy
<1>d. ASSUME NEW d \in Devices, OthersKept(d), IsCopy(dev'[d], run'[d], server'.log)
      PROVE  \A x \in Devices : IsCopy(dev'[x], run'[x], server'.log)
  BY <1>c, <1>d DEF OthersKept
<1> DEFINE Copies == \A x \in Devices : IsCopy(dev'[x], run'[x], server'.log)
<1>e. ASSUME dev' = dev, run' = run PROVE Copies
  BY <1>c, <1>e
<1>f. ASSUME NEW d \in Devices, OthersKept(d), dev' = dev, run'[d].pc # "settle log" PROVE Copies
  <2>1. IsCopy(dev[d], run[d], server'.log)
    BY <1>c
  <2>2. IsCopy(dev'[d], run'[d], server'.log)
    BY <1>f, <2>1 DEF IsCopy
  <2> QED BY <1>d, <1>f, <2>2
<1>1. ASSUME NEW d \in Devices, Recording(d) PROVE Copies
  <2>a. IsCopy(dev[d], run[d], server'.log)
    BY <1>c
  <2>b. ASSUME dev[d].log = << >> PROVE Begins(dev[d].log, server'.log)
    BY <2>b, <1>a DEF Begins
  <2>1. ASSUME NEW kind, Becomes(d, kind), dev[d].kind \in {"none", "starting"} PROVE Copies
    <3>1. dev[d].log = << >>
      BY <2>a, <2>1 DEF IsCopy
    <3>2. IsCopy(dev'[d], run'[d], server'.log)
      BY <2>a, <2>b, <2>1, <3>1 DEF IsCopy, Becomes
    <3> QED BY <1>d, <2>1, <3>2 DEF Becomes
  <2>2. CASE Start(d)
    BY <2>2, <2>1, StartEffect DEF Start
  <2>3. CASE Link(d)
    BY <2>3, <2>1, LinkEffect DEF Link
  <2>4. CASE CrashBeforeLink(d)
    BY <2>4, <2>1, CrashBeforeLinkEffect DEF CrashBeforeLink
  <2>5. CASE OpenRemote(d)
    <3>1. PICK n \in 0..Len(server.log) :
            /\ OthersKept(d) /\ run' = run
            /\ dev'[d].kind = "linked" /\ dev'[d].log = SubSeq(server.log, 1, n)
      BY <2>5, OpenRemoteEffect
    <3>2. server'.log = server.log
      BY <2>5 DEF OpenRemote
    <3>3. Begins(SubSeq(server.log, 1, n), server.log)
      BY <1>a DEF Begins
    <3>4. IsCopy(dev'[d], run'[d], server'.log)
      BY <2>a, <3>1, <3>2, <3>3 DEF IsCopy
    <3> QED BY <1>d, <3>1, <3>4
  <2>6. ASSUME NEW e \in EventIds, Record(d, e) PROVE Copies
    <3>1. IsCopy(dev'[d], run'[d], server'.log)
      BY <2>a, <2>6, RecordEffect DEF IsCopy, Linked
    <3> QED BY <1>d, <2>6, <3>1, RecordEffect
  <2> QED BY <1>1, <2>2, <2>3, <2>4, <2>5, <2>6 DEF Recording
<1>2. ASSUME NEW d \in Devices, Syncing(d) PROVE Copies
  <2>a. IsCopy(dev[d], run[d], server'.log)
    BY <1>c
  <2>1. CASE Begin(d)
    BY <2>1, <1>f, BeginEffect
  <2>2. CASE Register(d)
    BY <2>2, <1>f, RegisterEffect DEF GoesOn
  <2>3. CASE Push(d)
    BY <2>3, <1>f, PushEffect DEF GoesOn
  <2>4. CASE Pull(d)
    <3>1. CASE Stops(d)
      BY <2>4, <3>1, <1>f, PullEffect DEF Stops
    <3>2. CASE /\ GoesOn(d, "settle log") /\ run[d].after <= Len(server.log)
               /\ run'[d].pulled = SubSeq(server.log, run[d].after + 1, Len(server.log))
      <4>1. server'.log = server.log /\ OthersKept(d) /\ dev' = dev
        BY <2>4, PullEffect DEF Pull
      <4>2. run[d].after \in Nat
        BY DEF Types, RunType
      <4>3. \A k \in 1..Len(run'[d].pulled) :
              run[d].after + k <= Len(server.log) /\ run'[d].pulled[k] = server.log[run[d].after + k]
        <5>1. \A k \in 1..Len(SubSeq(server.log, run[d].after + 1, Len(server.log))) :
                /\ run[d].after + k <= Len(server.log)
                /\ SubSeq(server.log, run[d].after + 1, Len(server.log))[k] = server.log[run[d].after + k]
          BY <1>a, <3>2, <4>2, RestOfLog
        <5> QED BY <3>2, <5>1, Zenon
      <4>4. IsCopy(dev'[d], run'[d], server'.log)
        BY <2>a, <3>2, <4>1, <4>3 DEF IsCopy, GoesOn
      <4> QED BY <1>d, <4>1, <4>4
    <3> QED BY <2>4, <3>1, <3>2, PullEffect
  <2>5. CASE SettleLog(d)
    <3>1. /\ OthersKept(d) /\ dev'[d].kind = dev[d].kind /\ run[d].pc = "settle log"
          /\ run'[d].pc # "settle log"
      BY <2>5, SettleLogEffect DEF KeepsLines, GoesOn, Stops
    <3>2. ASSUME dev[d].kind = "linked" PROVE Begins(dev'[d].log, server'.log)
      <4>1. Begins(dev[d].log, server'.log)
        BY <2>a, <3>2 DEF IsCopy
      <4>2. CASE dev'[d].log = dev[d].log
        BY <4>1, <4>2
      <4>3. CASE /\ dev'[d].log = dev[d].log \o run[d].pulled
                 /\ run[d].pulled = << >> \/ run[d].after = Len(dev[d].log)
        <5>1. dev[d].log \in Seq(EventIds) /\ run[d].pulled \in Seq(EventIds)
          BY DEF Types, DevType, RunType
        <5>2. CASE run[d].pulled = << >>
          BY <4>1, <4>3, <5>1, <5>2
        <5>3. CASE run[d].after = Len(dev[d].log)
          <6>1. \A k \in 1..Len(run[d].pulled) :
                  /\ Len(dev[d].log) + k <= Len(server'.log)
                  /\ run[d].pulled[k] = server'.log[Len(dev[d].log) + k]
            BY <2>a, <3>1, <5>3 DEF IsCopy
          <6> QED BY <1>a, <4>1, <4>3, <5>1, <6>1, BeginsConcat
        <5> QED BY <4>3, <5>2, <5>3
      <4> QED BY <2>5, <4>2, <4>3, SettleLogEffect
    <3>3. dev[d].kind = "linked"
      BY <3>1 DEF Positions, Fits
    <3>4. IsCopy(dev'[d], run'[d], server'.log)
      BY <3>1, <3>2, <3>3 DEF IsCopy
    <3> QED BY <1>d, <3>1, <3>4
  <2>6. CASE SettleRejected(d)
    <3>1. IsCopy(dev'[d], run'[d], server'.log)
      BY <2>a, <2>6, SettleRejectedEffect DEF IsCopy, KeepsLines, GoesOn
    <3> QED BY <1>d, <2>6, <3>1, SettleRejectedEffect
  <2>7. CASE SettleState(d)
    <3>1. IsCopy(dev'[d], run'[d], server'.log)
      BY <2>a, <2>7, SettleStateEffect DEF IsCopy, KeepsLines, Stops
    <3> QED BY <1>d, <2>7, <3>1, SettleStateEffect
  <2> QED BY <1>2, <2>1, <2>2, <2>3, <2>4, <2>5, <2>6, <2>7 DEF Syncing
<1>3. ASSUME NEW d \in Devices, Failing(d) PROVE Copies
  <2>1. IsCopy(dev[d], run[d], server'.log)
    BY <1>c
  <2>2. OthersKept(d) /\ dev' = dev /\ run'[d].pc = "idle"
    BY <1>3, FailingEffect DEF Stops
  <2>3. IsCopy(dev'[d], run'[d], server'.log)
    BY <2>1, <2>2 DEF IsCopy
  <2> QED BY <1>d, <2>2, <2>3
<1>4. ASSUME NEW p \in pushes, Handling(p) \/ LosePush(p) PROVE Copies
  <2>0. p.from \in Devices
    BY DEF Types, PushType
  <2>1. CASE UNCHANGED << dev, run >>
    BY <2>1, <1>e
  <2>2. ASSUME OthersKept(p.from), dev' = dev, run'[p.from].pc # "settle log" PROVE Copies
    <3>1. IsCopy(dev[p.from], run[p.from], server'.log)
      BY <1>c, <2>0
    <3>2. IsCopy(dev'[p.from], run'[p.from], server'.log)
      BY <2>2, <3>1 DEF IsCopy
    <3> QED BY <1>d, <2>0, <2>2, <3>2
  <2>3. CASE Answer(p)
    BY <2>2, <2>3, <1>e, AnswerEffect DEF GoesOn
  <2>4. CASE LosePush(p)
    BY <2>2, <2>4, <1>e, LosePushEffect DEF Stops
  <2> QED BY <1>4, <2>1, <2>3, <2>4
        DEF Handling, CheckConflicts, RecordPushed, RefusePushed, KeepConflict
<1>5. Copies
  BY <1>1, <1>2, <1>3, <1>4, <1>e DEF Next, vars, RecordOnServer
<1>6. ASSUME ~ server'.exists
      PROVE  /\ server'.log = << >> /\ pushes' = {}
             /\ \A d \in Devices : ~ dev'[d].registered /\ run'[d].pc \in {"idle", "register"}
  <2>1. /\ ~ server.exists /\ server.log = << >> /\ pushes = {}
        /\ \A d \in Devices : ~ dev[d].registered /\ run[d].pc \in {"idle", "register"}
    BY <1>6, ServerLearns DEF Logs
  <2>2. server'.log = << >>
    BY <2>1, ServerLearns
  <2>3. ASSUME NEW d \in Devices, OthersKept(d),
               ~ dev'[d].registered, run'[d].pc \in {"idle", "register"}
        PROVE  \A x \in Devices : ~ dev'[x].registered /\ run'[x].pc \in {"idle", "register"}
    BY <2>1, <2>3 DEF OthersKept
  <2>4. CASE UNCHANGED vars
    BY <2>1, <2>4 DEF vars
  <2>5. ASSUME NEW d \in Devices, Recording(d)
        PROVE  OthersKept(d) /\ dev'[d].registered = dev[d].registered /\ run' = run /\ pushes' = pushes
    <3>1. ~ OpenRemote(d)
      BY <2>1 DEF OpenRemote
    <3>2. pushes' = pushes
      BY <2>5 DEF Recording, Start, Link, CrashBeforeLink, OpenRemote, Record
    <3> QED BY <2>5, <3>1, <3>2, StartEffect, LinkEffect, CrashBeforeLinkEffect, RecordEffect
            DEF Recording, Becomes
  <2>6. ASSUME NEW d \in Devices, Syncing(d)
        PROVE  OthersKept(d) /\ dev' = dev /\ run'[d].pc = "register" /\ pushes' = pushes
    <3>1. CASE Begin(d)
      BY <2>1, <3>1, BeginEffect DEF Begin
    <3>2. CASE Register(d)
      BY <1>6, <3>2, CreateStartedEffect DEF Register
    <3>3. run[d].pc \in {"idle", "register"}
      BY <2>1
    <3> QED BY <2>6, <3>1, <3>2, <3>3
            DEF Syncing, Push, Pull, SettleLog, SettleRejected, SettleState
  <2>7. ASSUME NEW d \in Devices, Failing(d)
        PROVE  OthersKept(d) /\ dev' = dev /\ run'[d].pc = "idle" /\ pushes' = pushes
    <3>1. OthersKept(d) /\ dev' = dev /\ run'[d].pc = "idle"
      BY <2>7, FailingEffect DEF Stops
    <3>2. CASE RegisterUnanswered(d)
      BY <3>1, <3>2 DEF RegisterUnanswered
    <3>3. CASE GiveUp(d)
      BY <2>1, <3>1, <3>3 DEF GiveUp
    <3>4. CASE CrashSettling(d)
      BY <3>1, <3>4 DEF CrashSettling
    <3> QED BY <2>7, <3>2, <3>3, <3>4 DEF Failing
  <2>8. ASSUME NEW d \in Devices, Recording(d) \/ Syncing(d) \/ Failing(d)
        PROVE  OthersKept(d) /\ ~ dev'[d].registered /\ run'[d].pc \in {"idle", "register"} /\ pushes' = {}
    BY <2>1, <2>5, <2>6, <2>7, <2>8
  <2>9. ASSUME NEW e \in EventIds, RecordOnServer(e) PROVE FALSE
    BY <2>1, <2>9 DEF RecordOnServer
  <2> QED BY <2>1, <2>2, <2>3, <2>4, <2>8, <2>9 DEF Next
<1> QED BY <1>5, <1>6 DEF Logs

-----------------------------------------------------------------------------
(* The lines and the events: what a step can do to the lines that wait, the *)
(* server's events and their authors.                                       *)

SameLines == \A d \in Devices : dev'[d].pending = dev[d].pending

Quiet ==
  /\ server'.log = server.log /\ server'.kept = server.kept
  /\ author' = author /\ SameLines

RecordsAt(d, e) ==
  /\ server' = server /\ author[e] = None /\ author' = [author EXCEPT ![e] = d]
  /\ \A x \in Devices \ {d} : dev'[x] = dev[x]
  /\ \/ dev'[d].pending = dev[d].pending
     \/ dev'[d].pending = Append(dev[d].pending, e)

RecordsWeb(e) ==
  /\ server'.log = Append(server.log, e) /\ server'.kept = server.kept
  /\ author[e] = None /\ author' = [author EXCEPT ![e] = Web] /\ SameLines

RecordsPush(p) ==
  /\ p.todo # << >> /\ ~ Recorded(Head(p.todo))
  /\ server'.log = Append(server.log, Head(p.todo)) /\ server'.kept = server.kept
  /\ author' = author /\ SameLines

Keeps(p) ==
  /\ p.todo # << >>
  /\ server'.log = server.log /\ server'.kept = server.kept \cup {Head(p.todo)}
  /\ author' = author /\ SameLines

(* Every step does one of these to the lines and events.                    *)
LEMMA Shapes ==
  ASSUME Types, Positions, Logs, [Next]_vars
  PROVE  \/ Quiet
         \/ \E d \in Devices, e \in EventIds : RecordsAt(d, e)
         \/ \E e \in EventIds : RecordsWeb(e)
         \/ \E p \in pushes : RecordsPush(p) \/ Keeps(p)
<1>a. ASSUME NEW d \in Devices, OthersKept(d), dev'[d].pending = dev[d].pending
      PROVE  SameLines
  BY <1>a DEF SameLines, OthersKept
<1>b. ASSUME dev' = dev PROVE SameLines
  BY <1>b DEF SameLines
<1>0. CASE UNCHANGED vars
  BY <1>0, <1>b DEF vars, Quiet
<1>1. ASSUME NEW d \in Devices, Recording(d)
      PROVE  Quiet \/ \E e \in EventIds : RecordsAt(d, e)
  <2>1. ASSUME NEW e \in EventIds, Record(d, e) PROVE RecordsAt(d, e)
    <3>1. server' = server /\ author[e] = None /\ author' = [author EXCEPT ![e] = d]
      BY <2>1 DEF Record
    <3> QED BY <2>1, <3>1, RecordEffect DEF RecordsAt, OthersKept
  <2>2. CASE Start(d) \/ Link(d) \/ CrashBeforeLink(d) \/ OpenRemote(d)
    <3>1. server' = server /\ author' = author
      BY <2>2 DEF Start, Link, CrashBeforeLink, OpenRemote
    <3>2. SameLines
      BY <2>2, <1>a, StartEffect, LinkEffect, CrashBeforeLinkEffect, OpenRemoteEffect DEF Becomes
    <3> QED BY <3>1, <3>2 DEF Quiet
  <2> QED BY <1>1, <2>1, <2>2 DEF Recording
<1>2. ASSUME NEW d \in Devices, Syncing(d) PROVE Quiet
  <2>1. SameLines
    BY <1>2, <1>a, <1>b, BeginEffect, RegisterEffect, PushEffect, PullEffect, SettleLogEffect,
       SettleRejectedEffect, SettleStateEffect DEF Syncing, KeepsLines
  <2>2. author' = author /\ (server' = server \/ Register(d))
    BY <1>2 DEF Syncing, Begin, Register, Push, Pull, SettleLog, SettleRejected, SettleState
  <2>3. ASSUME Register(d) PROVE server'.log = server.log /\ server'.kept = server.kept
    BY <2>3, CreateStartedEffect DEF Register
  <2> QED BY <2>1, <2>2, <2>3 DEF Quiet
<1>3. ASSUME NEW d \in Devices, Failing(d) PROVE Quiet
  <2>1. SameLines /\ author' = author
    BY <1>3, <1>b, FailingEffect
  <2>2. server' = server \/ RegisterUnanswered(d)
    BY <1>3 DEF Failing, GiveUp, CrashSettling
  <2>3. ASSUME RegisterUnanswered(d) PROVE server'.log = server.log /\ server'.kept = server.kept
    BY <2>3, CreateStartedEffect DEF RegisterUnanswered
  <2> QED BY <2>1, <2>2, <2>3 DEF Quiet
<1>4. ASSUME NEW e \in EventIds, RecordOnServer(e) PROVE RecordsWeb(e)
  BY <1>4, <1>b DEF RecordOnServer, RecordsWeb, Types, ServerType
<1>5. ASSUME NEW p \in pushes, Handling(p) \/ LosePush(p)
      PROVE  Quiet \/ RecordsPush(p) \/ Keeps(p)
  <2>1. dev' = dev /\ author' = author
    BY <1>5 DEF Handling, CheckConflicts, RecordPushed, RefusePushed, KeepConflict, Answer, LosePush
  <2>2. SameLines
    BY <2>1, <1>b
  <2>3. CASE server' = server
    BY <2>1, <2>2, <2>3 DEF Quiet
  <2>4. CASE RecordPushed(p)
    <3>1. \/ server' = server
          \/ ~ IsRetry(Head(p.todo)) /\ server' = [server EXCEPT !.log = Append(@, Head(p.todo))]
      BY <2>4 DEF RecordPushed
    <3>2. p.todo # << >>
      BY <2>4 DEF RecordPushed
    <3>3. CASE ~ IsRetry(Head(p.todo)) /\ server' = [server EXCEPT !.log = Append(@, Head(p.todo))]
      BY <2>1, <2>2, <3>2, <3>3 DEF RecordsPush, Recorded, IsRetry, Types, ServerType
    <3> QED BY <2>3, <3>1, <3>3
  <2>5. CASE KeepConflict(p)
    BY <2>1, <2>2, <2>5 DEF KeepConflict, Keeps, Types, ServerType
  <2> QED BY <1>5, <2>3, <2>4, <2>5 DEF Handling, CheckConflicts, RefusePushed, Answer, LosePush
<1> QED BY <1>0, <1>1, <1>2, <1>3, <1>4, <1>5 DEF Next

(* The next event of a push is a line of its device, and all lines before   *)
(* it were passed.                                                          *)
LEMMA NextToDo ==
  ASSUME Types, Authors, Rows, NEW p \in pushes, p.todo # << >>
  PROVE  /\ p.from \in Devices /\ Head(p.todo) \in EventIds /\ author[Head(p.todo)] = p.from
         /\ \E a \in Nat :
              /\ a + 1 \in 1..Len(dev[p.from].pending)
              /\ dev[p.from].pending[a + 1] = Head(p.todo)
              /\ \A k \in 1..a : Passed(dev[p.from].pending[k])
<1>1. p.from \in Devices /\ p.todo \in Seq(EventIds) /\ dev[p.from].pending \in Seq(EventIds)
  BY DEF Types, PushType, DevType
<1>2. /\ Len(p.todo) \in Nat \ {0} /\ Head(p.todo) = p.todo[1] /\ 1 \in 1..Len(p.todo)
      /\ Head(p.todo) \in EventIds /\ Len(dev[p.from].pending) \in Nat
  BY <1>1
<1>3. PICK a \in 0..Len(dev[p.from].pending) :
        /\ a + Len(p.todo) <= Len(dev[p.from].pending)
        /\ \A k \in 1..Len(p.todo) : p.todo[k] = dev[p.from].pending[a + k]
        /\ \A k \in 1..a : Passed(dev[p.from].pending[k])
  BY DEF Rows, RowOf
<1>4. a \in Nat /\ a + 1 \in 1..Len(dev[p.from].pending)
  BY <1>2, <1>3
<1>5. dev[p.from].pending[a + 1] = Head(p.todo)
  BY <1>2, <1>3
<1>6. a + 1 \in DOMAIN dev[p.from].pending
  BY <1>1, <1>4
<1>7. author[Head(p.todo)] = p.from
  BY <1>1, <1>5, <1>6 DEF Authors
<1> QED BY <1>1, <1>2, <1>3, <1>4, <1>5, <1>7

(* What the server has dealt with stays dealt with.                         *)
LEMMA Learned ==
  ASSUME Types, Types', Positions, Logs, [Next]_vars, NEW e
  PROVE  /\ Recorded(e) => Recorded(e)'
         /\ Answered(e) => Answered(e)'
         /\ Passed(e) => Passed(e)'
<1>1. server.log \in Seq(EventIds) /\ server'.log \in Seq(EventIds)
  BY DEF Types, ServerType
<1>2. Begins(server.log, server'.log)
  BY <1>1, ServerLearns, LongerLog
<1>3. ASSUME Recorded(e) PROVE Recorded(e)'
  <2>1. PICK k \in 1..Len(server.log) : server.log[k] = e
    BY <1>1, <1>3 DEF Recorded, In
  <2>2. k \in 1..Len(server'.log) /\ server'.log[k] = e
    BY <1>1, <1>2, <2>1 DEF Begins
  <2> QED BY <1>1, <2>2 DEF Recorded, In
<1> QED BY <1>3, ServerLearns DEF Answered, Passed

(* A line waits once and is its device's own.                               *)
OwnLines(x) ==
  /\ \A k \in DOMAIN dev[x].pending : author[dev[x].pending[k]] = x
  /\ \A j, k \in DOMAIN dev[x].pending : dev[x].pending[j] = dev[x].pending[k] => j = k

(* Lines stay their device's own and wait once.                             *)
LEMMA AuthorsStep ==
  ASSUME Types, Types', Positions, Logs, Authors, Rows, [Next]_vars
  PROVE  Authors'
<1>a. server.log \in Seq(EventIds) /\ \A x \in Devices : dev[x].pending \in Seq(EventIds)
  BY DEF Types, ServerType, DevType
<1>b. /\ author \in [EventIds -> Devices \cup {Web, None}]
      /\ \A x \in Devices : x # None /\ Web # None
  BY WebAssumption DEF Types
<1>c. ASSUME NEW e \in EventIds, NEW x \in Devices \cup {Web}, author[e] = None,
             author' = [author EXCEPT ![e] = x]
      PROVE  \A f \in EventIds : author[f] # None => author'[f] = author[f]
  BY <1>b, <1>c
<1>d. ASSUME SameLines, \A f \in EventIds : author[f] # None => author'[f] = author[f]
      PROVE  \A x \in Devices : OwnLines(x)'
  <2>1. ASSUME NEW x \in Devices, NEW k \in DOMAIN dev[x].pending
        PROVE  dev[x].pending[k] \in EventIds /\ author[dev[x].pending[k]] = x
    BY <1>a, <2>1 DEF Authors
  <2> QED BY <1>b, <1>d, <2>1 DEF SameLines, OwnLines, Authors
<1>e. ASSUME server'.log = server.log, \A f \in EventIds : author[f] # None => author'[f] = author[f]
      PROVE  \A k \in DOMAIN server'.log : author'[server'.log[k]] # None
  <2>1. \A k \in DOMAIN server.log : server.log[k] \in EventIds
    BY <1>a
  <2> QED BY <1>e, <2>1 DEF Authors
<1>f. ASSUME NEW e \in EventIds, server'.log = Append(server.log, e), author'[e] # None,
             \A f \in EventIds : author[f] # None => author'[f] = author[f]
      PROVE  \A k \in DOMAIN server'.log : author'[server'.log[k]] # None
  <2>1. ASSUME NEW k \in DOMAIN server'.log
        PROVE  server'.log[k] = e \/ (k \in DOMAIN server.log /\ server'.log[k] = server.log[k])
    BY <1>a, <1>f
  <2>2. \A k \in DOMAIN server.log : server.log[k] \in EventIds
    BY <1>a
  <2> QED BY <1>f, <2>1, <2>2 DEF Authors
<1>1. CASE Quiet
  BY <1>1, <1>d, <1>e DEF Quiet, Authors, OwnLines
<1>2. ASSUME NEW d \in Devices, NEW e \in EventIds, RecordsAt(d, e) PROVE Authors'
  <2>1. \A f \in EventIds : author[f] # None => author'[f] = author[f]
    BY <1>2, <1>c DEF RecordsAt
  <2>2. \A k \in DOMAIN server'.log : author'[server'.log[k]] # None
    BY <1>2, <1>e, <2>1 DEF RecordsAt
  <2>3. CASE dev'[d].pending = dev[d].pending
    <3>1. SameLines
      BY <1>2, <2>3 DEF RecordsAt, SameLines
    <3> QED BY <1>d, <2>1, <2>2, <3>1 DEF Authors, OwnLines
  <2>4. CASE dev'[d].pending = Append(dev[d].pending, e)
    <3>1. ASSUME NEW x \in Devices, NEW k \in DOMAIN dev[x].pending
          PROVE  /\ dev[x].pending[k] \in EventIds /\ dev[x].pending[k] # e
                 /\ author'[dev[x].pending[k]] = x
      BY <1>a, <1>b, <1>2, <2>1 DEF Authors, RecordsAt
    <3>2. ASSUME NEW x \in Devices \ {d} PROVE OwnLines(x)'
      BY <1>2, <3>1 DEF RecordsAt, OwnLines, Authors
    <3>3. ASSUME NEW k \in DOMAIN dev'[d].pending
          PROVE  \/ k \in DOMAIN dev[d].pending /\ dev'[d].pending[k] = dev[d].pending[k]
                 \/ k = Len(dev[d].pending) + 1 /\ dev'[d].pending[k] = e
      BY <1>a, <2>4
    <3>4. author'[e] = d
      BY <1>b, <1>2 DEF RecordsAt
    <3>5. OwnLines(d)'
      BY <3>1, <3>3, <3>4 DEF OwnLines, Authors
    <3> QED BY <2>2, <3>2, <3>5 DEF Authors, OwnLines
  <2> QED BY <1>2, <2>3, <2>4 DEF RecordsAt
<1>3. ASSUME NEW e \in EventIds, RecordsWeb(e) PROVE Authors'
  <2>1. \A f \in EventIds : author[f] # None => author'[f] = author[f]
    BY <1>3, <1>c DEF RecordsWeb
  <2>2. author'[e] # None
    BY <1>b, <1>3, WebAssumption DEF RecordsWeb
  <2> QED BY <1>3, <1>d, <1>f, <2>1, <2>2 DEF RecordsWeb, Authors, OwnLines
<1>4. ASSUME NEW p \in pushes, RecordsPush(p) PROVE Authors'
  <2>1. Head(p.todo) \in EventIds /\ author'[Head(p.todo)] # None
    BY <1>b, <1>4, NextToDo DEF RecordsPush
  <2> QED BY <1>4, <1>d, <1>f, <2>1 DEF RecordsPush, Authors, OwnLines
<1>5. ASSUME NEW p \in pushes, Keeps(p) PROVE Authors'
  BY <1>5, <1>d, <1>e DEF Keeps, Authors, OwnLines
<1> QED BY <1>1, <1>2, <1>3, <1>4, <1>5, Shapes

(* An event that nobody recorded is nowhere.                                *)
LEMMA NobodysEvent ==
  ASSUME Types, Authors, NEW e \in EventIds, author[e] = None
  PROVE  /\ ~ Recorded(e)
         /\ \A d \in Devices : \A k \in DOMAIN dev[d].pending : dev[d].pending[k] # e
BY WebAssumption DEF Authors, Recorded, In

(* What the server has recorded after an event was added to its log.        *)
LEMMA RecordedAfter ==
  ASSUME Types, NEW e \in EventIds, server'.log = Append(server.log, e), NEW f
  PROVE  Recorded(f)' <=> Recorded(f) \/ f = e
<1>1. server.log \in Seq(EventIds) /\ Len(server.log) \in Nat
  BY DEF Types, ServerType
<1>2. /\ DOMAIN server.log = 1..Len(server.log) /\ DOMAIN server'.log = 1..(Len(server.log) + 1)
      /\ \A k \in 1..Len(server.log) : server'.log[k] = server.log[k]
      /\ server'.log[Len(server.log) + 1] = e
  BY <1>1
<1>3. \A k \in 1..(Len(server.log) + 1) : k \in 1..Len(server.log) \/ k = Len(server.log) + 1
  BY <1>1
<1>4. Len(server.log) + 1 \in 1..(Len(server.log) + 1) /\ 1..Len(server.log) \subseteq 1..(Len(server.log) + 1)
  BY <1>1
<1> QED BY <1>2, <1>3, <1>4 DEF Recorded, In

(* The lines of a device after a step that records at most one event there. *)
LEMMA LinesAfter ==
  ASSUME Types, NEW d \in Devices, NEW e,
         dev'[d].pending = dev[d].pending \/ dev'[d].pending = Append(dev[d].pending, e),
         NEW k \in DOMAIN dev'[d].pending
  PROVE  /\ Len(dev[d].pending) \in Nat /\ DOMAIN dev[d].pending = 1..Len(dev[d].pending)
         /\ \/ k \in DOMAIN dev[d].pending /\ dev'[d].pending[k] = dev[d].pending[k]
            \/ k = Len(dev[d].pending) + 1 /\ dev'[d].pending[k] = e
<1> DEFINE p == dev[d].pending
<1>1. p \in Seq(EventIds)
  BY DEF Types, DevType
<1>2. Len(p) \in Nat /\ DOMAIN p = 1..Len(p)
  BY <1>1
<1>3. CASE dev'[d].pending = p
  BY <1>2, <1>3
<1>4. CASE dev'[d].pending = Append(p, e)
  <2> HIDE DEF p
  <2>1. p \in Seq(EventIds \cup {e})
    BY <1>1
  <2>2. /\ DOMAIN Append(p, e) = 1..(Len(p) + 1)
        /\ \A j \in 1..Len(p) : Append(p, e)[j] = p[j]
        /\ Append(p, e)[Len(p) + 1] = e
    BY <2>1
  <2>3. k \in 1..Len(p) \/ k = Len(p) + 1
    BY <1>2, <1>4, <2>2
  <2> QED
    BY <1>2, <1>4, <2>2, <2>3 DEF p
<1> QED BY <1>3, <1>4 DEF p

(* Two lines of a device after a step, of which the later one is recorded.  *)
LEMMA EarlierLines ==
  ASSUME Types, Positions, Logs, Authors, [Next]_vars,
         NEW d \in Devices, NEW j \in DOMAIN dev'[d].pending, NEW k \in DOMAIN dev'[d].pending,
         j < k, NEW f, dev'[d].pending[k] = f, Recorded(f)'
  PROVE  /\ j \in DOMAIN dev[d].pending /\ dev'[d].pending[j] = dev[d].pending[j]
         /\ k \in DOMAIN dev[d].pending /\ dev[d].pending[k] = f
<1>1. CASE dev'[d].pending = dev[d].pending
  BY <1>1
<1>2. ASSUME NEW e \in EventIds, RecordsAt(d, e)
      PROVE  k \in DOMAIN dev[d].pending /\ dev'[d].pending[k] = dev[d].pending[k]
  <2>1. ~ Recorded(e)'
    BY <1>2, NobodysEvent DEF RecordsAt, Recorded
  <2>2. dev'[d].pending[k] # e
    BY <2>1
  <2> QED BY <1>2, <2>2, LinesAfter, ZenonT(40) DEF RecordsAt
<1>3. ASSUME NEW e \in EventIds, RecordsAt(d, e)
      PROVE  j \in DOMAIN dev[d].pending /\ dev'[d].pending[j] = dev[d].pending[j]
  <2>1. k \in 1..Len(dev[d].pending) /\ Len(dev[d].pending) \in Nat
    BY <1>2, <1>3, LinesAfter DEF RecordsAt
  <2>2. j # Len(dev[d].pending) + 1
    BY <2>1
  <2> QED BY <1>3, <2>2, LinesAfter DEF RecordsAt
<1>4. ASSUME NEW x \in Devices \ {d}, NEW e \in EventIds, RecordsAt(x, e)
      PROVE  dev'[d].pending = dev[d].pending
  BY <1>4 DEF RecordsAt
<1>5. ASSUME SameLines PROVE dev'[d].pending = dev[d].pending
  BY <1>5 DEF SameLines
<1>6. CASE \E x \in Devices, e \in EventIds : RecordsAt(x, e)
  BY <1>1, <1>2, <1>3, <1>4, <1>6
<1> QED BY <1>1, <1>5, <1>6, Shapes DEF Quiet, RecordsWeb, RecordsPush, Keeps

(* An event that becomes recorded in a step that adds one to the log is the *)
(* one that is added.                                                       *)
LEMMA NewlyRecorded ==
  ASSUME Types, Positions, Logs, Authors, Rows, [Next]_vars,
         NEW d \in Devices, NEW k \in DOMAIN dev[d].pending, NEW f, dev[d].pending[k] = f,
         ~ Recorded(f), Recorded(f)'
  PROVE  \E p \in pushes : RecordsPush(p) /\ f = Head(p.todo)
<1>1. server'.log # server.log
  BY DEF Recorded
<1>2. ASSUME NEW x \in EventIds, RecordsWeb(x) PROVE FALSE
  <2>1. f = x
    BY <1>2, RecordedAfter DEF RecordsWeb
  <2> QED BY <1>2, <2>1, NobodysEvent DEF RecordsWeb
<1>3. PICK p \in pushes : RecordsPush(p)
  BY <1>1, <1>2, Shapes DEF Quiet, RecordsAt, Keeps
<1>4. Head(p.todo) \in EventIds
  BY <1>3, NextToDo DEF RecordsPush
<1>5. PICK x \in EventIds : x = Head(p.todo)
  BY <1>4
<1>6. f = x
  BY <1>3, <1>5, RecordedAfter DEF RecordsPush
<1> QED BY <1>3, <1>5, <1>6

(* The lines before a recorded one stay passed.                             *)
LEMMA PassedBeforeStep ==
  ASSUME Types, Types', Positions, Logs, Authors, Rows, PassedBefore, [Next]_vars
  PROVE  PassedBefore'
<1> SUFFICES ASSUME NEW d \in Devices, NEW j \in DOMAIN dev'[d].pending,
                    NEW k \in DOMAIN dev'[d].pending, j < k,
                    NEW e, dev'[d].pending[j] = e, NEW f, dev'[d].pending[k] = f, Recorded(f)'
             PROVE  Passed(e)'
  BY DEF PassedBefore, Passed, Answered, Recorded, In
<1>1. /\ j \in DOMAIN dev[d].pending /\ dev[d].pending[j] = e
      /\ k \in DOMAIN dev[d].pending /\ dev[d].pending[k] = f
  BY EarlierLines
<1>2. DOMAIN dev[d].pending = 1..Len(dev[d].pending) /\ Len(dev[d].pending) \in Nat
  BY DEF Types, DevType
<1>3. Passed(e)
  <2>1. CASE Recorded(f)
    BY <1>1, <2>1 DEF PassedBefore
  <2>2. CASE ~ Recorded(f)
    <3>1. PICK p \in pushes : RecordsPush(p) /\ f = Head(p.todo)
      BY <1>1, <2>2, NewlyRecorded
    <3>2. p.from = d
      <4>1. author[f] = d
        BY <1>1 DEF Authors
      <4> QED BY <3>1, <4>1, NextToDo DEF RecordsPush
    <3>3. PICK a \in Nat :
            /\ a + 1 \in 1..Len(dev[d].pending) /\ dev[d].pending[a + 1] = f
            /\ \A n \in 1..a : Passed(dev[d].pending[n])
      BY <3>1, <3>2, NextToDo DEF RecordsPush
    <3>4. k = a + 1
      BY <1>1, <1>2, <3>3 DEF Authors
    <3>5. j \in 1..a
      BY <1>1, <1>2, <3>4
    <3> QED BY <1>1, <3>3, <3>5
  <2> QED BY <2>1, <2>2
<1> QED BY <1>3, Learned

(* The server keeps the order of each device.                               *)
LEMMA DeviceOrderStep ==
  ASSUME Types, Types', Positions, Logs, Authors, Rows, PassedBefore, DeviceOrderKept, [Next]_vars
  PROVE  DeviceOrderKept'
<1> SUFFICES ASSUME NEW d \in Devices, NEW j \in DOMAIN dev'[d].pending,
                    NEW k \in DOMAIN dev'[d].pending, j < k,
                    NEW e, dev'[d].pending[j] = e, NEW f, dev'[d].pending[k] = f,
                    {e, f} \cap (server'.kept \cup WithFiles) = {}, Recorded(e)', Recorded(f)'
             PROVE  \E m, n \in DOMAIN server'.log :
                      m < n /\ server'.log[m] = e /\ server'.log[n] = f
  BY DEF DeviceOrderKept, Recorded, In
<1>1. /\ j \in DOMAIN dev[d].pending /\ dev[d].pending[j] = e
      /\ k \in DOMAIN dev[d].pending /\ dev[d].pending[k] = f
  BY EarlierLines
<1>2. e \notin server.kept /\ f \notin server.kept /\ e \notin WithFiles /\ f \notin WithFiles
  BY ServerLearns
<1>3. e # f
  <2>1. DOMAIN dev[d].pending = 1..Len(dev[d].pending) /\ Len(dev[d].pending) \in Nat
    BY DEF Types, DevType
  <2>2. j # k
    BY <1>1, <2>1
  <2> QED BY <1>1, <2>2 DEF Authors
<1>4. server.log \in Seq(EventIds) /\ server'.log \in Seq(EventIds) /\ Len(server.log) \in Nat
  BY DEF Types, ServerType
<1>5. Begins(server.log, server'.log)
  BY <1>4, ServerLearns, LongerLog
<1>6. ASSUME NEW m \in DOMAIN server.log
      PROVE  m \in DOMAIN server'.log /\ server'.log[m] = server.log[m]
  BY <1>4, <1>5 DEF Begins
<1>7. CASE Recorded(e) /\ Recorded(f)
  <2>1. PICK m, n \in DOMAIN server.log : m < n /\ server.log[m] = e /\ server.log[n] = f
    <3>1. {e, f} \cap (server.kept \cup WithFiles) = {}
      BY <1>2
    <3> QED BY <1>1, <1>7, <3>1 DEF DeviceOrderKept
  <2> QED BY <1>6, <2>1
<1>8. CASE Recorded(e) /\ ~ Recorded(f)
  <2>1. PICK m \in DOMAIN server.log : server.log[m] = e
    BY <1>8 DEF Recorded, In
  <2>2. PICK n \in DOMAIN server'.log : server'.log[n] = f
    BY DEF Recorded, In
  <2>3. n \notin DOMAIN server.log
    BY <1>6, <1>8, <2>2 DEF Recorded, In
  <2>4. m < n
    BY <1>4, <2>1, <2>2, <2>3
  <2> QED BY <1>6, <2>1, <2>2, <2>4
<1>9. CASE ~ Recorded(e)
  <2>1. ~ Recorded(f)
    <3>1. ASSUME Recorded(f) PROVE Passed(e)
      BY <1>1, <3>1 DEF PassedBefore
    <3> QED BY <1>2, <1>9, <3>1 DEF Passed, Answered
  <2>2. PICK x \in EventIds : server'.log = Append(server.log, x)
    <3>1. server'.log # server.log
      BY <1>9 DEF Recorded
    <3> QED BY <3>1, ServerLearns
  <2>3. e = x /\ f = x
    BY <1>9, <2>1, <2>2, RecordedAfter
  <2> QED BY <1>3, <2>3
<1> QED BY <1>7, <1>8, <1>9

-----------------------------------------------------------------------------
(* Pushes and settlements. *)

(* The lines that were there before a step are there after it.              *)
LEMMA LinesStay ==
  ASSUME Types, Positions, Logs, [Next]_vars, NEW d \in Devices
  PROVE  /\ Len(dev[d].pending) \in Nat /\ Len(dev'[d].pending) \in Nat
         /\ Len(dev[d].pending) <= Len(dev'[d].pending)
         /\ \A k \in 1..Len(dev[d].pending) : dev'[d].pending[k] = dev[d].pending[k]
<1>1. dev[d].pending \in Seq(EventIds)
  BY DEF Types, DevType
<1>2. dev'[d].pending = dev[d].pending \/ \E e \in EventIds : dev'[d].pending = Append(dev[d].pending, e)
  <2>1. ASSUME NEW x \in Devices, NEW e \in EventIds, RecordsAt(x, e)
        PROVE  dev'[d].pending = dev[d].pending \/ dev'[d].pending = Append(dev[d].pending, e)
    <3>1. CASE x = d
      BY <2>1, <3>1 DEF RecordsAt
    <3>2. CASE x # d
      BY <2>1, <3>2 DEF RecordsAt
    <3> QED BY <3>1, <3>2
  <2>2. ASSUME SameLines PROVE dev'[d].pending = dev[d].pending
    BY <2>2 DEF SameLines
  <2> QED BY <2>1, <2>2, Shapes DEF Quiet, RecordsWeb, RecordsPush, Keeps
<1> QED BY <1>1, <1>2

(* The outbox a sync began with stays the same.                             *)
LEMMA OutboxStays ==
  ASSUME Types, Positions, Logs, [Next]_vars, NEW d \in Devices,
         run'[d].from = run[d].from, run'[d].upto = run[d].upto
  PROVE  Outbox(d)' = Outbox(d)
<1>1. /\ run[d].from \in Nat /\ run[d].upto \in Nat /\ run[d].upto <= Len(dev[d].pending)
  BY DEF Types, RunType, Positions, Fits
<1>2. ASSUME NEW k \in (run[d].from + 1)..run[d].upto PROVE k \in 1..Len(dev[d].pending)
  BY <1>1, LinesStay
<1>3. \A k \in (run[d].from + 1)..run[d].upto : dev'[d].pending[k] = dev[d].pending[k]
  BY <1>2, LinesStay
<1> QED BY <1>3 DEF Outbox

(* What a step leaves of a device's files.                                  *)
FilesKept(d) ==
  /\ dev[d].rejected \subseteq dev'[d].rejected
  /\ dev'[d].rejected = dev[d].rejected \/ SettleRejected(d)
  /\ dev'[d].handled = dev[d].handled \/ SettleState(d)
  /\ dev[d].kind = "local" =>
       /\ dev'[d].kind = "local"
       /\ \/ dev'[d].log = dev[d].log
          \/ \E e \in EventIds : dev'[d].log = Append(dev[d].log, e)

(* No step takes a settled thing back.                                      *)
LEMMA FilesStay ==
  ASSUME Types, Positions, [Next]_vars, NEW d \in Devices
  PROVE  FilesKept(d)
<1> USE DEF FilesKept
<1>0. CASE dev' = dev
  BY <1>0
<1>a. ASSUME NEW x \in Devices, OthersKept(x), x # d PROVE dev'[d] = dev[d]
  BY <1>a DEF OthersKept
<1>b. dev[d].kind = "local" => run[d].pc = "idle"
  BY DEF Positions, Fits
<1>1. ASSUME NEW x \in Devices, Recording(x)
      PROVE  FilesKept(d)
  <2>1. OthersKept(x)
    BY <1>1, StartEffect, LinkEffect, CrashBeforeLinkEffect, OpenRemoteEffect, RecordEffect
       DEF Recording, Becomes
  <2>2. CASE x # d
    BY <1>a, <2>1, <2>2
  <2>3. CASE x = d
    <3>1. CASE Start(d)
      BY <3>1, StartEffect DEF Start, Becomes
    <3>2. CASE Link(d)
      BY <3>2, LinkEffect DEF Link, Becomes
    <3>3. CASE CrashBeforeLink(d)
      BY <3>3, CrashBeforeLinkEffect DEF CrashBeforeLink, Becomes
    <3>4. CASE OpenRemote(d)
      BY <3>4, OpenRemoteEffect DEF OpenRemote
    <3>5. CASE \E e \in EventIds : Record(d, e)
      BY <3>5, RecordEffect
    <3> QED BY <1>1, <2>3, <3>1, <3>2, <3>3, <3>4, <3>5 DEF Recording
  <2> QED BY <2>2, <2>3
<1>2. ASSUME NEW x \in Devices, Syncing(x)
      PROVE  FilesKept(d)
  <2>1. OthersKept(x)
    BY <1>2, BeginEffect, RegisterEffect, PushEffect, PullEffect, SettleLogEffect,
       SettleRejectedEffect, SettleStateEffect DEF Syncing
  <2>2. CASE x # d
    BY <1>a, <2>1, <2>2
  <2>3. CASE x = d
    <3>1. CASE SettleLog(d)
      BY <1>b, <3>1, SettleLogEffect DEF KeepsLines
    <3>2. CASE SettleRejected(d)
      BY <1>b, <3>2, SettleRejectedEffect DEF KeepsLines
    <3>3. CASE SettleState(d)
      BY <1>b, <3>3, SettleStateEffect DEF KeepsLines
    <3> QED BY <1>2, <2>3, <3>1, <3>2, <3>3 DEF Syncing, Begin, Register, Push, Pull
  <2> QED BY <2>2, <2>3
<1>3. ASSUME NEW x \in Devices, Failing(x) PROVE dev' = dev
  BY <1>3, FailingEffect
<1>4. ASSUME NEW p \in pushes, Handling(p) \/ LosePush(p) PROVE dev' = dev
  BY <1>4 DEF Handling, CheckConflicts, RecordPushed, RefusePushed, KeepConflict, Answer, LosePush
<1>5. ASSUME NEW e \in EventIds, RecordOnServer(e) PROVE dev' = dev
  BY <1>5 DEF RecordOnServer
<1>6. CASE UNCHANGED vars
  BY <1>0, <1>6 DEF vars
<1> HIDE DEF FilesKept
<1> QED BY <1>0, <1>1, <1>2, <1>3, <1>4, <1>5, <1>6 DEF Next

(* A push after a step: the same, a step further, or new.                   *)
Carried(p, q) ==
  /\ q.from = p.from /\ q.todo = p.todo /\ q.refused = p.refused
  /\ q.awaited = p.awaited

Forward(p, q) ==
  /\ p.todo # << >>
  /\ q.from = p.from /\ q.todo = Tail(p.todo) /\ q.awaited = p.awaited
  /\ p.refused \subseteq q.refused /\ q.refused \subseteq p.refused \cup WithFiles
  /\ Answered(Head(p.todo))' \/ Head(p.todo) \in q.refused
  /\ Passed(Head(p.todo))'

Fresh(d, q) ==
  /\ q.from = d /\ q.refused = {} /\ q.awaited
  /\ q.todo = SubSeq(dev[d].pending, run[d].from + 1, run[d].upto)

(* What the server's side of a push, or losing it, does to the pushes.      *)
LEMMA HandlingShapes ==
  ASSUME Types, NEW p \in pushes, Handling(p) \/ LosePush(p)
  PROVE  \/ pushes' = pushes \ {p}
         \/ /\ run' = run
            /\ \E q : pushes' = (pushes \ {p}) \cup {q} /\ (Carried(p, q) \/ Forward(p, q))
<1>a. p \in PushType
  BY DEF Types
<1>b. /\ NextEvent(p).from = p.from /\ NextEvent(p).todo = Tail(p.todo)
      /\ NextEvent(p).refused = p.refused /\ NextEvent(p).awaited = p.awaited
  BY <1>a DEF PushType, NextEvent
<1>c. ASSUME p.todo # << >>, Answered(Head(p.todo))' PROVE Forward(p, NextEvent(p))
  BY <1>b, <1>c DEF Forward, Passed
<1>d. ASSUME NEW at PROVE Carried(p, [p EXCEPT !.at = at])
  BY <1>a DEF PushType, Carried
<1>1. CASE CheckConflicts(p)
  <2>1. p.todo # << >> /\ run' = run /\ server' = server
    BY <1>1 DEF CheckConflicts
  <2>2. CASE Head(p.todo) \in server.kept
    <3>1. Answered(Head(p.todo))'
      BY <2>1, <2>2 DEF Answered
    <3>2. pushes' = (pushes \ {p}) \cup {NextEvent(p)}
      BY <1>1, <2>2 DEF CheckConflicts, Finish
    <3> QED BY <1>c, <2>1, <3>1, <3>2
  <2>3. CASE Head(p.todo) \notin server.kept
    <3>1. pushes' = (pushes \ {p}) \cup {[p EXCEPT !.at = "record"]}
      BY <1>1, <2>3 DEF CheckConflicts, Finish
    <3> QED BY <1>d, <2>1, <3>1
  <2> QED BY <2>2, <2>3
<1>2. CASE RecordPushed(p)
  <2>1. p.todo # << >> /\ run' = run
    BY <1>2 DEF RecordPushed
  <2>2. CASE IsRetry(Head(p.todo)) /\ Finish(p, NextEvent(p)) /\ server' = server
    <3>1. Answered(Head(p.todo))'
      BY <2>2 DEF Answered, Recorded, IsRetry
    <3> QED BY <1>c, <2>1, <2>2, <3>1 DEF Finish
  <2>3. CASE Finish(p, NextEvent(p)) /\ server' = [server EXCEPT !.log = Append(@, Head(p.todo))]
    <3>1. Head(p.todo) \in EventIds
      BY <1>a, <2>1 DEF PushType
    <3>2. server'.log = Append(server.log, Head(p.todo))
      BY <2>3 DEF Types, ServerType
    <3>3. PICK e \in EventIds : e = Head(p.todo)
      BY <3>1
    <3>4. Recorded(e)'
      BY <3>2, <3>3, RecordedAfter
    <3>5. Answered(Head(p.todo))'
      BY <3>3, <3>4 DEF Answered
    <3> QED BY <1>c, <2>1, <2>3, <3>5 DEF Finish
  <2>4. CASE Finish(p, [p EXCEPT !.at = "keep"])
    BY <1>d, <2>1, <2>4 DEF Finish
  <2> QED BY <1>2, <2>2, <2>3, <2>4 DEF RecordPushed
<1>3. CASE RefusePushed(p)
  <2> DEFINE q == [NextEvent(p) EXCEPT !.refused = @ \cup {Head(p.todo)}]
  <2>1. p.todo # << >> /\ run' = run /\ Head(p.todo) \in WithFiles
    BY <1>3 DEF RefusePushed
  <2>2. pushes' = (pushes \ {p}) \cup {q}
    BY <1>3 DEF RefusePushed, Finish
  <2>3. /\ q.from = p.from /\ q.todo = Tail(p.todo) /\ q.awaited = p.awaited
        /\ q.refused = p.refused \cup {Head(p.todo)}
    BY <1>a DEF PushType, NextEvent
  <2>4. Forward(p, q)
    <3> HIDE DEF q
    <3> QED BY <2>1, <2>3 DEF Forward, Passed
  <2> QED BY <2>1, <2>2, <2>4
<1>4. CASE KeepConflict(p)
  <2>1. p.todo # << >> /\ run' = run /\ pushes' = (pushes \ {p}) \cup {NextEvent(p)}
    BY <1>4 DEF KeepConflict, Finish
  <2>2. server'.kept = server.kept \cup {Head(p.todo)}
    BY <1>4 DEF KeepConflict, Types, ServerType
  <2>3. Answered(Head(p.todo))'
    BY <2>2 DEF Answered
  <2> QED BY <1>c, <2>1, <2>3
<1>5. CASE Answer(p) \/ LosePush(p)
  BY <1>5 DEF Answer, LosePush
<1> QED BY <1>1, <1>2, <1>3, <1>4, <1>5 DEF Handling

(* Which steps change the pushes.                                           *)
LEMMA PushShapes ==
  ASSUME Types, [Next]_vars
  PROVE  \/ pushes' = pushes
         \/ \E d \in Devices : Push(d) \/ GiveUp(d)
         \/ \E p \in pushes : Handling(p) \/ LosePush(p)
<1>1. ASSUME NEW d \in Devices, Recording(d) \/ Syncing(d) \/ Failing(d)
      PROVE  pushes' = pushes \/ Push(d) \/ GiveUp(d)
  BY <1>1 DEF Recording, Start, Link, CrashBeforeLink, OpenRemote, Record, Syncing, Begin, Register,
              Pull, SettleLog, SettleRejected, SettleState, Failing, RegisterUnanswered, CrashSettling
<1> QED BY <1>1, SMTT(30) DEF Next, vars, RecordOnServer

(* Where the pushes of the next state come from.                            *)
LEMMA PushOrigin ==
  ASSUME Types, Types', Awaiting, [Next]_vars, NEW q \in pushes'
  PROVE  \/ \E p \in pushes : (Carried(p, q) \/ Forward(p, q)) /\ (run' = run \/ p = q)
         \/ \E p \in pushes : /\ q.from = p.from /\ q.todo = p.todo
                             /\ q.refused = p.refused /\ ~ q.awaited
         \/ \E d \in Devices : Push(d) /\ Fresh(d, q)
<1>a. ASSUME q \in pushes PROVE \E p \in pushes : Carried(p, q) /\ p = q
  BY <1>a DEF Carried
<1>1. CASE pushes' = pushes
  BY <1>1, <1>a
<1>2. ASSUME NEW d \in Devices, Push(d)
      PROVE  q \in pushes \/ Fresh(d, q)
  BY <1>2 DEF Push, Fresh
<1>3. ASSUME NEW d \in Devices, GiveUp(d)
      PROVE  \/ q \in pushes
             \/ \E p \in pushes : /\ q.from = p.from /\ q.todo = p.todo
                                 /\ q.refused = p.refused /\ ~ q.awaited
  <2>1. PICK p \in pushes : q = IF p.from = d THEN [p EXCEPT !.awaited = FALSE] ELSE p
    BY <1>3 DEF GiveUp
  <2>2. p \in PushType
    BY DEF Types
  <2> QED BY <2>1, <2>2 DEF PushType
<1>4. ASSUME NEW p \in pushes, Handling(p) \/ LosePush(p)
      PROVE  q \in pushes \/ (run' = run /\ (Carried(p, q) \/ Forward(p, q)))
  BY <1>4, HandlingShapes
<1> QED BY <1>1, <1>2, <1>3, <1>4, <1>a, PushShapes

(* An event in a sequence is its first or in the rest of it.                *)
LEMMA InTail ==
  ASSUME NEW ids \in Seq(EventIds), NEW e, In(e, ids), e # Head(ids)
  PROVE  In(e, Tail(ids))
<1>1. PICK k \in 1..Len(ids) : ids[k] = e
  BY DEF In
<1>2. k # 1 /\ Len(ids) \in Nat
  BY <1>1
<1>3. k - 1 \in 1..Len(Tail(ids)) /\ Tail(ids)[k - 1] = ids[k]
  BY <1>1, <1>2
<1>4. k - 1 \in DOMAIN Tail(ids)
  BY <1>1, <1>2, <1>3
<1> QED BY <1>1, <1>3, <1>4 DEF In

(* A line is in the part of the lines it lies in.                           *)
LEMMA InSubSeq ==
  ASSUME NEW ids \in Seq(EventIds), NEW m \in Nat, NEW n \in Nat, n <= Len(ids),
         NEW k \in (m + 1)..n
  PROVE  In(ids[k], SubSeq(ids, m + 1, n))
<1>1. /\ SubSeq(ids, m + 1, n) \in Seq(EventIds) /\ Len(SubSeq(ids, m + 1, n)) = n - m
      /\ k - m \in 1..(n - m)
  OBVIOUS
<1>2. SubSeq(ids, m + 1, n)[k - m] = ids[(m + 1) + (k - m) - 1]
  BY <1>1
<1>3. (m + 1) + (k - m) - 1 = k
  OBVIOUS
<1>4. k - m \in DOMAIN SubSeq(ids, m + 1, n)
  BY <1>1
<1> QED BY <1>2, <1>3, <1>4 DEF In

(* A device that waits for an answer does nothing else.                     *)
LEMMA WaitingDevice ==
  ASSUME Types, Positions, Awaiting, [Next]_vars, NEW p \in pushes, NEW q \in pushes',
         p.awaited, q.awaited, q.from = p.from
  PROVE  run'[p.from] = run[p.from]
<1>1. p.from \in Devices /\ run[p.from].pc = "pushing"
  BY DEF Types, PushType, Awaiting, Awaited
<1>2. ASSUME NEW d \in Devices, OthersKept(d), d # p.from PROVE run'[p.from] = run[p.from]
  BY <1>1, <1>2 DEF OthersKept
<1>3. ASSUME NEW d \in Devices, Recording(d) PROVE run' = run
  BY <1>3 DEF Recording, Start, Link, CrashBeforeLink, OpenRemote, Record
<1>4. ASSUME NEW d \in Devices, Syncing(d) PROVE OthersKept(d) /\ d # p.from
  <2>1. OthersKept(d)
    BY <1>4, BeginEffect, RegisterEffect, PushEffect, PullEffect, SettleLogEffect,
       SettleRejectedEffect, SettleStateEffect DEF Syncing
  <2>2. run[d].pc # "pushing"
    BY <1>4 DEF Syncing, Begin, Register, Push, Pull, SettleLog, SettleRejected, SettleState
  <2> QED BY <1>1, <2>1, <2>2
<1>5. ASSUME NEW d \in Devices, Failing(d) PROVE OthersKept(d) /\ d # p.from
  <2>1. OthersKept(d)
    BY <1>5, FailingEffect
  <2>2. CASE RegisterUnanswered(d) \/ CrashSettling(d)
    <3>1. run[d].pc # "pushing"
      BY <2>2 DEF RegisterUnanswered, CrashSettling, Locked, Settling
    <3> QED BY <1>1, <2>1, <3>1
  <2>3. CASE GiveUp(d)
    <3>1. PICK r \in pushes : q = IF r.from = d THEN [r EXCEPT !.awaited = FALSE] ELSE r
      BY <2>3 DEF GiveUp
    <3>2. r \in PushType
      BY DEF Types
    <3>3. r.from # d
      BY <3>1, <3>2 DEF PushType
    <3> QED BY <2>1, <3>1, <3>3
  <2> QED BY <1>5, <2>2, <2>3 DEF Failing
<1>6. ASSUME NEW r \in pushes, Handling(r) \/ LosePush(r) PROVE run'[p.from] = run[p.from]
  <2>1. CASE run' = run
    BY <2>1
  <2>2. CASE run' # run
    <3>1. /\ pushes' = pushes \ {r} /\ r.awaited /\ OthersKept(r.from)
      BY <1>6, <2>2, AnswerEffect, LosePushEffect
         DEF Handling, CheckConflicts, RecordPushed, RefusePushed, KeepConflict, Answer, LosePush
    <3>2. r.from # p.from
      BY <3>1 DEF Awaiting
    <3> QED BY <1>1, <3>1, <3>2 DEF OthersKept
  <2> QED BY <2>1, <2>2
<1> QED BY <1>2, <1>3, <1>4, <1>5, <1>6 DEF Next, vars, RecordOnServer

(* One push of a device is awaited at most.                                 *)
LEMMA OneAwaited ==
  ASSUME Types, Types', Awaiting, [Next]_vars
  PROVE  \A q, r \in pushes' : q.awaited /\ r.awaited /\ q.from = r.from => q = r
<1>1. CASE pushes' \subseteq pushes
  BY <1>1 DEF Awaiting
<1>2. ASSUME NEW d \in Devices, Push(d)
      PROVE  \A q, r \in pushes' : q.awaited /\ r.awaited /\ q.from = r.from => q = r
  <2>1. PICK n : pushes' = pushes \cup {n} /\ n.from = d
    <3> DEFINE n == [from |-> d, todo |-> SubSeq(dev[d].pending, run[d].from + 1, run[d].upto),
                     at |-> "check", refused |-> {}, awaited |-> TRUE]
    <3>1. pushes' = pushes \cup {n}
      BY <1>2 DEF Push
    <3>2. n.from = d
      OBVIOUS
    <3> HIDE DEF n
    <3> QED BY <3>1, <3>2
  <2>2. \A q \in pushes : q.awaited => q.from # d
    BY <1>2 DEF Push, Awaiting, Awaited
  <2> QED BY <2>1, <2>2 DEF Awaiting
<1>3. ASSUME NEW d \in Devices, GiveUp(d)
      PROVE  \A q, r \in pushes' : q.awaited /\ r.awaited /\ q.from = r.from => q = r
  <2>1. ASSUME NEW q \in pushes', q.awaited PROVE q \in pushes
    <3>1. PICK p \in pushes : q = IF p.from = d THEN [p EXCEPT !.awaited = FALSE] ELSE p
      BY <1>3 DEF GiveUp
    <3>2. p \in PushType
      BY DEF Types
    <3> QED BY <2>1, <3>1, <3>2 DEF PushType
  <2> QED BY <2>1 DEF Awaiting
<1>4. ASSUME NEW p \in pushes, NEW n, pushes' = (pushes \ {p}) \cup {n}, Carried(p, n) \/ Forward(p, n)
      PROVE  \A q, r \in pushes' : q.awaited /\ r.awaited /\ q.from = r.from => q = r
  <2>1. n.from = p.from /\ n.awaited = p.awaited
    BY <1>4 DEF Carried, Forward
  <2> QED BY <1>4, <2>1 DEF Awaiting
<1> QED BY <1>1, <1>2, <1>3, <1>4, PushShapes, HandlingShapes

(* What a device waits for stays in its push or is answered.                *)
LEMMA AwaitingStep ==
  ASSUME Types, Types', Positions, Logs, Awaiting, [Next]_vars
  PROVE  Awaiting'
<1>1. ASSUME NEW q \in pushes', q.awaited,
             NEW p \in pushes, Carried(p, q) \/ Forward(p, q)
      PROVE  Awaited(q)'
  <2>1. p.awaited /\ q.from = p.from /\ p.from \in Devices /\ p.todo \in Seq(EventIds)
    BY <1>1 DEF Carried, Forward, Types, PushType
  <2>2. Awaited(p) /\ run'[q.from] = run[q.from]
    BY <1>1, <2>1, WaitingDevice DEF Awaiting
  <2>3. Outbox(q.from)' = Outbox(q.from)
    BY <2>1, <2>2, OutboxStays
  <2>4. ASSUME NEW e \in Outbox(q.from) PROVE In(e, q.todo) \/ Answered(e)' \/ e \in q.refused
    <3>1. In(e, p.todo) \/ Answered(e)' \/ e \in p.refused
      BY <2>1, <2>2, <2>4, Learned DEF Awaited
    <3>2. CASE Carried(p, q)
      BY <3>1, <3>2 DEF Carried
    <3>3. CASE Forward(p, q)
      <4>1. ASSUME In(e, p.todo), e # Head(p.todo) PROVE In(e, Tail(p.todo))
        BY <2>1, <4>1, InTail
      <4> QED BY <3>1, <3>3, <4>1 DEF Forward
    <3> QED BY <1>1, <3>2, <3>3
  <2> QED BY <2>1, <2>2, <2>3, <2>4 DEF Awaited
<1>2. ASSUME NEW d \in Devices, Push(d), NEW q, Fresh(d, q) PROVE Awaited(q)'
  <2>1. q.from = d /\ q.todo = SubSeq(dev[d].pending, run[d].from + 1, run[d].upto)
    BY <1>2 DEF Fresh
  <2>2. GoesOn(d, "pushing")
    BY <1>2, PushEffect
  <2>3. Outbox(d)' = Outbox(d)
    BY <2>2, OutboxStays DEF GoesOn
  <2>4. ASSUME NEW e \in Outbox(d) PROVE In(e, q.todo)
    <3>1. PICK k \in (run[d].from + 1)..run[d].upto : e = dev[d].pending[k]
      BY <2>4 DEF Outbox
    <3>2. /\ dev[d].pending \in Seq(EventIds) /\ run[d].from \in Nat /\ run[d].upto \in Nat
          /\ run[d].upto <= Len(dev[d].pending)
      BY DEF Types, DevType, RunType, Positions, Fits
    <3> QED BY <2>1, <3>1, <3>2, InSubSeq
  <2> QED BY <2>1, <2>2, <2>3, <2>4 DEF Awaited, GoesOn
<1>3. \A q \in pushes' : q.awaited => Awaited(q)'
  BY <1>1, <1>2, PushOrigin
<1> QED BY <1>3, OneAwaited DEF Awaiting

(* How the sync of a device can move.                                       *)
Answers(d) ==
  \E p \in pushes : /\ p.from = d /\ p.awaited /\ p.todo = << >>
                   /\ GoesOn(d, "pull") /\ run'[d].refused = p.refused

Moves(d) ==
  \/ run'[d] = run[d]
  \/ /\ run'[d].pc \in {"idle", "register", "push", "pushing"}
     /\ run'[d].refused = {} \/ run'[d].refused = run[d].refused
  \/ /\ run'[d].pc = "pull" /\ ~ run'[d].upto > run'[d].from
     /\ run'[d].refused = {} \/ run'[d].refused = run[d].refused
  \/ Answers(d)
  \/ /\ run[d].pc = "pull" /\ GoesOn(d, "settle log") /\ run'[d].refused = run[d].refused
  \/ /\ run[d].pc = "settle log" /\ GoesOn(d, "settle rejected")
     /\ run'[d].refused = run[d].refused
  \/ SettleRejected(d) /\ run'[d].refused = run[d].refused

(* Every step moves the sync of a device in one of these ways.              *)
LEMMA RunMoves ==
  ASSUME Types, Positions, [Next]_vars, NEW d \in Devices
  PROVE  Moves(d)
<1>a. CASE run'[d] = run[d]
  BY <1>a DEF Moves
<1>b. ASSUME NEW x \in Devices, OthersKept(x), x # d PROVE Moves(d)
  BY <1>b DEF OthersKept, Moves
<1>c. ASSUME Stops(d) PROVE Moves(d)
  BY <1>c DEF Stops, Moves
<1>1. ASSUME NEW x \in Devices, Recording(x) PROVE run' = run
  BY <1>1 DEF Recording, Start, Link, CrashBeforeLink, OpenRemote, Record
<1>2. ASSUME NEW x \in Devices, Syncing(x) PROVE Moves(d)
  <2>1. OthersKept(x)
    BY <1>2, BeginEffect, RegisterEffect, PushEffect, PullEffect, SettleLogEffect,
       SettleRejectedEffect, SettleStateEffect DEF Syncing
  <2>2. CASE x = d
    <3>1. CASE Begin(d)
      BY <3>1, BeginEffect DEF Moves
    <3>2. CASE Register(d)
      BY <3>2, RegisterEffect DEF Moves, GoesOn
    <3>3. CASE Push(d)
      BY <3>3, PushEffect DEF Moves, GoesOn
    <3>4. CASE Pull(d)
      BY <3>4, <1>c, PullEffect DEF Moves
    <3>5. CASE SettleLog(d)
      BY <3>5, <1>c, SettleLogEffect DEF Moves
    <3>6. CASE SettleRejected(d)
      BY <3>6, SettleRejectedEffect DEF Moves
    <3>7. CASE SettleState(d)
      BY <3>7, <1>c, SettleStateEffect
    <3> QED BY <1>2, <2>2, <3>1, <3>2, <3>3, <3>4, <3>5, <3>6, <3>7 DEF Syncing
  <2> QED BY <1>b, <2>1, <2>2
<1>3. ASSUME NEW x \in Devices, Failing(x) PROVE Moves(d)
  BY <1>3, <1>b, <1>c, FailingEffect
<1>4. ASSUME NEW p \in pushes, Handling(p) \/ LosePush(p) PROVE Moves(d)
  <2>0. p.from \in Devices
    BY DEF Types, PushType
  <2>1. CASE run' = run
    BY <1>a, <2>1
  <2>2. CASE Answer(p)
    <3>1. p.todo = << >>
      BY <2>2 DEF Answer
    <3>2. CASE p.from = d
      BY <1>a, <2>2, <3>1, <3>2, AnswerEffect DEF Moves, Answers
    <3> QED BY <1>b, <2>0, <2>2, <3>2, AnswerEffect
  <2>3. CASE LosePush(p)
    BY <1>a, <1>b, <1>c, <2>0, <2>3, LosePushEffect
  <2> QED BY <1>4, <2>1, <2>2, <2>3
        DEF Handling, CheckConflicts, RecordPushed, RefusePushed, KeepConflict
<1> QED BY <1>a, <1>1, <1>2, <1>3, <1>4 DEF Next, vars, RecordOnServer

(* Only events with files are refused.                                      *)
LEMMA RefusalsStep ==
  ASSUME Types, Types', Positions, Awaiting, Refusals, [Next]_vars
  PROVE  Refusals'
<1>1. ASSUME NEW q \in pushes' PROVE q.refused \subseteq WithFiles
  BY PushOrigin DEF Refusals, Carried, Forward, Fresh
<1>2. ASSUME NEW d \in Devices PROVE dev'[d].rejected \subseteq WithFiles
  <2>1. dev'[d].rejected = dev[d].rejected \/ dev'[d].rejected = dev[d].rejected \cup run[d].refused
    BY FilesStay, SettleRejectedEffect DEF FilesKept
  <2> QED BY <2>1 DEF Refusals
<1>3. ASSUME NEW d \in Devices PROVE run'[d].refused \subseteq WithFiles
  BY RunMoves DEF Moves, Answers, Refusals
<1> QED BY <1>1, <1>2, <1>3 DEF Refusals

(* The lines from one position to another.                                  *)
LEMMA PartOfLines ==
  ASSUME NEW ids \in Seq(EventIds), NEW m \in Nat, NEW n \in Nat, m <= n, n <= Len(ids)
  PROVE  /\ Len(SubSeq(ids, m + 1, n)) = n - m
         /\ \A k \in 1..(n - m) : SubSeq(ids, m + 1, n)[k] = ids[(m + 1) + k - 1]
OBVIOUS

(* Lines in a row stay in a row.                                            *)
IsRow(d, todo, a) ==
  /\ Len(todo) \in Nat /\ a + Len(todo) <= Len(dev[d].pending)
  /\ \A k \in 1..Len(todo) : todo[k] = dev[d].pending[a + k]

WillHavePassed(d, a) == \A k \in 1..a : \A e : e = dev[d].pending[k] => Passed(e)'

(* Lines in a row after lines that will have passed are still to do.        *)
LEMMA RowStays ==
  ASSUME Types, Positions, Logs, [Next]_vars,
         NEW d \in Devices, NEW q, q.from = d,
         NEW a \in Nat, IsRow(d, q.todo, a), WillHavePassed(d, a)
  PROVE  RowOf(q)'
<1> USE DEF IsRow, WillHavePassed
<1>1. /\ Len(dev[d].pending) \in Nat /\ Len(dev'[d].pending) \in Nat
      /\ Len(dev[d].pending) <= Len(dev'[d].pending)
  BY LinesStay
<1>2. a \in 0..Len(dev'[d].pending) /\ a + Len(q.todo) <= Len(dev'[d].pending)
  BY <1>1, SMTT(30)
<1>3. ASSUME NEW k \in 1..Len(q.todo) PROVE q.todo[k] = dev'[d].pending[a + k]
  <2>1. a + k \in 1..Len(dev[d].pending)
    BY <1>1
  <2> QED BY <2>1, LinesStay
<1>4. ASSUME NEW k \in 1..a PROVE Passed(dev[d].pending[k])'
  <2>1. k \in 1..Len(dev[d].pending)
    BY <1>1
  <2>2. dev'[d].pending[k] = dev[d].pending[k]
    BY <2>1, LinesStay
  <2>3. \A e : e = dev'[d].pending[k] => Passed(e)'
    BY <2>2
  <2> QED BY <2>3 DEF Passed, Answered, Recorded, In
<1> QED BY <1>2, <1>3, <1>4 DEF RowOf

(* What is to do stays lines of the device after lines that were passed.    *)
LEMMA RowsStep ==
  ASSUME Types, Types', Positions, Logs, Refusals, Awaiting, Settlement, Rows, [Next]_vars
  PROVE  Rows'
<1>1. ASSUME NEW d \in Devices, NEW k \in 1..dev'[d].handled
      PROVE  \A e : e = dev'[d].pending[k] => Passed(e)'
  <2>1. ASSUME k \in 1..dev[d].handled, NEW e, e = dev'[d].pending[k] PROVE Passed(e)'
    <3>1. dev[d].handled \in Nat /\ dev[d].handled <= Len(dev[d].pending)
      BY DEF Types, DevType, Positions, Fits
    <3>2. k \in 1..Len(dev[d].pending)
      BY <2>1, <3>1, LinesStay
    <3>3. e = dev[d].pending[k]
      BY <2>1, <3>2, LinesStay
    <3> QED BY <2>1, <3>3, Learned DEF Rows
  <2>2. ASSUME k \notin 1..dev[d].handled, NEW e, e = dev'[d].pending[k] PROVE Passed(e)'
    <3>1. SettleState(d)
      BY <2>2, FilesStay DEF FilesKept
    <3>2. /\ dev'[d].handled = run[d].upto /\ dev'[d].pending = dev[d].pending
          /\ run[d].pc = "settle state"
      BY <3>1, SettleStateEffect DEF KeepsLines
    <3>3. run[d].from = dev[d].handled /\ run[d].from \in Nat /\ run[d].upto \in Nat
      BY <3>2 DEF Positions, Fits, Types, RunType
    <3>4. k \in (run[d].from + 1)..run[d].upto
      <4>1. k \in 1..run[d].upto /\ k \notin 1..run[d].from
        BY <2>2, <3>2, <3>3
      <4>2. k \in Int /\ k >= 1 /\ k <= run[d].upto /\ ~ k <= run[d].from
        BY <3>3, <4>1
      <4> QED BY <3>3, <4>2
    <3>5. e \in Outbox(d)
      BY <2>2, <3>2, <3>4 DEF Outbox
    <3>6. Passed(e)
      BY <3>2, <3>5 DEF Settlement, Settled, Refusals, Passed
    <3> QED BY <3>6, Learned
  <2> QED BY <2>1, <2>2
<1>2. ASSUME NEW p \in pushes, NEW q \in pushes', q.from = p.from, q.todo = p.todo
      PROVE  RowOf(q)'
  <2>1. p.from \in Devices
    BY DEF Types, PushType
  <2>2. PICK a \in 0..Len(dev[p.from].pending) :
          /\ a + Len(p.todo) <= Len(dev[p.from].pending)
          /\ \A k \in 1..Len(p.todo) : p.todo[k] = dev[p.from].pending[a + k]
          /\ \A k \in 1..a : Passed(dev[p.from].pending[k])
    BY DEF Rows, RowOf
  <2>3. WillHavePassed(p.from, a)
    BY <2>2, Learned DEF WillHavePassed
  <2>4. a \in Nat /\ Len(p.todo) \in Nat
    BY <2>2 DEF Types, PushType
  <2>5. IsRow(p.from, q.todo, a)
    BY <1>2, <2>2, <2>4 DEF IsRow
  <2> QED BY <1>2, <2>1, <2>3, <2>4, <2>5, RowStays
<1>3. ASSUME NEW p \in pushes, NEW q \in pushes', Forward(p, q) PROVE RowOf(q)'
  <2>1. /\ p.from \in Devices /\ p.todo \in Seq(EventIds) /\ p.todo # << >>
        /\ q.from = p.from /\ q.todo = Tail(p.todo) /\ Passed(Head(p.todo))'
    BY <1>3 DEF Types, PushType, Forward
  <2>2. PICK a \in 0..Len(dev[p.from].pending) :
          /\ a + Len(p.todo) <= Len(dev[p.from].pending)
          /\ \A k \in 1..Len(p.todo) : p.todo[k] = dev[p.from].pending[a + k]
          /\ \A k \in 1..a : Passed(dev[p.from].pending[k])
    BY DEF Rows, RowOf
  <2>3. /\ Len(p.todo) \in Nat \ {0} /\ Len(q.todo) = Len(p.todo) - 1 /\ a \in Nat /\ a + 1 \in Nat
        /\ Head(p.todo) = p.todo[1] /\ 1 \in 1..Len(p.todo)
    BY <2>1, <2>2
  <2>4. (a + 1) + Len(q.todo) <= Len(dev[p.from].pending)
    <3>1. (a + 1) + Len(q.todo) = a + Len(p.todo)
      BY <2>3
    <3> QED BY <2>2, <3>1
  <2>5. ASSUME NEW k \in 1..Len(q.todo) PROVE q.todo[k] = dev[p.from].pending[(a + 1) + k]
    <3>1. k + 1 \in 1..Len(p.todo) /\ q.todo[k] = p.todo[k + 1] /\ a + (k + 1) = (a + 1) + k
      BY <2>1, <2>3, <2>5
    <3>2. p.todo[k + 1] = dev[p.from].pending[a + (k + 1)]
      BY <2>2, <3>1
    <3> QED BY <3>1, <3>2
  <2>6. ASSUME NEW k \in 1..(a + 1), NEW e, e = dev[p.from].pending[k] PROVE Passed(e)'
    <3>1. CASE k \in 1..a
      BY <2>2, <2>6, <3>1, Learned
    <3>2. CASE k = a + 1
      BY <2>1, <2>2, <2>3, <2>6, <3>2
    <3> QED BY <2>3, <3>1, <3>2
  <2>7. WillHavePassed(p.from, a + 1)
    BY <2>6 DEF WillHavePassed
  <2>8. Len(q.todo) \in Nat
    BY <2>3
  <2>9. IsRow(p.from, q.todo, a + 1)
    BY <2>4, <2>5, <2>8 DEF IsRow
  <2> QED BY <2>1, <2>3, <2>7, <2>9, RowStays
<1>4. ASSUME NEW d \in Devices, NEW q \in pushes', Push(d), Fresh(d, q) PROVE RowOf(q)'
  <2>1. q.from = d /\ q.todo = SubSeq(dev[d].pending, run[d].from + 1, run[d].upto)
    BY <1>4 DEF Fresh
  <2>2. /\ dev[d].pending \in Seq(EventIds) /\ run[d].from \in Nat /\ run[d].upto \in Nat
        /\ run[d].from <= run[d].upto /\ run[d].upto <= Len(dev[d].pending)
    BY DEF Types, DevType, RunType, Positions, Fits
  <2>3. run[d].from = dev[d].handled
    BY <1>4, PushEffect DEF Positions, Fits
  <2>4. /\ Len(q.todo) = run[d].upto - run[d].from
        /\ \A k \in 1..(run[d].upto - run[d].from) :
             q.todo[k] = dev[d].pending[(run[d].from + 1) + k - 1]
    <3>1. /\ Len(SubSeq(dev[d].pending, run[d].from + 1, run[d].upto)) = run[d].upto - run[d].from
          /\ \A k \in 1..(run[d].upto - run[d].from) :
               SubSeq(dev[d].pending, run[d].from + 1, run[d].upto)[k]
                 = dev[d].pending[(run[d].from + 1) + k - 1]
      BY <2>2, PartOfLines
    <3> QED BY <2>1, <3>1, Zenon
  <2>5. run[d].from + Len(q.todo) <= Len(dev[d].pending)
    <3>1. run[d].from + Len(q.todo) = run[d].upto
      BY <2>2, <2>4
    <3> QED BY <2>2, <3>1
  <2>6. ASSUME NEW k \in 1..Len(q.todo) PROVE q.todo[k] = dev[d].pending[run[d].from + k]
    <3>1. (run[d].from + 1) + k - 1 = run[d].from + k
      BY <2>2
    <3> QED BY <2>4, <3>1
  <2>7. ASSUME NEW k \in 1..run[d].from, NEW e, e = dev[d].pending[k] PROVE Passed(e)'
    BY <2>3, <2>7, Learned DEF Rows
  <2>8. WillHavePassed(d, run[d].from)
    BY <2>7 DEF WillHavePassed
  <2>9. IsRow(d, q.todo, run[d].from)
    BY <2>2, <2>4, <2>5, <2>6 DEF IsRow
  <2> QED BY <2>1, <2>2, <2>8, <2>9, RowStays
<1>5. ASSUME NEW q \in pushes' PROVE RowOf(q)'
  BY <1>2, <1>3, <1>4, <1>5, PushOrigin DEF Carried
<1>6. ASSUME NEW d \in Devices, NEW k \in 1..dev'[d].handled PROVE Passed(dev[d].pending[k])'
  BY <1>1, <1>6 DEF Passed, Answered, Recorded, In
<1> QED BY <1>5, <1>6 DEF Rows

(* After the answer to its push all a device sent has been dealt with or    *)
(* refused.                                                                 *)
LEMMA SettlementStep ==
  ASSUME Types, Types', Positions, Logs, Awaiting, Settlement, [Next]_vars
  PROVE  Settlement'
<1> SUFFICES ASSUME NEW d \in Devices PROVE Settled(d)'
  BY DEF Settlement
<1>a. ASSUME run'[d].from = run[d].from, run'[d].upto = run[d].upto PROVE Outbox(d)' = Outbox(d)
  BY <1>a, OutboxStays
<1>b. Settled(d) /\ dev[d].rejected \subseteq dev'[d].rejected
  BY FilesStay DEF Settlement, FilesKept
<1>c. ASSUME run'[d].from = run[d].from, run'[d].upto = run[d].upto,
             run[d].pc \in {"pull", "settle log", "settle rejected"}
      PROVE  \A e \in Outbox(d)' : Answered(e)' \/ e \in run[d].refused
  BY <1>a, <1>b, <1>c, Learned DEF Settled
<1>1. CASE run'[d] = run[d]
  <2>1. Outbox(d)' = Outbox(d)
    BY <1>a, <1>1
  <2>2. run[d].pc = "settle state" =>
          \A e \in Outbox(d)' : Answered(e)' \/ e \in dev'[d].rejected
    BY <1>b, <2>1, Learned DEF Settled
  <2> QED BY <1>1, <1>c, <2>2 DEF Settled
<1>2. CASE run'[d].pc \in {"idle", "register", "push", "pushing"}
  BY <1>2 DEF Settled
<1>3. CASE run'[d].pc = "pull" /\ ~ run'[d].upto > run'[d].from
  <2>1. run'[d].from \in Nat /\ run'[d].upto \in Nat
    BY DEF Types, RunType
  <2>2. (run'[d].from + 1)..run'[d].upto = {}
    BY <1>3, <2>1
  <2>3. Outbox(d)' = {}
    BY <2>2 DEF Outbox
  <2> QED BY <1>3, <2>3 DEF Settled
<1>4. CASE Answers(d)
  <2>1. PICK p \in pushes : /\ p.from = d /\ p.awaited /\ p.todo = << >>
                           /\ GoesOn(d, "pull") /\ run'[d].refused = p.refused
    BY <1>4 DEF Answers
  <2>2. Outbox(d)' = Outbox(d)
    BY <1>a, <2>1 DEF GoesOn
  <2>3. \A e : ~ In(e, p.todo)
    BY <2>1 DEF In
  <2>4. \A e \in Outbox(d)' : Answered(e)' \/ e \in run'[d].refused
    BY <2>1, <2>2, <2>3, Learned DEF Awaiting, Awaited
  <2> QED BY <2>1, <2>4 DEF Settled, GoesOn
<1>5. ASSUME NEW pc \in {"settle log", "settle rejected"},
             run[d].pc \in {"pull", "settle log"}, GoesOn(d, pc), run'[d].refused = run[d].refused
      PROVE  Settled(d)'
  <2>1. \A e \in Outbox(d)' : Answered(e)' \/ e \in run'[d].refused
    BY <1>5, <1>c DEF GoesOn
  <2> QED BY <1>5, <2>1 DEF Settled, GoesOn
<1>6. CASE SettleRejected(d)
  <2>1. /\ GoesOn(d, "settle state") /\ run[d].pc = "settle rejected"
        /\ dev'[d].rejected = dev[d].rejected \cup run[d].refused
    BY <1>6, SettleRejectedEffect
  <2>2. \A e \in Outbox(d)' : Answered(e)' \/ e \in dev'[d].rejected
    BY <1>c, <2>1 DEF GoesOn
  <2> QED BY <2>1, <2>2 DEF Settled, GoesOn
<1> QED BY <1>1, <1>2, <1>3, <1>4, <1>5, <1>6, RunMoves DEF Moves

-----------------------------------------------------------------------------
(* Nothing is lost. *)

(* The waiting lines are those after the handled ones.                      *)
LEMMA WaitingLines ==
  ASSUME NEW ids \in Seq(EventIds), NEW n \in Nat, n <= Len(ids), NEW e
  PROVE  In(e, SubSeq(ids, n + 1, Len(ids))) <=> \E k \in (n + 1)..Len(ids) : ids[k] = e
<1>1. Len(ids) \in Nat
  OBVIOUS
<1>2. ASSUME NEW k \in (n + 1)..Len(ids), ids[k] = e PROVE In(e, SubSeq(ids, n + 1, Len(ids)))
  BY <1>1, <1>2, InSubSeq
<1>3. ASSUME In(e, SubSeq(ids, n + 1, Len(ids))) PROVE \E k \in (n + 1)..Len(ids) : ids[k] = e
  <2>1. PICK k \in DOMAIN SubSeq(ids, n + 1, Len(ids)) : SubSeq(ids, n + 1, Len(ids))[k] = e
    BY <1>3 DEF In
  <2>2. /\ Len(SubSeq(ids, n + 1, Len(ids))) = Len(ids) - n
        /\ SubSeq(ids, n + 1, Len(ids)) \in Seq(EventIds)
    BY <1>1
  <2>3. k \in 1..(Len(ids) - n)
    BY <2>1, <2>2
  <2>4. SubSeq(ids, n + 1, Len(ids))[k] = ids[(n + 1) + k - 1]
    BY <1>1, <2>3, PartOfLines
  <2>5. (n + 1) + k - 1 = n + k /\ n + k \in (n + 1)..Len(ids)
    BY <1>1, <2>3
  <2> QED BY <2>1, <2>4, <2>5
<1> QED BY <1>2, <1>3

(* Where an event a device recorded is.                                     *)
Safe(d, e) ==
  \/ \E k \in (dev[d].handled + 1)..Len(dev[d].pending) : dev[d].pending[k] = e
  \/ dev[d].kind = "local" /\ In(e, dev[d].log)
  \/ Answered(e)
  \/ e \in dev[d].rejected

(* NothingLost says of each event that it is safe.                          *)
LEMMA NothingLostIsSafe ==
  ASSUME Types, Positions
  PROVE  NothingLost <=> \A d \in Devices : \A e \in EventIds : author[e] = d => Safe(d, e)
<1>1. ASSUME NEW d \in Devices, NEW e \in EventIds
      PROVE  In(e, Waiting(d)) <=>
               \E k \in (dev[d].handled + 1)..Len(dev[d].pending) : dev[d].pending[k] = e
  <2>1. /\ dev[d].pending \in Seq(EventIds) /\ dev[d].handled \in Nat
        /\ dev[d].handled <= Len(dev[d].pending)
    BY DEF Types, DevType, Positions, Fits
  <2> QED BY <2>1, WaitingLines DEF Waiting
<1> QED BY <1>1 DEF NothingLost, Safe, Answered

(* A waiting line waits on, or it was settled.                              *)
LEMMA WaitsOrSettled ==
  ASSUME Types, Types', Positions, Logs, Settlement, [Next]_vars,
         NEW d \in Devices, NEW k \in (dev[d].handled + 1)..Len(dev[d].pending),
         NEW e, dev[d].pending[k] = e
  PROVE  Safe(d, e)'
<1>1. dev[d].handled \in Nat
  BY DEF Types, DevType
<1>2. /\ k \in 1..Len(dev[d].pending) /\ k <= Len(dev'[d].pending) /\ k \in Nat
      /\ dev[d].handled + 1 <= k
  BY <1>1, LinesStay
<1>3. dev'[d].pending[k] = e
  BY <1>2, LinesStay
<1>4. CASE dev'[d].handled = dev[d].handled
  <2>1. k \in (dev'[d].handled + 1)..Len(dev'[d].pending)
    BY <1>1, <1>2, <1>4, LinesStay
  <2> QED BY <1>3, <2>1 DEF Safe
<1>5. CASE SettleState(d)
  <2>1. /\ dev'[d].handled = run[d].upto /\ run[d].pc = "settle state"
        /\ dev'[d].rejected = dev[d].rejected /\ run[d].from = dev[d].handled
        /\ run[d].upto \in Nat
    BY <1>5, SettleStateEffect DEF Positions, Fits, Types, RunType
  <2>2. CASE k <= run[d].upto
    <3>1. k \in (run[d].from + 1)..run[d].upto
      <4>1. \A p, q, r \in Nat : p + 1 <= q /\ q <= r => q \in (p + 1)..r
        OBVIOUS
      <4>2. run[d].from \in Nat /\ run[d].upto \in Nat /\ k \in Nat /\ run[d].from + 1 <= k
        BY <1>1, <1>2, <2>1
      <4> QED BY <2>2, <4>1, <4>2
    <3>2. e \in Outbox(d)
      BY <3>1 DEF Outbox
    <3>3. Answered(e) \/ e \in dev'[d].rejected
      BY <2>1, <3>2 DEF Settlement, Settled
    <3> QED BY <3>3, Learned DEF Safe
  <2>3. CASE ~ k <= run[d].upto
    <3>1. k \in (dev'[d].handled + 1)..Len(dev'[d].pending)
      <4>1. \A p, q, r \in Nat : ~ q <= p /\ q <= r => q \in (p + 1)..r
        OBVIOUS
      <4>2. dev'[d].handled \in Nat /\ Len(dev'[d].pending) \in Nat /\ ~ k <= dev'[d].handled
        BY <2>1, <2>3, LinesStay
      <4> QED BY <1>2, <4>1, <4>2
    <3> QED BY <1>3, <3>1 DEF Safe
  <2> QED BY <2>2, <2>3
<1> QED BY <1>4, <1>5, FilesStay DEF FilesKept

(* An event becomes a device's when the device records it.                  *)
LEMMA AuthorOf ==
  ASSUME Types, [Next]_vars, NEW d \in Devices, NEW e \in EventIds, author'[e] = d
  PROVE  author[e] = d \/ Record(d, e)
<1>1. CASE author' = author
  BY <1>1
<1>2. ASSUME NEW x \in Devices, NEW f \in EventIds, Record(x, f)
      PROVE  author[e] = d \/ Record(d, e)
  <2>1. author' = [author EXCEPT ![f] = x]
    BY <1>2 DEF Record
  <2>2. CASE f = e
    <3>1. x = d
      BY <2>1, <2>2 DEF Types
    <3> QED BY <1>2, <2>2, <3>1
  <2>3. CASE f # e
    BY <2>1, <2>3 DEF Types
  <2> QED BY <2>2, <2>3
<1>3. ASSUME NEW f \in EventIds, RecordOnServer(f) PROVE author[e] = d
  <2>1. author' = [author EXCEPT ![f] = Web]
    BY <1>3 DEF RecordOnServer
  <2>2. f # e
    BY <2>1, WebAssumption DEF Types
  <2> QED BY <2>1, <2>2 DEF Types
<1>4. ASSUME NEW x \in Devices, Recording(x)
      PROVE  author' = author \/ \E f \in EventIds : Record(x, f)
  BY <1>4 DEF Recording, Start, Link, CrashBeforeLink, OpenRemote
<1>5. ASSUME NEW x \in Devices, Syncing(x) \/ Failing(x) PROVE author' = author
  BY <1>5, FailingEffect
     DEF Syncing, Begin, Register, Push, Pull, SettleLog, SettleRejected, SettleState
<1>6. ASSUME NEW p \in pushes, Handling(p) \/ LosePush(p) PROVE author' = author
  BY <1>6 DEF Handling, CheckConflicts, RecordPushed, RefusePushed, KeepConflict, Answer, LosePush
<1> QED BY <1>1, <1>2, <1>3, <1>4, <1>5, <1>6 DEF Next, vars

(* What a device recorded stays safe, wherever it is.                       *)
LEMMA StaysSafe ==
  ASSUME Types, Types', Positions, Logs, Settlement, [Next]_vars,
         NEW d \in Devices, NEW e \in EventIds, Safe(d, e)
  PROVE  Safe(d, e)'
<1>1. ASSUME NEW k \in (dev[d].handled + 1)..Len(dev[d].pending), dev[d].pending[k] = e
      PROVE  Safe(d, e)'
  BY <1>1, WaitsOrSettled
<1>2. CASE dev[d].kind = "local" /\ In(e, dev[d].log)
  <2>1. dev[d].log \in Seq(EventIds) /\ dev'[d].log \in Seq(EventIds)
    BY DEF Types, DevType
  <2>2. PICK k \in 1..Len(dev[d].log) : dev[d].log[k] = e
    BY <1>2, <2>1 DEF In
  <2>3. dev'[d].kind = "local" /\ Begins(dev[d].log, dev'[d].log)
    BY <1>2, <2>1, FilesStay, LongerLog DEF FilesKept
  <2>4. k \in 1..Len(dev'[d].log) /\ dev'[d].log[k] = e
    BY <2>1, <2>2, <2>3 DEF Begins
  <2>5. In(e, dev'[d].log)
    BY <2>1, <2>4 DEF In
  <2> QED BY <2>3, <2>5 DEF Safe
<1>3. CASE Answered(e)
  BY <1>3, Learned DEF Safe
<1>4. CASE e \in dev[d].rejected
  BY <1>4, FilesStay DEF FilesKept, Safe
<1> QED BY <1>1, <1>2, <1>3, <1>4 DEF Safe

(* What a device has just recorded is safe.                                 *)
LEMMA RecordedIsSafe ==
  ASSUME Types, Types', Positions, NEW d \in Devices, NEW e \in EventIds, Record(d, e)
  PROVE  Safe(d, e)'
<1>1. CASE dev'[d].pending = Append(dev[d].pending, e)
  <2> DEFINE k == Len(dev[d].pending) + 1
  <2>1. dev[d].pending \in Seq(EventIds) /\ dev[d].handled \in Nat /\ Len(dev[d].pending) \in Nat
    BY DEF Types, DevType
  <2>2. dev[d].handled <= Len(dev[d].pending) /\ dev'[d].handled = dev[d].handled
    BY RecordEffect DEF Positions, Fits
  <2>3. Len(dev'[d].pending) = k /\ dev'[d].pending[k] = e
    BY <1>1, <2>1
  <2>4. k \in (dev'[d].handled + 1)..Len(dev'[d].pending)
    <3>1. \A p, q \in Nat : p <= q => q + 1 \in (p + 1)..(q + 1)
      OBVIOUS
    <3> QED BY <2>1, <2>2, <2>3, <3>1
  <2> HIDE DEF k
  <2> QED BY <2>3, <2>4 DEF Safe
<1>2. CASE dev[d].kind = "local" /\ dev'[d].log = Append(dev[d].log, e)
  <2>1. dev[d].log \in Seq(EventIds) /\ Len(dev[d].log) \in Nat
    BY DEF Types, DevType
  <2>2. Len(dev[d].log) + 1 \in DOMAIN dev'[d].log /\ dev'[d].log[Len(dev[d].log) + 1] = e
    BY <1>2, <2>1
  <2>3. dev'[d].kind = "local"
    BY <1>2, RecordEffect
  <2> QED BY <2>2, <2>3 DEF Safe, In
<1> QED BY <1>1, <1>2, RecordEffect

(* Nothing a device recorded gets lost.                                     *)
LEMMA NothingLostStep ==
  ASSUME Types, Types', Positions, Positions', Logs, Settlement, NothingLost, [Next]_vars
  PROVE  NothingLost'
<1>1. ASSUME NEW d \in Devices, NEW e \in EventIds, author'[e] = d PROVE Safe(d, e)'
  <2>1. CASE Record(d, e)
    BY <2>1, RecordedIsSafe
  <2>2. CASE author[e] = d
    <3>1. Safe(d, e)
      BY <2>2, NothingLostIsSafe
    <3> QED BY <3>1, StaysSafe
  <2> QED BY <1>1, <2>1, <2>2, AuthorOf
<1>2. ASSUME NEW d \in Devices, NEW e \in EventIds,
             NEW k \in (dev'[d].handled + 1)..Len(dev'[d].pending), dev'[d].pending[k] = e
      PROVE  In(e, Waiting(d)')
  <2>1. /\ dev'[d].pending \in Seq(EventIds) /\ dev'[d].handled \in Nat
        /\ dev'[d].handled <= Len(dev'[d].pending)
    BY DEF Types, DevType, Positions, Fits
  <2>2. In(e, SubSeq(dev'[d].pending, dev'[d].handled + 1, Len(dev'[d].pending)))
    BY <1>2, <2>1, WaitingLines
  <2> QED BY <2>2 DEF Waiting
<1> QED BY <1>1, <1>2 DEF NothingLost, Safe, Answered, In

-----------------------------------------------------------------------------
(* The invariant, and what it says of the specification. *)

(* At first there is nothing anywhere.                                      *)
LEMMA SyncInit == Init => SyncInv
<1> SUFFICES ASSUME Init PROVE SyncInv
  OBVIOUS
<1>1. /\ server.log = << >> /\ server.kept = {} /\ pushes = {}
      /\ \A d \in Devices : dev[d] = NoCopy /\ run[d] = Idle
      /\ \A e \in EventIds : author[e] = None
  BY DEF Init
<1>2. \A d \in Devices :
        /\ dev[d].kind = "none" /\ ~ dev[d].registered /\ dev[d].log = << >>
        /\ dev[d].pending = << >> /\ dev[d].handled = 0 /\ dev[d].rejected = {}
        /\ run[d].pc = "idle" /\ run[d].from = 0 /\ run[d].upto = 0 /\ run[d].refused = {}
  BY <1>1 DEF NoCopy, Idle
<1>3. Types
  <2>1. NoCopy \in DevType
    BY DEF NoCopy, DevType
  <2>2. server \in ServerType
    BY DEF Init, ServerType
  <2> QED BY <2>1, <2>2, IdleType DEF Init, Types
<1>4. Positions
  BY <1>2 DEF Positions, Fits
<1>5. Authors
  BY <1>1, <1>2 DEF Authors
<1>6. Logs
  BY <1>1, <1>2 DEF Logs, IsCopy
<1>7. Refusals
  BY <1>1, <1>2 DEF Refusals
<1>8. Awaiting
  BY <1>1 DEF Awaiting
<1>9. Settlement
  BY <1>2 DEF Settlement, Settled
<1>10. Rows
  BY <1>1, <1>2 DEF Rows
<1>11. PassedBefore
  BY <1>2 DEF PassedBefore
<1>12. NothingLost
  BY <1>1, WebAssumption DEF NothingLost
<1>13. DeviceOrderKept
  BY <1>2 DEF DeviceOrderKept
<1> QED BY <1>3, <1>4, <1>5, <1>6, <1>7, <1>8, <1>9, <1>10, <1>11, <1>12, <1>13 DEF SyncInv

(* Every step keeps the invariant.                                          *)
LEMMA SyncStep == SyncInv /\ [Next]_vars => SyncInv'
<1> SUFFICES ASSUME SyncInv, [Next]_vars PROVE SyncInv'
  OBVIOUS
<1> USE DEF SyncInv
<1>1. Types'
  BY TypesStep
<1>2. Positions'
  BY PositionsStep
<1>3. Logs'
  BY <1>1, LogsStep
<1>4. Authors'
  BY <1>1, AuthorsStep
<1>5. Refusals'
  BY <1>1, RefusalsStep
<1>6. Awaiting'
  BY <1>1, AwaitingStep
<1>7. Settlement'
  BY <1>1, SettlementStep
<1>8. Rows'
  BY <1>1, RowsStep
<1>9. PassedBefore'
  BY <1>1, PassedBeforeStep
<1>10. NothingLost'
  BY <1>1, <1>2, NothingLostStep
<1>11. DeviceOrderKept'
  BY <1>1, DeviceOrderStep
<1> QED BY <1>1, <1>2, <1>3, <1>4, <1>5, <1>6, <1>7, <1>8, <1>9, <1>10, <1>11

(* The invariant holds in every reachable state: a linked copy is a         *)
(* beginning of the server's log, a device waits for one push at most, and  *)
(* it never settles a line the server has not answered for.                 *)
THEOREM SyncStaysSound == Spec => []SyncInv
BY SyncInit, SyncStep, PTL DEF Spec

(* Every variable has the shape the code's types give it, and a sync never  *)
(* carries more than the outbox holds.                                      *)
THEOREM SyncTypeCorrect == Spec => []TypeOK
<1>1. SyncInv => TypeOK
  BY SMTT(30) DEF SyncInv, Types, Positions, Fits, ServerType, DevType, RunType, PushType, TypeOK
<1> QED BY <1>1, SyncStaysSound, PTL

(* Nothing recorded offline is ever lost, for any number of devices, events,*)
(* lost requests and crashes.                                               *)
THEOREM NothingIsEverLost == Spec => []NothingLost
<1>1. SyncInv => NothingLost
  BY DEF SyncInv
<1> QED BY <1>1, SyncStaysSound, PTL

(* The server records a device's events in the device's order, except those *)
(* kept as conflicts or refused for their files.                            *)
THEOREM DeviceOrderStaysKept == Spec => []DeviceOrderKept
<1>1. SyncInv => DeviceOrderKept
  BY DEF SyncInv
<1> QED BY <1>1, SyncStaysSound, PTL

-----------------------------------------------------------------------------
(* Sync implements ReplicatedLog. *)

(* What the abstract log sees of a device.                                  *)
Copy(d) == IF Linked(d) THEN dev[d].log ELSE << >>

(* A copy that only got longer is the same or a longer beginning.           *)
LEMMA SameOrLonger ==
  ASSUME NEW a \in Seq(EventIds), NEW b \in Seq(EventIds), NEW c \in Seq(EventIds),
         Begins(a, b), Begins(b, c), a # b
  PROVE  \E upto \in 1..Len(c) : upto > Len(a) /\ b = SubSeq(c, 1, upto)
<1>1. Len(a) \in Nat /\ Len(b) \in Nat /\ Len(c) \in Nat
  OBVIOUS
<1>2. Len(a) <= Len(b) /\ Len(b) <= Len(c)
  BY DEF Begins
<1>3. Len(a) # Len(b)
  <2>1. SUFFICES ASSUME Len(a) = Len(b) PROVE a = b
    OBVIOUS
  <2>2. \A k \in 1..Len(a) : a[k] = b[k]
    BY DEF Begins
  <2> QED BY <2>1, <2>2, SeqEqual
<1>4. Len(b) \in 1..Len(c) /\ Len(b) > Len(a)
  BY <1>1, <1>2, <1>3
<1>5. b = SubSeq(c, 1, Len(b))
  <2>1. /\ SubSeq(c, 1, Len(b)) \in Seq(EventIds) /\ Len(SubSeq(c, 1, Len(b))) = Len(b)
        /\ \A k \in 1..Len(b) : SubSeq(c, 1, Len(b))[k] = c[k]
    BY <1>1, <1>2
  <2>2. \A k \in 1..Len(b) : b[k] = SubSeq(c, 1, Len(b))[k]
    BY <2>1 DEF Begins
  <2> QED BY <2>1, <2>2, SeqEqual
<1> QED BY <1>4, <1>5

(* A step changes one device's copy, which only gets longer ...             *)
CopyGrows(d) ==
  /\ server'.log = server.log
  /\ \A x \in Devices \ {d} : Copy(x)' = Copy(x)
  /\ Begins(Copy(d), Copy(d)')

(* ... or the server's log, by an event it did not have.                    *)
LogGrows(e) ==
  /\ ~ Recorded(e)
  /\ server'.log = Append(server.log, e)
  /\ \A x \in Devices : Copy(x)' = Copy(x)

NothingGrows == server'.log = server.log /\ \A x \in Devices : Copy(x)' = Copy(x)

(* Every step is one of the three.                                          *)
LEMMA Growth ==
  ASSUME Types, Positions, Authors, Logs, [Next]_vars
  PROVE  \/ NothingGrows
         \/ \E d \in Devices : CopyGrows(d)
         \/ \E e \in EventIds : LogGrows(e)
<1>a. ASSUME NEW d \in Devices PROVE dev[d].log \in Seq(EventIds) /\ Copy(d) \in Seq(EventIds)
  BY DEF Types, DevType, Copy
<1>b. ASSUME NEW d \in Devices, OthersKept(d), Begins(Copy(d), Copy(d)'), server'.log = server.log
      PROVE  CopyGrows(d)
  BY <1>b DEF CopyGrows, OthersKept, Copy, Linked
<1>c. ASSUME NEW d \in Devices, OthersKept(d), Copy(d)' = Copy(d), server'.log = server.log
      PROVE  CopyGrows(d)
  <2>1. Begins(Copy(d), Copy(d))
    BY <1>a, LongerLog
  <2> QED BY <1>b, <1>c, <2>1
<1>d. ASSUME dev' = dev PROVE \A x \in Devices : Copy(x)' = Copy(x)
  BY <1>d DEF Copy, Linked
<1>1. ASSUME NEW d \in Devices, Recording(d) PROVE CopyGrows(d)
  <2>a. server'.log = server.log
    BY <1>1 DEF Recording, Start, Link, CrashBeforeLink, OpenRemote, Record
  <2>b. dev[d].kind \in {"none", "starting"} => dev[d].log = << >>
    BY DEF Logs, IsCopy
  <2>1. ASSUME NEW kind, Becomes(d, kind), dev[d].kind \in {"none", "starting"} PROVE CopyGrows(d)
    BY <1>c, <2>a, <2>b, <2>1 DEF Becomes, Copy, Linked
  <2>2. CASE Start(d)
    BY <2>1, <2>2, StartEffect DEF Start
  <2>3. CASE Link(d)
    BY <2>1, <2>3, LinkEffect DEF Link
  <2>4. CASE CrashBeforeLink(d)
    BY <2>1, <2>4, CrashBeforeLinkEffect DEF CrashBeforeLink
  <2>5. CASE OpenRemote(d)
    <3>1. Copy(d) = << >>
      BY <2>5 DEF OpenRemote, Copy, Linked
    <3>2. PICK n \in 0..Len(server.log) :
            OthersKept(d) /\ dev'[d].kind = "linked" /\ dev'[d].log = SubSeq(server.log, 1, n)
      BY <2>5, OpenRemoteEffect
    <3>3. Copy(d)' = SubSeq(server.log, 1, n)
      BY <3>2 DEF Copy, Linked
    <3>4. Len(SubSeq(server.log, 1, n)) \in Nat
      <4>1. server.log \in Seq(EventIds)
        BY DEF Types, ServerType
      <4> QED BY <4>1
    <3>5. Begins(Copy(d), Copy(d)')
      BY <3>1, <3>3, <3>4 DEF Begins
    <3> QED BY <1>b, <2>a, <3>2, <3>5
  <2>6. CASE \E e \in EventIds : Record(d, e)
    BY <1>c, <2>a, <2>6, RecordEffect DEF Copy, Linked
  <2> QED BY <1>1, <2>2, <2>3, <2>4, <2>5, <2>6 DEF Recording
<1>2. ASSUME NEW d \in Devices, Syncing(d) PROVE CopyGrows(d)
  <2>1. CASE Begin(d) \/ Push(d) \/ Pull(d)
    <3>1. OthersKept(d) /\ dev' = dev
      BY <2>1, BeginEffect, PushEffect, PullEffect
    <3>2. server'.log = server.log
      BY <2>1 DEF Begin, Push, Pull
    <3> QED BY <1>c, <1>d, <3>1, <3>2
  <2>2. CASE Register(d)
    <3>1. OthersKept(d) /\ dev' = dev
      BY <2>2, RegisterEffect
    <3>2. server'.log = server.log
      BY <2>2, CreateStartedEffect DEF Register
    <3> QED BY <1>c, <1>d, <3>1, <3>2
  <2>3. CASE SettleLog(d)
    <3>1. OthersKept(d) /\ dev'[d].kind = dev[d].kind /\ server'.log = server.log
      BY <2>3, SettleLogEffect DEF KeepsLines, SettleLog
    <3>2. Begins(dev[d].log, dev'[d].log)
      <4>1. CASE dev'[d].log = dev[d].log
        BY <1>a, <4>1, LongerLog
      <4>2. CASE dev'[d].log = dev[d].log \o run[d].pulled
        <5>1. run[d].pulled \in Seq(EventIds)
          BY DEF Types, RunType
        <5>2. \A a, b \in Seq(EventIds) : Begins(a, a \o b)
          BY DEF Begins
        <5>3. Begins(dev[d].log, dev[d].log \o run[d].pulled)
          BY <1>a, <5>1, <5>2
        <5> QED BY <4>2, <5>3
      <4> QED BY <2>3, <4>1, <4>2, SettleLogEffect
    <3>3. Begins(Copy(d), Copy(d)')
      <4>1. Begins(<< >>, << >>)
        BY DEF Begins
      <4> QED BY <3>1, <3>2, <4>1 DEF Copy, Linked
    <3> QED BY <1>b, <3>1, <3>3
  <2>4. CASE SettleRejected(d)
    <3>1. server'.log = server.log
      BY <2>4 DEF SettleRejected
    <3> QED BY <1>c, <2>4, <3>1, SettleRejectedEffect DEF KeepsLines, Copy, Linked
  <2>5. CASE SettleState(d)
    <3>1. server'.log = server.log
      BY <2>5 DEF SettleState
    <3> QED BY <1>c, <2>5, <3>1, SettleStateEffect DEF KeepsLines, Copy, Linked
  <2> QED BY <1>2, <2>1, <2>2, <2>3, <2>4, <2>5 DEF Syncing
<1>3. ASSUME NEW d \in Devices, Failing(d) PROVE NothingGrows
  <2>1. dev' = dev
    BY <1>3, FailingEffect
  <2>2. server'.log = server.log
    BY <1>3, CreateStartedEffect DEF Failing, RegisterUnanswered, GiveUp, CrashSettling
  <2> QED BY <1>d, <2>1, <2>2 DEF NothingGrows
<1>4. ASSUME NEW e \in EventIds, RecordOnServer(e) PROVE LogGrows(e)
  <2>1. server'.log = Append(server.log, e) /\ dev' = dev /\ author[e] = None
    BY <1>4 DEF RecordOnServer, Types, ServerType
  <2> QED BY <1>d, <2>1, NobodysEvent DEF LogGrows
<1>5. ASSUME NEW p \in pushes, Handling(p) \/ LosePush(p)
      PROVE  NothingGrows \/ \E e \in EventIds : LogGrows(e)
  <2>1. dev' = dev
    BY <1>5 DEF Handling, CheckConflicts, RecordPushed, RefusePushed, KeepConflict, Answer, LosePush
  <2>2. CASE server' = server
    BY <1>d, <2>1, <2>2 DEF NothingGrows
  <2>3. CASE RecordPushed(p) /\ server' # server
    <3>1. p.todo # << >> /\ p.todo \in Seq(EventIds)
      BY <2>3 DEF RecordPushed, Types, PushType
    <3>2. Head(p.todo) \in EventIds
      BY <3>1
    <3>3. ~ Recorded(Head(p.todo)) /\ server' = [server EXCEPT !.log = Append(@, Head(p.todo))]
      BY <2>3 DEF RecordPushed, IsRetry, Recorded
    <3>4. server'.log = Append(server.log, Head(p.todo))
      BY <3>3 DEF Types, ServerType
    <3> QED BY <1>d, <2>1, <3>2, <3>3, <3>4 DEF LogGrows
  <2>4. CASE KeepConflict(p)
    <3>1. server'.log = server.log
      BY <2>4 DEF KeepConflict, Types, ServerType
    <3> QED BY <1>d, <2>1, <3>1 DEF NothingGrows
  <2> QED BY <1>5, <2>2, <2>3, <2>4
        DEF Handling, CheckConflicts, RefusePushed, Answer, LosePush
<1>6. CASE UNCHANGED vars
  BY <1>6, <1>d DEF vars, NothingGrows
<1> QED BY <1>1, <1>2, <1>3, <1>4, <1>5, <1>6 DEF Next

Copies == [d \in Devices |-> IF Linked(d) THEN dev[d].log ELSE << >>]

(* A device's copy gets longer: the abstract log's Advance, or nothing.     *)
LEMMA CopyGrowsIsAdvance ==
  ASSUME Types, Types', Logs', NEW d \in Devices, CopyGrows(d)
  PROVE  [Abstract!Next]_(Abstract!vars)
<1>1. Copy(d) \in Seq(EventIds) /\ Copy(d)' \in Seq(EventIds) /\ server.log \in Seq(EventIds)
  BY DEF Types, DevType, ServerType, Copy
<1>2. Begins(Copy(d), Copy(d)') /\ server'.log = server.log
      /\ \A x \in Devices \ {d} : Copy(x)' = Copy(x)
  BY DEF CopyGrows
<1>3. Begins(Copy(d)', server.log)
  <2>1. IsCopy(dev'[d], run'[d], server.log)
    BY <1>2 DEF Logs
  <2>2. Begins(<< >>, server.log)
    BY <1>1 DEF Begins
  <2> QED BY <2>1, <2>2 DEF IsCopy, Copy, Linked
<1>4. \A x \in Devices : Copies[x] = Copy(x) /\ Copies'[x] = Copy(x)'
  BY DEF Copies, Copy
<1>5. CASE Copy(d)' = Copy(d)
  <2>1. Copies' = Copies
    BY <1>2, <1>5 DEF Copies, Copy
  <2> QED BY <1>2, <2>1 DEF Copies, Abstract!vars
<1>6. CASE Copy(d)' # Copy(d)
  <2>1. PICK upto \in 1..Len(server.log) :
          upto > Len(Copy(d)) /\ Copy(d)' = SubSeq(server.log, 1, upto)
    BY <1>1, <1>2, <1>3, <1>6, SameOrLonger
  <2>2. Copies' = [Copies EXCEPT ![d] = SubSeq(server.log, 1, upto)]
    <3>1. \A x \in Devices :
            Copies'[x] = IF x = d THEN SubSeq(server.log, 1, upto) ELSE Copies[x]
      BY <1>2, <1>4, <2>1
    <3>2. DOMAIN Copies' = Devices /\ Copies' = [x \in Devices |-> Copies'[x]]
          /\ Copies = [x \in Devices |-> Copies[x]]
      BY DEF Copies
    <3> QED BY <3>1, <3>2
  <2>3. Abstract!Advance(d, upto)
    BY <1>2, <1>4, <2>1, <2>2 DEF Copies, Abstract!Advance
  <2> QED BY <2>3 DEF Abstract!Next
<1> QED BY <1>5, <1>6

(* The copy of every device is a beginning of the server's log that only    *)
(* gets longer, and the log grows by one new event at a time.               *)
THEOREM SyncImplementsReplicatedLog == Spec => ReplicatedLogSpec
<1>1. Init => Abstract!Init
  BY DEF Init, NoCopy, Linked, Abstract!Init
<1>2. SyncInv /\ SyncInv' /\ [Next]_vars => [Abstract!Next]_(Abstract!vars)
  <2> SUFFICES ASSUME SyncInv, SyncInv', [Next]_vars PROVE [Abstract!Next]_(Abstract!vars)
    OBVIOUS
  <2>1. Types /\ Types' /\ Positions /\ Authors /\ Logs /\ Logs'
    BY DEF SyncInv
  <2>2. ASSUME \A x \in Devices : Copy(x)' = Copy(x) PROVE Copies' = Copies
    BY <2>2 DEF Copies, Copy
  <2>3. CASE NothingGrows
    BY <2>2, <2>3 DEF NothingGrows, Copies, Abstract!vars
  <2>4. ASSUME NEW d \in Devices, CopyGrows(d) PROVE [Abstract!Next]_(Abstract!vars)
    BY <2>1, <2>4, CopyGrowsIsAdvance
  <2>5. ASSUME NEW e \in EventIds, LogGrows(e) PROVE [Abstract!Next]_(Abstract!vars)
    <3>1. Copies' = Copies
      BY <2>2, <2>5 DEF LogGrows
    <3>2. Abstract!Record(e)
      BY <2>5, <3>1 DEF LogGrows, Recorded, In, Copies, Abstract!Record
    <3> QED BY <3>2 DEF Abstract!Next
  <2> QED BY <2>1, <2>3, <2>4, <2>5, Growth
<1> QED BY <1>1, <1>2, SyncStaysSound, PTL DEF Spec, ReplicatedLogSpec, Abstract!Spec
=============================================================================
