---------------------------- MODULE BrowserProofs ----------------------------
(***************************************************************************)
(* What was reported as recorded is somewhere, with its content: for any    *)
(* number of tabs, executions, events, connections lost and tabs closed,    *)
(* and whenever the storage is lost.                                        *)
(*                                                                          *)
(* The invariant says of every copy of an execution, on the device, loaded  *)
(* by an operation or in a backup, that its log is the server's, the        *)
(* contents its events attach are kept, and those of refused events are on  *)
(* the server (Sound); of every operation that what it loaded is in the     *)
(* copy it holds or on the server; and of every push that what the server   *)
(* is done with is refused, a conflict or in the log.                       *)
(*                                                                          *)
(* A second invariant (OrderInv), on top of it, says of the same copies and *)
(* pushes that a log only grows at its end, by what it doesn't have, so     *)
(* that every copy is a beginning of it.                                    *)
(***************************************************************************)
EXTENDS Browser, FiniteSetTheorems, FunctionTheorems, SequenceTheorems, WellFoundedInduction,
        TLAPS

-----------------------------------------------------------------------------
(* The invariant. *)

(* A copy of an execution with this log, on a server with these events and  *)
(* contents, and the contents kept beside the copy.                         *)
Sound(copy, log, server, kept, stored) ==
  copy # None =>
    /\ ~ copy.unregistered => log # None
    /\ ToSet(copy.records) \subseteq server
    /\ FilesOf(Waiting(copy)) \subseteq kept \cup stored
    /\ FilesOf(copy.rejected) \subseteq stored

(* What is uploaded with events has the name of the first one that attaches *)
(* it; what is not is stored.                                               *)
Named(events, uploads, stored) ==
  /\ \A e \in ToSet(events) : e.file \in {None} \cup stored \cup {u.file : u \in uploads}
  /\ \A u \in uploads : \E i \in DOMAIN events :
       /\ events[i].file = u.file /\ events[i].name = u.name
       /\ \A j \in 1..(i - 1) : events[j].file # u.file

Registered == {"upload", "push", "answer", "forget", "pull"}

(* An operation; saved is its execution's copy in the backup.               *)
OperationSound(o, log, server, kept, stored, saved) ==
  /\ Sound(o.loc, log, server, kept, stored)
  /\ o.pc \in {"fetch", "reread"} => log # None
  /\ o.pc = "fetch" => o.loc = None
  /\ o.pc \in Registered \/ (o.pc = "save" /\ o.then = "pull") => ~ o.loc.unregistered
  /\ o.known \subseteq Waiting(o.loc) \cup server
  /\ ~ (o.pc = "save" /\ o.then \in {"recorded", "restored"}) => Waiting(o.loc) \subseteq o.known
  /\ o.pc = "save" /\ o.then = "recorded" => o.loc.pending # << >>
  /\ o.pc = "save" /\ o.then = "restored" => Waiting(saved) \subseteq Waiting(o.loc) \cup server
  /\ o.del \subseteq stored
  /\ o.pc = "push" => Named(o.loc.pending, o.uploads, stored)

(* A push to an execution with this log and these conflicts.                *)
PushSound(r, log, kept, stored) ==
  /\ log # None
  /\ \A i \in 1..r.done : r.events[i] \in r.refused \cup kept \cup ToSet(log)
  /\ r.keep => r.done < Len(r.events) /\ r.events[r.done + 1].file \in {None} \cup stored
  /\ FilesOf(r.refused) \subseteq stored
  /\ Named(r.events, r.uploads, stored)

SavedCopy(x) == IF backup = None THEN None ELSE backup.copies[x]

ServerSound ==
  \A x \in Executions :
    /\ FilesOf(conflicts[x]) \subseteq objects
    /\ logs[x] # None => FilesOf(ToSet(logs[x])) \subseteq objects

CopiesSound == \A x \in Executions : Sound(copies[x], logs[x], OnServer, files, objects)

BackupSound ==
  backup # None => \A x \in Executions :
    Sound(backup.copies[x], logs[x], OnServer, backup.files, objects)

DraftsKept == \A a \in actors : draft[a] # None => draft[a].file \in {None} \cup files \cup objects

OperationsSound ==
  \A a \in actors :
    /\ OperationSound(op[a], logs[Exec(a)], OnServer, files, objects, SavedCopy(Exec(a)))
    /\ op[a].pc = "save" /\ op[a].then = "restored" => backup # None

PushesSound == \A r \in pushes : PushSound(r, logs[r.exec], conflicts[r.exec], objects)

(* The operation that waits for a push still holds what it sent.            *)
PushesOwned ==
  /\ \A r \in pushes : r.by \in actors =>
       /\ op[r.by].pc = "answer" /\ r.exec = Exec(r.by)
       /\ r.events = op[r.by].loc.pending
  /\ \A r, s \in pushes : r.by \in actors /\ r.by = s.by => r = s

(* As long as one tab works on each execution, it knows what it saves over. *)
OneTabEach == \A a, b \in actors : Exec(a) = Exec(b) => a = b

NothingLost ==
  OneTabEach /\ wipes = 0 =>
    /\ lost = {}
    /\ \A a \in actors : op[a].pc # "idle" => Waiting(copies[Exec(a)]) \subseteq op[a].known

BrowserInv ==
  /\ BrowserTypeOK
  /\ ServerSound /\ CopiesSound /\ BackupSound /\ DraftsKept
  /\ OperationsSound /\ PushesSound /\ PushesOwned
  /\ NothingLost
  /\ recorded \subseteq OnServer \cup OnDevice \cup BackedUp \cup lost

-----------------------------------------------------------------------------
(* Sequences and sets. *)

(* The elements of sequences put together.                                  *)
LEMMA Elements ==
  ASSUME NEW S
  PROVE  /\ \A s \in Seq(S) : ToSet(s) \subseteq S
         /\ \A s \in Seq(S), e \in S : ToSet(Append(s, e)) = ToSet(s) \cup {e}
         /\ \A s, t \in Seq(S) : ToSet(s \o t) = ToSet(s) \cup ToSet(t)
         /\ \A s \in Seq(S), m, n \in Nat : m \in 1..(n + 1) /\ n <= Len(s) =>
              SubSeq(s, m, n) \in Seq(S) /\ ToSet(SubSeq(s, m, n)) \subseteq ToSet(s)
         /\ ToSet(<< >>) = {}
<1>1. \A s \in Seq(S) : ToSet(s) \subseteq S
  BY DEF ToSet
<1>2. ASSUME NEW s \in Seq(S), NEW e \in S
      PROVE  ToSet(Append(s, e)) = ToSet(s) \cup {e}
  <2>1. /\ Append(s, e) \in Seq(S) /\ Len(Append(s, e)) = Len(s) + 1
        /\ \A i \in 1..Len(s) : Append(s, e)[i] = s[i]
        /\ Append(s, e)[Len(s) + 1] = e
    OBVIOUS
  <2>2. ToSet(Append(s, e)) \subseteq ToSet(s) \cup {e}
    BY <2>1 DEF ToSet
  <2>3. ToSet(s) \cup {e} \subseteq ToSet(Append(s, e))
    BY <2>1 DEF ToSet
  <2> QED
    BY <2>2, <2>3
<1>3. ASSUME NEW s \in Seq(S), NEW t \in Seq(S)
      PROVE  ToSet(s \o t) = ToSet(s) \cup ToSet(t)
  <2>1. /\ s \o t \in Seq(S) /\ Len(s \o t) = Len(s) + Len(t)
        /\ \A i \in 1..Len(s) : (s \o t)[i] = s[i]
        /\ \A i \in 1..Len(t) : (s \o t)[Len(s) + i] = t[i]
    OBVIOUS
  <2>2. ASSUME NEW i \in 1..(Len(s) + Len(t))
        PROVE  (s \o t)[i] \in ToSet(s) \cup ToSet(t)
    <3>1. CASE i <= Len(s)
      BY <2>1, <3>1 DEF ToSet
    <3>2. CASE i > Len(s)
      <4>1. i - Len(s) \in 1..Len(t) /\ i = Len(s) + (i - Len(s))
        BY <3>2
      <4> QED
        BY <2>1, <4>1 DEF ToSet
    <3> QED
      BY <3>1, <3>2
  <2>3. ToSet(s \o t) \subseteq ToSet(s) \cup ToSet(t)
    BY <2>1, <2>2 DEF ToSet
  <2>4. ToSet(s) \subseteq ToSet(s \o t)
    BY <2>1 DEF ToSet
  <2>5. ToSet(t) \subseteq ToSet(s \o t)
    BY <2>1, SMTT(30) DEF ToSet
  <2> QED
    BY <2>3, <2>4, <2>5
<1>4. ASSUME NEW s \in Seq(S), NEW m \in Nat, NEW n \in Nat, m \in 1..(n + 1), n <= Len(s)
      PROVE  SubSeq(s, m, n) \in Seq(S) /\ ToSet(SubSeq(s, m, n)) \subseteq ToSet(s)
  BY <1>4, SubSeqProperties DEF ToSet
<1>5. ToSet(<< >>) = {}
  BY DEF ToSet
<1> QED
  BY <1>1, <1>2, <1>3, <1>4, <1>5

(* A non-empty set of natural numbers has a least element.                  *)
LEMMA Least ==
  ASSUME NEW T \in SUBSET Nat, T # {}
  PROVE  \E n \in T : \A m \in T : n <= m
<1>1. IsWellFoundedOn(OpToRel(<, Nat), Nat)
  BY NatLessThanWellFounded
<1>2. PICK n \in T : \A m \in T : ~ (<< m, n >> \in OpToRel(<, Nat))
  BY <1>1, WFMin
<1>3. \A m \in T : ~ (m < n)
  BY <1>2 DEF OpToRel
<1> QED
  BY <1>3

(* The first event that attaches a file is the first one.                   *)
LEMMA FirstIs ==
  ASSUME NEW events \in Seq(Event), NEW f \in FilesOf(ToSet(events))
  PROVE  LET i == First(events, f)
         IN  /\ i \in DOMAIN events /\ events[i].file = f
             /\ \A j \in 1..(i - 1) : events[j].file # f
<1> DEFINE T == {i \in DOMAIN events : events[i].file = f}
<1>1. T \in SUBSET Nat /\ T # {}
  BY DEF FilesOf, ToSet
<1>2. PICK n \in T : \A m \in T : n <= m
  BY <1>1, Least
<1>3. \A j \in 1..(n - 1) : j \in DOMAIN events /\ ~ (n <= j)
  BY <1>2
<1>4. n \in DOMAIN events /\ events[n].file = f /\ \A j \in 1..(n - 1) : events[j].file # f
  BY <1>2, <1>3
<1> QED
  BY <1>4, Zenon DEF First

(* What Unknown returns: the rest, all of it and nothing else.              *)
LEMMA UnknownIs ==
  ASSUME NEW S, NEW s \in Seq(S), NEW known
  PROVE  /\ Unknown(s, known) \in Seq(S)
         /\ ToSet(Unknown(s, known)) = ToSet(s) \ known
<1> DEFINE left     == {i \in DOMAIN s : s[i] \notin known}
           n        == Cardinality(left)
           upTo(i)  == {j \in left : j <= i}
           place    == [i \in left |-> Cardinality(upTo(i))]
<1>1. IsFiniteSet(left) /\ n \in Nat
  <2>1. IsFiniteSet(1..Len(s)) /\ left \in SUBSET (1..Len(s))
    BY FS_Interval
  <2> QED
    BY <2>1, FS_Subset, FS_CardinalityType
<1>2. \A i \in left : upTo(i) \in SUBSET left /\ IsFiniteSet(upTo(i)) /\ i \in upTo(i)
  BY <1>1, FS_Subset
<1>3. \A i \in left : place[i] \in 1..n
  <2> SUFFICES ASSUME NEW i \in left
               PROVE  Cardinality(upTo(i)) \in 1..n
    OBVIOUS
  <2>1. /\ IsFiniteSet(upTo(i)) /\ upTo(i) \in SUBSET left /\ upTo(i) # {}
    BY <1>2
  <2>2. Cardinality(upTo(i)) \in Nat /\ Cardinality(upTo(i)) <= n
    BY <1>1, <2>1, FS_Subset, FS_CardinalityType
  <2>3. Cardinality(upTo(i)) # 0
    BY <2>1, FS_EmptySet
  <2> HIDE DEF upTo, n, left
  <2> QED
    BY <1>1, <2>2, <2>3
<1>4. \A i, j \in left : i < j => place[i] # place[j]
  <2> SUFFICES ASSUME NEW i \in left, NEW j \in left, i < j
               PROVE  Cardinality(upTo(i)) # Cardinality(upTo(j))
    OBVIOUS
  <2>1. upTo(i) \in SUBSET upTo(j) /\ j \in upTo(j) /\ j \notin upTo(i)
    OBVIOUS
  <2>2. IsFiniteSet(upTo(j))
    BY <1>2
  <2> HIDE DEF upTo
  <2> QED
    BY <2>1, <2>2, FS_Subset
<1>5. place \in Injection(left, 1..n)
  <2>1. \A i, j \in left : place[i] = place[j] => i = j
    BY <1>4
  <2>2. place \in [left -> 1..n]
    BY <1>3
  <2> HIDE DEF place, left, n
  <2> QED
    BY <2>1, <2>2 DEF Injection, IsInjective
<1>6. \A k \in 1..n : \E i \in left : place[i] = k
  <2>1. IsFiniteSet(1..n) /\ Cardinality(1..n) = n
    BY <1>1, FS_Interval
  <2>2. place \in Surjection(left, 1..n)
    BY <1>5, <2>1, FS_Injection
  <2> HIDE DEF place, left, n
  <2> QED
    BY <2>2 DEF Surjection
<1> DEFINE at(k) == CHOOSE i \in left : Cardinality({j \in left : j <= i}) = k
<1>7. Unknown(s, known) = [k \in 1..n |-> s[at(k)]]
  BY DEF Unknown
<1>8. \A k \in 1..n : at(k) \in left /\ place[at(k)] = k
  <2> SUFFICES ASSUME NEW k \in 1..n
               PROVE  at(k) \in left /\ Cardinality({j \in left : j <= at(k)}) = k
    OBVIOUS
  <2>1. PICK i \in left : Cardinality({j \in left : j <= i}) = k
    BY <1>6
  <2> HIDE DEF left
  <2> QED
    BY <2>1
<1>9. \A i \in left : place[i] \in 1..n /\ at(place[i]) = i
  BY <1>3, <1>4, <1>8
<1> HIDE DEF at, place, n
<1>10. Unknown(s, known) \in Seq(S)
  <2>1. \A k \in 1..n : s[at(k)] \in S
    BY <1>8
  <2> QED
    BY <1>1, <1>7, <2>1
<1>11. DOMAIN Unknown(s, known) = 1..n
  BY <1>7
<1>12. ToSet(Unknown(s, known)) \subseteq ToSet(s) \ known
  BY <1>7, <1>8, <1>11 DEF ToSet
<1>13. ToSet(s) \ known \subseteq ToSet(Unknown(s, known))
  <2> SUFFICES ASSUME NEW i \in left
               PROVE  \E k \in 1..n : Unknown(s, known)[k] = s[i]
    BY <1>11 DEF ToSet
  <2> QED
    BY <1>7, <1>9
<1> QED
  BY <1>10, <1>12, <1>13

-----------------------------------------------------------------------------
(* What stays as the server and the device gain. *)

(* What no step but Wipe takes away.                                        *)
Grows ==
  /\ scope' = scope
  /\ \A x \in Executions : logs[x] # None =>
       logs'[x] # None /\ ToSet(logs[x]) \subseteq ToSet(logs'[x])
  /\ \A x \in Executions : conflicts[x] \subseteq conflicts'[x]
  /\ OnServer \subseteq OnServer'
  /\ objects \subseteq objects'
  /\ files \cup objects \subseteq files' \cup objects'

(* The server has more when its logs and conflicts do.                      *)
LEMMA ServerGrows ==
  ASSUME \A x \in Executions : logs[x] # None =>
           logs'[x] # None /\ ToSet(logs[x]) \subseteq ToSet(logs'[x]),
         \A x \in Executions : conflicts[x] \subseteq conflicts'[x]
  PROVE  OnServer \subseteq OnServer'
<1> DEFINE Has(x)  == conflicts[x] \cup (IF logs[x] = None THEN {} ELSE ToSet(logs[x]))
           Keeps(x) == conflicts'[x] \cup (IF logs'[x] = None THEN {} ELSE ToSet(logs'[x]))
<1>1. \A x \in Executions : Has(x) \subseteq Keeps(x)
  OBVIOUS
<1>2. OnServer = UNION {Has(x) : x \in Executions}
  BY Zenon DEF OnServer
<1>3. OnServer' = UNION {Keeps(x) : x \in Executions}
  BY Zenon DEF OnServer
<1> HIDE DEF Has, Keeps
<1> QED
  BY <1>1, <1>2, <1>3

(* A copy stays sound.                                                      *)
LEMMA SoundGrows ==
  ASSUME NEW copy, NEW log, NEW log2, NEW server, NEW server2,
         NEW kept, NEW kept2, NEW stored, NEW stored2,
         Sound(copy, log, server, kept, stored),
         log # None => log2 # None, server \subseteq server2,
         stored \subseteq stored2, kept \cup stored \subseteq kept2 \cup stored2
  PROVE  Sound(copy, log2, server2, kept2, stored2)
BY DEF Sound

(* So does what is uploaded with events.                                    *)
LEMMA NamedGrows ==
  ASSUME NEW events, NEW uploads, NEW stored, NEW stored2,
         Named(events, uploads, stored), stored \subseteq stored2
  PROVE  Named(events, uploads, stored2)
BY DEF Named

(* And an operation, while the backup's copy holds no more.                 *)
LEMMA OperationGrows ==
  ASSUME NEW o, NEW log, NEW log2, NEW server, NEW server2, NEW kept, NEW kept2,
         NEW stored, NEW stored2, NEW saved, NEW saved2,
         OperationSound(o, log, server, kept, stored, saved),
         log # None => log2 # None, server \subseteq server2,
         stored \subseteq stored2, kept \cup stored \subseteq kept2 \cup stored2,
         o.pc = "save" /\ o.then = "restored" => Waiting(saved2) \subseteq Waiting(saved)
  PROVE  OperationSound(o, log2, server2, kept2, stored2, saved2)
<1>1. Sound(o.loc, log2, server2, kept2, stored2)
  BY SoundGrows DEF OperationSound
<1>2. o.pc = "push" => Named(o.loc.pending, o.uploads, stored2)
  BY NamedGrows DEF OperationSound
<1> QED
  BY <1>1, <1>2 DEF OperationSound

(* And a push.                                                              *)
LEMMA PushGrows ==
  ASSUME NEW r, NEW log, NEW log2, NEW kept, NEW kept2, NEW stored, NEW stored2,
         PushSound(r, log, kept, stored), log # None => log2 # None,
         ToSet(log) \subseteq ToSet(log2), kept \subseteq kept2, stored \subseteq stored2
  PROVE  PushSound(r, log2, kept2, stored2)
<1>1. Named(r.events, r.uploads, stored2)
  BY NamedGrows DEF PushSound
<1> QED
  BY <1>1 DEF PushSound

(* An idle operation is sound.                                              *)
LEMMA IdleSound ==
  ASSUME NEW log, NEW server, NEW kept, NEW stored, NEW saved
  PROVE  OperationSound(Idle, log, server, kept, stored, saved)
<1>1. /\ Idle.pc = "idle" /\ Idle.loc = None /\ Idle.known = {}
      /\ Idle.del = {} /\ Idle.then = "idle"
  BY DEF Idle
<1> QED
  BY <1>1 DEF OperationSound, Sound, Waiting, Registered

(* What a step that only adds leaves as it is stays sound.                  *)
LEMMA Stays ==
  ASSUME BrowserInv, Grows
  PROVE  /\ actors' = actors
         /\ \A x \in Executions : copies'[x] = copies[x] =>
              Sound(copies'[x], logs'[x], OnServer', files', objects')
         /\ backup' = backup => BackupSound'
         /\ \A a \in actors : draft'[a] = draft[a] /\ draft[a] # None =>
              draft'[a].file \in {None} \cup files' \cup objects'
         /\ \A a \in actors : op'[a] = op[a] /\ backup' = backup =>
              OperationSound(op'[a], logs'[Exec(a)], OnServer', files', objects',
                             SavedCopy(Exec(a))')
         /\ \A r \in pushes : PushSound(r, logs'[r.exec], conflicts'[r.exec], objects')
<1>1. actors' = actors
  BY DEF Grows, actors
<1>2. ASSUME NEW x \in Executions
      PROVE  /\ logs[x] # None => logs'[x] # None /\ ToSet(logs[x]) \subseteq ToSet(logs'[x])
             /\ conflicts[x] \subseteq conflicts'[x]
             /\ OnServer \subseteq OnServer' /\ objects \subseteq objects'
             /\ files \cup objects \subseteq files' \cup objects'
  BY DEF Grows
<1>3. ASSUME NEW x \in Executions, copies'[x] = copies[x]
      PROVE  Sound(copies'[x], logs'[x], OnServer', files', objects')
  <2>1. Sound(copies[x], logs[x], OnServer, files, objects)
    BY DEF BrowserInv, CopiesSound
  <2> QED
    BY <1>2, <1>3, <2>1, SoundGrows
<1>4. ASSUME backup' = backup
      PROVE  BackupSound'
  <2> SUFFICES ASSUME backup # None, NEW x \in Executions
               PROVE  Sound(backup.copies[x], logs'[x], OnServer', backup.files, objects')
    BY <1>4 DEF BackupSound
  <2>1. Sound(backup.copies[x], logs[x], OnServer, backup.files, objects)
    BY DEF BrowserInv, BackupSound
  <2>2. backup.files \cup objects \subseteq backup.files \cup objects'
    BY <1>2
  <2> QED
    BY <1>2, <2>1, <2>2, SoundGrows
<1>5. ASSUME NEW a \in actors, draft'[a] = draft[a], draft[a] # None
      PROVE  draft'[a].file \in {None} \cup files' \cup objects'
  BY <1>5 DEF BrowserInv, DraftsKept, Grows
<1>6. ASSUME NEW a \in actors, op'[a] = op[a], backup' = backup
      PROVE  OperationSound(op'[a], logs'[Exec(a)], OnServer', files', objects',
                            SavedCopy(Exec(a))')
  <2>1. OperationSound(op[a], logs[Exec(a)], OnServer, files, objects, SavedCopy(Exec(a)))
    BY DEF BrowserInv, OperationsSound
  <2>2. Exec(a) \in Executions
    BY ScopesAssumption DEF BrowserInv, BrowserTypeOK, actors, Exec
  <2>3. SavedCopy(Exec(a))' = SavedCopy(Exec(a))
    BY <1>6 DEF SavedCopy, Exec
  <2> QED
    BY <1>2, <1>6, <2>1, <2>2, <2>3, OperationGrows
<1>7. ASSUME NEW r \in pushes
      PROVE  PushSound(r, logs'[r.exec], conflicts'[r.exec], objects')
  <2>1. PushSound(r, logs[r.exec], conflicts[r.exec], objects)
    BY DEF BrowserInv, PushesSound
  <2>2. r.exec \in Executions
    BY DEF BrowserInv, BrowserTypeOK, Pushed
  <2>3. logs[r.exec] # None
    BY <2>1 DEF PushSound
  <2> QED
    BY <1>2, <2>1, <2>2, <2>3, PushGrows
<1> QED
  BY <1>1, <1>3, <1>4, <1>5, <1>6, <1>7

-----------------------------------------------------------------------------
(* Operations and copies as records. *)

Thens == {"idle", "sync", "decide", "pull", "recorded", "restored"}

(* A copy is not None, and what it holds are events.                        *)
LEMMA CopyTypes ==
  ASSUME NEW c \in Copy
  PROVE  /\ c # None
         /\ c.records \in Seq(Event) /\ c.pending \in Seq(Event)
         /\ c.rejected \subseteq Event /\ c.unregistered \in BOOLEAN
         /\ Waiting(c) = ToSet(c.pending) \cup c.rejected
         /\ Waiting(c) \subseteq Event
<1>1. c # None
  BY NoCopyAssumption
<1>2. /\ c.records \in Seq(Event) /\ c.pending \in Seq(Event)
      /\ c.rejected \subseteq Event /\ c.unregistered \in BOOLEAN
  BY DEF Copy
<1>3. ToSet(c.pending) \subseteq Event
  BY <1>2, Elements
<1> QED
  BY <1>1, <1>2, <1>3 DEF Waiting

(* The copies the operations build.                                         *)
LEMMA PendingIs ==
  ASSUME NEW c \in Copy, NEW s \in Seq(Event)
  PROVE  LET d == [c EXCEPT !.pending = s] IN
           /\ d \in Copy /\ d.pending = s /\ d.records = c.records
           /\ d.rejected = c.rejected /\ d.unregistered = c.unregistered
BY DEF Copy

(* A copy with the log that was read or pulled.                             *)
LEMMA RecordsAre ==
  ASSUME NEW c \in Copy, NEW s \in Seq(Event)
  PROVE  LET d == [c EXCEPT !.records = s] IN
           /\ d \in Copy /\ d.records = s /\ d.pending = c.pending
           /\ d.rejected = c.rejected /\ d.unregistered = c.unregistered
BY DEF Copy

(* A copy whose execution the server has, with its log.                     *)
LEMMA RegisteredIs ==
  ASSUME NEW c \in Copy, NEW s \in Seq(Event)
  PROVE  LET d == [c EXCEPT !.records = s, !.unregistered = FALSE] IN
           /\ d \in Copy /\ d.records = s /\ d.pending = c.pending
           /\ d.rejected = c.rejected /\ d.unregistered = FALSE
BY DEF Copy

(* A copy as it is fetched.                                                 *)
LEMMA FreshIs ==
  ASSUME NEW s \in Seq(Event)
  PROVE  LET d == Fresh(s) IN
           /\ d \in Copy /\ d.records = s /\ d.pending = << >>
           /\ d.rejected = {} /\ d.unregistered = FALSE
BY DEF Copy, Fresh

(* A copy of an execution that is started here.                             *)
LEMMA StartedIs ==
  LET d == [Fresh(<< >>) EXCEPT !.unregistered = TRUE] IN
    /\ d \in Copy /\ d.records = << >> /\ d.pending = << >>
    /\ d.rejected = {} /\ d.unregistered = TRUE
<1> DEFINE s == << >>
<1>1. s \in Seq(Event)
  OBVIOUS
<1> HIDE DEF s
<1>2. /\ Fresh(s) \in Copy /\ Fresh(s).records = s /\ Fresh(s).pending = << >>
      /\ Fresh(s).rejected = {}
  BY <1>1, FreshIs
<1>3. LET d == [Fresh(s) EXCEPT !.unregistered = TRUE] IN
        /\ d \in Copy /\ d.records = s /\ d.pending = << >>
        /\ d.rejected = {} /\ d.unregistered = TRUE
  BY <1>2 DEF Copy
<1> QED
  BY <1>3 DEF s

(* The idle operation.                                                      *)
LEMMA IdleIs ==
  /\ Idle \in Operation /\ Idle.pc = "idle" /\ Idle.loc = None /\ Idle.known = {}
  /\ Idle.uploads = {} /\ Idle.del = {} /\ Idle.then = "idle"
BY DEF Idle, Operation, Pcs

(* The operations the steps go on with.                                     *)
LEMMA SavingIs ==
  ASSUME NEW o \in Operation, NEW c \in Copy, NEW t \in Thens
  PROVE  /\ Saving(o, c, t) \in Operation
         /\ Saving(o, c, t).pc = "save" /\ Saving(o, c, t).then = t
         /\ Saving(o, c, t).loc = c /\ Saving(o, c, t).known = o.known
         /\ Saving(o, c, t).uploads = o.uploads /\ Saving(o, c, t).del = o.del
BY DEF Operation, Saving, Pcs, Thens

(* An operation at its next step.                                           *)
LEMMA GoingTo ==
  ASSUME NEW o \in Operation, NEW p \in Pcs
  PROVE  LET q == [o EXCEPT !.pc = p] IN
           /\ q \in Operation /\ q.pc = p /\ q.loc = o.loc /\ q.then = o.then
           /\ q.known = o.known /\ q.uploads = o.uploads /\ q.del = o.del
BY DEF Operation

(* An operation that uploads these contents.                                *)
LEMMA UploadingIs ==
  ASSUME NEW o \in Operation, NEW U \in SUBSET Uploads
  PROVE  LET q == [o EXCEPT !.pc = "push", !.uploads = U] IN
           /\ q \in Operation /\ q.pc = "push" /\ q.loc = o.loc /\ q.then = o.then
           /\ q.known = o.known /\ q.uploads = U /\ q.del = o.del
BY DEF Operation, Pcs

(* An operation that has these contents left to delete.                     *)
LEMMA DeletingIs ==
  ASSUME NEW o \in Operation, NEW D \in SUBSET Files
  PROVE  LET q == [o EXCEPT !.del = D] IN
           /\ q \in Operation /\ q.pc = o.pc /\ q.loc = o.loc /\ q.then = o.then
           /\ q.known = o.known /\ q.uploads = o.uploads /\ q.del = D
BY DEF Operation

(* An operation that has loaded a copy.                                     *)
LEMMA LoadingIs ==
  ASSUME NEW p \in Pcs, NEW c \in Copy \cup {None}, NEW K \in SUBSET Event
  PROVE  LET q == [Idle EXCEPT !.pc = p, !.loc = c, !.known = K] IN
           /\ q \in Operation /\ q.pc = p /\ q.loc = c /\ q.then = "idle"
           /\ q.known = K /\ q.uploads = {} /\ q.del = {}
BY DEF Operation, Idle

(* What BrowserTypeOK says of an execution and of an actor.                 *)
LEMMA ExecutionTypes ==
  ASSUME BrowserTypeOK, NEW x \in Executions
  PROVE  /\ logs[x] # None => logs[x] \in Seq(Event)
         /\ copies[x] # None => copies[x] \in Copy
         /\ Waiting(copies[x]) \subseteq Event
         /\ conflicts[x] \subseteq Event
         /\ OnServer \subseteq Event
<1>1. copies[x] # None => copies[x] \in Copy
  BY DEF BrowserTypeOK
<1>2. Waiting(copies[x]) \subseteq Event
  BY <1>1, CopyTypes DEF Waiting
<1>3. \A y \in Executions : /\ conflicts[y] \subseteq Event
                            /\ logs[y] # None => logs[y] \in Seq(Event)
  BY DEF BrowserTypeOK
<1>4. \A y \in Executions : logs[y] # None => ToSet(logs[y]) \subseteq Event
  BY <1>3, Elements
<1>5. OnServer \subseteq Event
  BY <1>3, <1>4, Zenon DEF OnServer
<1> QED
  BY <1>1, <1>2, <1>3, <1>5

(* And of an actor.                                                         *)
LEMMA ActorTypes ==
  ASSUME BrowserTypeOK, NEW a \in actors
  PROVE  /\ Exec(a) \in Executions
         /\ a \in Tabs \X Executions
         /\ op[a] \in Operation
         /\ op[a].pc \in Pcs /\ op[a].then \in Thens
         /\ op[a].known \subseteq Event /\ op[a].del \subseteq Files
         /\ op[a].uploads \subseteq Uploads
         /\ op[a].pc = "idle" => op[a] = Idle
         /\ op[a].pc \notin {"idle", "fetch"} => op[a].loc \in Copy
         /\ draft[a] \in Event \cup {None}
<1>1. a \in Tabs \X Executions /\ Exec(a) \in Executions
  BY ScopesAssumption DEF BrowserTypeOK, actors, Exec
<1>2. op[a] \in Operation /\ draft[a] \in Event \cup {None}
  BY DEF BrowserTypeOK
<1>3. /\ op[a].pc \in Pcs /\ op[a].then \in Thens
      /\ op[a].known \subseteq Event /\ op[a].del \subseteq Files
      /\ op[a].uploads \subseteq Uploads
      /\ op[a].loc \in Copy \cup {None}
  BY <1>2 DEF Operation, Thens
<1> QED
  BY <1>1, <1>2, <1>3 DEF BrowserTypeOK

-----------------------------------------------------------------------------
(* Steps of one operation. *)

(* What is recorded on the device is known to the server when that is so of *)
(* what each step takes from the device.                                    *)
Recorded == recorded \subseteq OnServer \cup OnDevice \cup BackedUp \cup lost

(* A step of one operation that leaves the copies as they are.              *)
LEMMA GoesOn ==
  ASSUME BrowserInv, Grows, UNCHANGED << copies, backup, recorded, lost, wipes >>,
         NEW a \in actors, NEW o \in Operation, Goes(a, o),
         OperationSound(o, logs'[Exec(a)], OnServer', files', objects', SavedCopy(Exec(a))),
         o.pc = "save" /\ o.then = "restored" => backup # None,
         o.pc # "idle" => \/ op[a].pc # "idle" /\ op[a].known \subseteq o.known
                          \/ Waiting(copies[Exec(a)]) \subseteq o.known
  PROVE  CopiesSound' /\ BackupSound' /\ OperationsSound' /\ NothingLost' /\ Recorded'
<1>1. CopiesSound' /\ BackupSound'
  BY Stays DEF CopiesSound
<1>2. actors' = actors
  BY DEF Grows, actors
<1>3. /\ op'[a] = o
      /\ \A b \in actors : b # a => op'[b] = op[b]
  BY DEF Goes, BrowserInv, BrowserTypeOK
<1>4. OperationsSound'
  <2> SUFFICES ASSUME NEW b \in actors
               PROVE  /\ OperationSound(op'[b], logs'[Exec(b)], OnServer', files', objects',
                                        SavedCopy(Exec(b))')
                      /\ op'[b].pc = "save" /\ op'[b].then = "restored" => backup # None
    BY <1>2 DEF OperationsSound, Exec
  <2>1. CASE b = a
    BY <2>1, <1>3 DEF SavedCopy, Exec
  <2>2. CASE b # a
    <3>1. op'[b] = op[b]
      BY <2>2, <1>3
    <3> QED
      BY <3>1, Stays DEF BrowserInv, OperationsSound
  <2> QED
    BY <2>1, <2>2
<1>5. NothingLost'
  <2> SUFFICES ASSUME OneTabEach, wipes = 0
               PROVE  /\ lost = {}
                      /\ \A b \in actors :
                           op'[b].pc # "idle" => Waiting(copies[Exec(b)]) \subseteq op'[b].known
    BY <1>2 DEF NothingLost, OneTabEach, Exec, Waiting
  <2>1. lost = {} /\ \A b \in actors :
          op[b].pc # "idle" => Waiting(copies[Exec(b)]) \subseteq op[b].known
    BY DEF BrowserInv, NothingLost
  <2> QED
    BY <1>3, <2>1
<1>6. Recorded'
  <2>1. OnDevice' = OnDevice /\ BackedUp' = BackedUp
    BY DEF OnDevice, BackedUp, Waiting
  <2> QED
    BY <2>1 DEF BrowserInv, Recorded, Grows
<1> QED
  BY <1>1, <1>4, <1>5, <1>6

(* No operation that waits for an answer moves, and no push.                *)
LEMMA PushesStay ==
  ASSUME BrowserInv, Grows, pushes' = pushes,
         \A b \in actors : op[b].pc = "answer" => op'[b] = op[b]
  PROVE  PushesSound' /\ PushesOwned'
<1>1. actors' = actors
  BY DEF Grows, actors
<1>2. PushesSound'
  BY Stays DEF PushesSound
<1>3. PushesOwned'
  BY <1>1 DEF PushesOwned, BrowserInv, Exec
<1> QED
  BY <1>2, <1>3

(* Nothing was decided, and the contents kept or stored stay.               *)
LEMMA DraftsStay ==
  ASSUME BrowserInv, Grows, \A b \in actors : draft'[b] \in {draft[b], None}
  PROVE  DraftsKept'
<1>1. actors' = actors
  BY DEF Grows, actors
<1>2. \A b \in actors : draft'[b] # None => draft'[b] = draft[b] /\ draft[b] # None
  OBVIOUS
<1> QED
  BY <1>1, <1>2, Stays DEF DraftsKept

(* The server is left alone.                                                *)
LEMMA ServerStays ==
  ASSUME BrowserInv, UNCHANGED remote
  PROVE  ServerSound' /\ OnServer' = OnServer
BY DEF BrowserInv, ServerSound, OnServer, remote

(* The types of the operations after a step of one.                         *)
LEMMA OperationTypes ==
  ASSUME BrowserTypeOK, scope' = scope, NEW a \in actors, NEW o \in Operation, Goes(a, o),
         o.pc = "idle" => o = Idle, o.pc \notin {"idle", "fetch"} => o.loc # None
  PROVE  /\ op' \in [actors' -> Operation]
         /\ \A b \in actors' :
              /\ op'[b].pc = "idle" => op'[b] = Idle
              /\ op'[b].pc \notin {"idle", "fetch"} => op'[b].loc # None
<1>1. actors' = actors
  BY DEF actors
<1>2. op \in [actors -> Operation]
  BY DEF BrowserTypeOK
<1>3. /\ op' \in [actors -> Operation] /\ op'[a] = o
      /\ \A b \in actors : b # a => op'[b] = op[b]
  BY <1>2 DEF Goes
<1> QED
  BY <1>1, <1>3 DEF BrowserTypeOK

(* A step of one operation that changes nothing else, or drops its draft.   *)
LEMMA GoesOnAlone ==
  ASSUME BrowserInv, NEW a \in actors, NEW o \in Operation, Goes(a, o),
         UNCHANGED << scope, remote, device, pushes, count, history >>,
         draft' \in [actors -> Event \cup {None}],
         \A b \in actors : draft'[b] \in {draft[b], None},
         op[a].pc # "answer",
         OperationSound(o, logs[Exec(a)], OnServer, files, objects, SavedCopy(Exec(a))),
         o.pc = "save" /\ o.then = "restored" => backup # None,
         o.pc # "idle" => \/ op[a].pc # "idle" /\ op[a].known \subseteq o.known
                          \/ Waiting(copies[Exec(a)]) \subseteq o.known,
         o.pc = "idle" => o = Idle, o.pc \notin {"idle", "fetch"} => o.loc # None
  PROVE  BrowserInv'
<1> USE DEF device, history
<1>1. ServerSound' /\ OnServer' = OnServer /\ UNCHANGED << logs, conflicts, objects >>
  BY ServerStays DEF remote
<1>2. Grows
  BY <1>1 DEF Grows
<1>3. CopiesSound' /\ BackupSound' /\ OperationsSound' /\ NothingLost' /\ Recorded'
  BY <1>1, <1>2, GoesOn
<1>4. \A b \in actors : op[b].pc = "answer" => op'[b] = op[b]
  BY DEF Goes, BrowserInv, BrowserTypeOK
<1>5. PushesSound' /\ PushesOwned'
  BY <1>2, <1>4, PushesStay
<1>6. DraftsKept'
  BY <1>2, DraftsStay
<1>7. BrowserTypeOK'
  <2>1. actors' = actors
    BY DEF actors
  <2>2. /\ op' \in [actors' -> Operation]
        /\ \A b \in actors' :
             /\ op'[b].pc = "idle" => op'[b] = Idle
             /\ op'[b].pc \notin {"idle", "fetch"} => op'[b].loc # None
    BY OperationTypes DEF BrowserInv
  <2> QED
    BY <1>1, <2>1, <2>2 DEF BrowserInv, BrowserTypeOK
<1> QED
  BY <1>1, <1>3, <1>5, <1>6, <1>7 DEF BrowserInv, Recorded

(* Nothing is pushed before the execution is registered.                    *)
LEMMA StageIs ==
  ASSUME NEW c, c.unregistered \in BOOLEAN
  PROVE  /\ Stage(c) \in {"register", "upload", "pull"} /\ Stage(c) \in Pcs
         /\ Stage(c) \in Registered => ~ c.unregistered
<1>1. CASE c.unregistered
  <2>1. Stage(c) = "register"
    BY <1>1 DEF Stage
  <2> QED
    BY <2>1 DEF Pcs, Registered
<1>2. CASE ~ c.unregistered
  <2>1. Stage(c) \in {"upload", "pull"}
    BY <1>2 DEF Stage
  <2> QED
    BY <1>2, <2>1 DEF Pcs
<1> QED
  BY <1>1, <1>2

(* What an operation begins with.                                           *)
LEMMA LoadedIs ==
  ASSUME BrowserInv, NEW a \in actors, NEW p \in Pcs
  PROVE  LET q == Loaded(a, p) IN
           /\ q \in Operation /\ q.pc = p /\ q.loc = copies[Exec(a)]
           /\ q.known = Waiting(copies[Exec(a)])
           /\ q.uploads = {} /\ q.del = {} /\ q.then = "idle"
<1> DEFINE c == copies[Exec(a)]
           K == Waiting(c)
           q == [Idle EXCEPT !.pc = p, !.loc = c, !.known = K]
<1>1. c \in Copy \cup {None} /\ K \in SUBSET Event
  BY ActorTypes, ExecutionTypes DEF BrowserInv
<1>2. Loaded(a, p) = q
  BY DEF Loaded
<1> HIDE DEF c, K
<1>3. /\ q \in Operation /\ q.pc = p /\ q.loc = c /\ q.then = "idle"
      /\ q.known = K /\ q.uploads = {} /\ q.del = {}
  BY <1>1, LoadingIs
<1> HIDE DEF q
<1> QED
  BY <1>2, <1>3, IdleIs DEF K, c

(* An operation that has just loaded the copy is sound.                     *)
LEMMA LoadedSound ==
  ASSUME BrowserInv, NEW a \in actors, NEW p \in Pcs,
         p = "fetch" => logs[Exec(a)] # None /\ copies[Exec(a)] = None,
         p \notin {"reread", "push", "save"},
         p \in Registered => ~ copies[Exec(a)].unregistered
  PROVE  OperationSound(Loaded(a, p), logs[Exec(a)], OnServer, files, objects,
                        SavedCopy(Exec(a)))
<1> DEFINE q == Loaded(a, p)
<1>1. /\ q.pc = p /\ q.loc = copies[Exec(a)] /\ q.known = Waiting(copies[Exec(a)])
      /\ q.del = {} /\ q.then = "idle"
  BY LoadedIs
<1>2. Sound(copies[Exec(a)], logs[Exec(a)], OnServer, files, objects)
  BY ActorTypes DEF BrowserInv, CopiesSound
<1> HIDE DEF q
<1>3. OperationSound(q, logs[Exec(a)], OnServer, files, objects, SavedCopy(Exec(a)))
  BY <1>1, <1>2 DEF OperationSound, Registered
<1> QED
  BY <1>3 DEF q

(* Drafts are events.                                                       *)
LEMMA DraftsTyped ==
  ASSUME BrowserInv
  PROVE  draft \in [actors -> Event \cup {None}]
BY DEF BrowserInv, BrowserTypeOK

(* Loading knows all the copy on the device holds.                          *)
LEMMA RecordKeeps ==
  ASSUME BrowserInv, NEW a \in actors, Record(a)
  PROVE  BrowserInv'
<1> DEFINE p == IF copies[Exec(a)] = None THEN "fetch" ELSE "decide"
           o == Loaded(a, p)
<1>1. /\ op[a].pc = "idle" /\ Goes(a, o)
      /\ UNCHANGED << scope, remote, device, draft, pushes, count, history >>
      /\ copies[Exec(a)] = None => logs[Exec(a)] # None
  BY DEF Record, At
<1>2. p \in Pcs /\ p \in {"fetch", "decide"} /\ p \notin Registered
  BY DEF Pcs, Registered
<1>3. OperationSound(o, logs[Exec(a)], OnServer, files, objects, SavedCopy(Exec(a)))
  BY <1>1, <1>2, LoadedSound
<1>4. /\ o \in Operation /\ o.pc = p /\ o.loc = copies[Exec(a)]
      /\ o.known = Waiting(copies[Exec(a)]) /\ o.then = "idle"
  BY <1>2, LoadedIs
<1>5. o.pc \notin {"idle", "fetch"} => o.loc # None
  BY <1>4
<1> HIDE DEF o, p
<1> QED
  BY <1>1, <1>2, <1>3, <1>4, <1>5, DraftsTyped, GoesOnAlone

(* Syncing loads too, and pushes only what is registered.                   *)
LEMMA SyncKeeps ==
  ASSUME BrowserInv, NEW a \in actors, Sync(a)
  PROVE  BrowserInv'
<1> DEFINE p == Stage(copies[Exec(a)])
           o == Loaded(a, p)
<1>1. /\ op[a].pc = "idle" /\ Goes(a, o) /\ copies[Exec(a)] # None
      /\ UNCHANGED << scope, remote, device, draft, pushes, count, history >>
  BY DEF Sync, At
<1>2. copies[Exec(a)].unregistered \in BOOLEAN
  BY <1>1, ActorTypes, ExecutionTypes, CopyTypes DEF BrowserInv
<1>3. /\ p \in {"register", "upload", "pull"} /\ p \in Pcs
      /\ p \in Registered => ~ copies[Exec(a)].unregistered
  BY <1>2, StageIs
<1>4. OperationSound(o, logs[Exec(a)], OnServer, files, objects, SavedCopy(Exec(a)))
  BY <1>3, LoadedSound
<1>5. /\ o \in Operation /\ o.pc = p /\ o.loc = copies[Exec(a)]
      /\ o.known = Waiting(copies[Exec(a)]) /\ o.then = "idle"
  BY <1>3, LoadedIs
<1> HIDE DEF o, p
<1> QED
  BY <1>1, <1>3, <1>4, <1>5, DraftsTyped, GoesOnAlone

(* Without a copy on the device there is nothing to know.                   *)
LEMMA OpenExecutionKeeps ==
  ASSUME BrowserInv, NEW a \in actors, OpenExecution(a)
  PROVE  BrowserInv'
<1> DEFINE o == [Idle EXCEPT !.pc = "fetch"]
<1>1. /\ op[a].pc = "idle" /\ Goes(a, o)
      /\ copies[Exec(a)] = None /\ logs[Exec(a)] # None
      /\ UNCHANGED << scope, remote, device, draft, pushes, count, history >>
  BY DEF OpenExecution, At
<1>2. /\ o \in Operation /\ o.pc = "fetch" /\ o.loc = None /\ o.known = {}
      /\ o.del = {} /\ o.then = "idle"
  BY IdleIs, GoingTo, ZenonT(40) DEF Pcs
<1>3. Waiting(copies[Exec(a)]) = {} /\ Waiting(None) = {}
  BY <1>1 DEF Waiting
<1> HIDE DEF o
<1>4. OperationSound(o, logs[Exec(a)], OnServer, files, objects, SavedCopy(Exec(a)))
  BY <1>1, <1>2, <1>3 DEF OperationSound, Sound, Registered
<1> QED
  BY <1>1, <1>2, <1>3, <1>4, DraftsTyped, GoesOnAlone

(* What is known of an operation and its execution.                         *)
LEMMA OperationIs ==
  ASSUME BrowserInv, NEW a \in actors
  PROVE  /\ Exec(a) \in Executions /\ op[a] \in Operation
         /\ OperationSound(op[a], logs[Exec(a)], OnServer, files, objects, SavedCopy(Exec(a)))
         /\ logs[Exec(a)] # None =>
              /\ logs[Exec(a)] \in Seq(Event) /\ ToSet(logs[Exec(a)]) \subseteq OnServer
              /\ FilesOf(ToSet(logs[Exec(a)])) \subseteq objects
         /\ conflicts[Exec(a)] \subseteq OnServer /\ FilesOf(conflicts[Exec(a)]) \subseteq objects
         /\ op[a].pc \notin {"idle", "fetch"} => op[a].loc \in Copy
<1>1. /\ Exec(a) \in Executions /\ op[a] \in Operation
      /\ op[a].pc \notin {"idle", "fetch"} => op[a].loc \in Copy
  BY ActorTypes DEF BrowserInv
<1>2. OperationSound(op[a], logs[Exec(a)], OnServer, files, objects, SavedCopy(Exec(a)))
  BY DEF BrowserInv, OperationsSound
<1>3. /\ logs[Exec(a)] # None => FilesOf(ToSet(logs[Exec(a)])) \subseteq objects
      /\ FilesOf(conflicts[Exec(a)]) \subseteq objects
  BY <1>1 DEF BrowserInv, ServerSound
<1>4. /\ logs[Exec(a)] # None => ToSet(logs[Exec(a)]) \subseteq OnServer
      /\ conflicts[Exec(a)] \subseteq OnServer
  BY <1>1, Zenon DEF OnServer
<1>5. logs[Exec(a)] # None => logs[Exec(a)] \in Seq(Event)
  BY <1>1, ExecutionTypes DEF BrowserInv
<1> QED
  BY <1>1, <1>2, <1>3, <1>4, <1>5

(* A fetched copy holds the server's log and nothing else.                  *)
LEMMA FetchKeeps ==
  ASSUME BrowserInv, NEW a \in actors, Fetch(a)
  PROVE  BrowserInv'
<1> DEFINE log == logs[Exec(a)]
           c   == Fresh(log)
           o   == Saving(op[a], c, "decide")
<1>1. /\ op[a].pc = "fetch" /\ Goes(a, o)
      /\ UNCHANGED << scope, remote, device, draft, pushes, count, history >>
  BY DEF Fetch, At
<1>2. OperationSound(op[a], log, OnServer, files, objects, SavedCopy(Exec(a)))
  BY OperationIs
<1>3. log # None /\ op[a].loc = None /\ Waiting(None) = {}
  BY <1>1, <1>2 DEF OperationSound, Waiting
<1>4. log \in Seq(Event) /\ ToSet(log) \subseteq OnServer
  BY <1>3, OperationIs
<1>5. /\ c \in Copy /\ c.records = log /\ c.pending = << >>
      /\ c.rejected = {} /\ c.unregistered = FALSE
  BY <1>4, FreshIs
<1>6. Waiting(c) = {} /\ c # None /\ op[a] \in Operation
  BY <1>5, OperationIs, CopyTypes, Elements
<1> HIDE DEF c
<1>7. /\ o \in Operation /\ o.pc = "save" /\ o.loc = c /\ o.then = "decide"
      /\ o.known = op[a].known /\ o.del = op[a].del
  <2>1. op[a] \in Operation /\ c \in Copy /\ "decide" \in Thens
    BY <1>5, <1>6 DEF Thens
  <2> QED
    BY <2>1, SavingIs, SMT
<1> HIDE DEF o, log
<1>8. Sound(c, log, OnServer, files, objects)
  BY <1>3, <1>4, <1>5, <1>6 DEF Sound, FilesOf
<1>9. OperationSound(o, log, OnServer, files, objects, SavedCopy(Exec(a)))
  BY <1>2, <1>3, <1>6, <1>7, <1>8 DEF OperationSound, Registered
<1> QED
  BY <1>1, <1>6, <1>7, <1>9, DraftsTyped, GoesOnAlone DEF log

(* The recorded event waits in the copy; its content was kept before.       *)
LEMMA DecideKeeps ==
  ASSUME BrowserInv, NEW a \in actors, Decide(a)
  PROVE  BrowserInv'
<1> DEFINE copy == op[a].loc
           c    == [copy EXCEPT !.pending = Append(@, draft[a])]
           o    == IF draft[a] # None /\ Open(copy.records \o copy.pending)
                     THEN Saving(op[a], c, "recorded") ELSE Idle
<1>1. /\ op[a].pc = "decide" /\ Goes(a, o) /\ draft' = [draft EXCEPT ![a] = None]
      /\ UNCHANGED << scope, remote, device, pushes, count, history >>
  BY DEF Decide, At
<1>2. draft' \in [actors -> Event \cup {None}] /\ \A b \in actors : draft'[b] \in {draft[b], None}
  BY <1>1, DraftsTyped
<1>3. /\ OperationSound(op[a], logs[Exec(a)], OnServer, files, objects, SavedCopy(Exec(a)))
      /\ op[a] \in Operation /\ copy \in Copy
  BY <1>1, OperationIs
<1>4. CASE o = Idle
  <2> HIDE DEF o
  <2> QED
    BY <1>1, <1>2, <1>4, IdleSound, IdleIs, GoesOnAlone
<1>5. CASE o = Saving(op[a], c, "recorded") /\ draft[a] # None
  <2>1. /\ draft[a] \in Event /\ draft[a].file \in {None} \cup files \cup objects
    BY <1>5, DraftsTyped DEF BrowserInv, DraftsKept
  <2>2. /\ copy.pending \in Seq(Event) /\ copy.rejected \subseteq Event
        /\ Waiting(copy) = ToSet(copy.pending) \cup copy.rejected
        /\ copy # None
    BY <1>3, CopyTypes
  <2>3. /\ Append(copy.pending, draft[a]) \in Seq(Event)
        /\ Append(copy.pending, draft[a]) # << >>
        /\ ToSet(Append(copy.pending, draft[a])) = ToSet(copy.pending) \cup {draft[a]}
    BY <2>1, <2>2, Elements
  <2>4. /\ c \in Copy /\ c.pending = Append(copy.pending, draft[a])
        /\ c.records = copy.records /\ c.rejected = copy.rejected
        /\ c.unregistered = copy.unregistered
    BY <1>3, <2>3, PendingIs
  <2>5. Waiting(c) = Waiting(copy) \cup {draft[a]} /\ c # None
    BY <2>2, <2>3, <2>4, CopyTypes
  <2> HIDE DEF c, o
  <2>6. /\ o \in Operation /\ o.pc = "save" /\ o.loc = c /\ o.then = "recorded"
        /\ o.known = op[a].known /\ o.del = op[a].del
    <3>1. op[a] \in Operation /\ c \in Copy /\ "recorded" \in Thens
      BY <1>3, <2>4 DEF Thens
    <3> QED
      BY <1>5, <3>1, SavingIs, SMT
  <2>7. Sound(copy, logs[Exec(a)], OnServer, files, objects)
    BY <1>3 DEF OperationSound
  <2> HIDE DEF copy
  <2>8. Sound(c, logs[Exec(a)], OnServer, files, objects)
    BY <2>1, <2>2, <2>4, <2>5, <2>7 DEF Sound, FilesOf
  <2>9. OperationSound(o, logs[Exec(a)], OnServer, files, objects, SavedCopy(Exec(a)))
    BY <1>3, <2>3, <2>4, <2>5, <2>6, <2>8 DEF OperationSound, Registered, copy
  <2> QED
    BY <1>1, <1>2, <2>5, <2>6, <2>9, GoesOnAlone
<1> QED
  BY <1>4, <1>5

(* The log read after registering is the server's.                          *)
LEMMA RereadKeeps ==
  ASSUME BrowserInv, NEW a \in actors, Reread(a)
  PROVE  BrowserInv'
<1> DEFINE log  == logs[Exec(a)]
           copy == op[a].loc
           c    == [copy EXCEPT !.records = log, !.unregistered = FALSE]
           o    == Saving(op[a], c, "sync")
<1>1. /\ op[a].pc = "reread" /\ Goes(a, o)
      /\ UNCHANGED << scope, remote, device, draft, pushes, count, history >>
  BY DEF Reread, At
<1>2. /\ OperationSound(op[a], log, OnServer, files, objects, SavedCopy(Exec(a)))
      /\ op[a] \in Operation /\ copy \in Copy
  BY <1>1, OperationIs
<1>3. log # None /\ Sound(copy, log, OnServer, files, objects)
  BY <1>1, <1>2 DEF OperationSound
<1>4. log \in Seq(Event) /\ ToSet(log) \subseteq OnServer
  BY <1>3, OperationIs
<1>5. /\ c \in Copy /\ c.records = log /\ c.pending = copy.pending
      /\ c.rejected = copy.rejected /\ c.unregistered = FALSE
  BY <1>2, <1>4, RegisteredIs
<1>6. c # None /\ copy # None /\ Waiting(c) = Waiting(copy)
  BY <1>2, <1>5, CopyTypes
<1> HIDE DEF c
<1>7. /\ o \in Operation /\ o.pc = "save" /\ o.loc = c /\ o.then = "sync"
      /\ o.known = op[a].known /\ o.del = op[a].del
  <2>1. op[a] \in Operation /\ c \in Copy /\ "sync" \in Thens
    BY <1>2, <1>5 DEF Thens
  <2> QED
    BY <2>1, SavingIs, SMT
<1> HIDE DEF o, log
<1>8. Sound(c, log, OnServer, files, objects)
  BY <1>3, <1>4, <1>5, <1>6 DEF Sound
<1>9. OperationSound(o, log, OnServer, files, objects, SavedCopy(Exec(a)))
  BY <1>1, <1>2, <1>6, <1>7, <1>8 DEF OperationSound, Registered
<1> QED
  BY <1>1, <1>6, <1>7, <1>9, DraftsTyped, GoesOnAlone DEF log

(* What is kept of the pending events' contents is uploaded, what is not    *)
(* is stored already; the name is that of the first event.                  *)
LEMMA UploadKeeps ==
  ASSUME BrowserInv, NEW a \in actors, Upload(a)
  PROVE  BrowserInv'
<1> DEFINE pending == op[a].loc.pending
           up(f)   == [file |-> f, name |-> pending[First(pending, f)].name]
           U       == {up(f) : f \in files \cap FilesOf(ToSet(pending))}
           o       == [op[a] EXCEPT !.pc = "push", !.uploads = U]
<1>1. /\ op[a].pc = "upload" /\ Goes(a, o)
      /\ UNCHANGED << scope, remote, device, draft, pushes, count, history >>
  BY DEF Upload, At
<1>2. /\ OperationSound(op[a], logs[Exec(a)], OnServer, files, objects, SavedCopy(Exec(a)))
      /\ op[a] \in Operation /\ op[a].loc \in Copy
  BY <1>1, OperationIs
<1>3. pending \in Seq(Event) /\ op[a].loc # None /\ ToSet(pending) \subseteq Waiting(op[a].loc)
  BY <1>2, CopyTypes
<1>4. files \subseteq Files
  BY DEF BrowserInv, BrowserTypeOK
<1> HIDE DEF pending
<1>5. ASSUME NEW f \in files \cap FilesOf(ToSet(pending))
      PROVE  /\ up(f).file = f /\ up(f) \in Uploads
             /\ \E i \in DOMAIN pending :
                  /\ pending[i].file = f /\ pending[i].name = up(f).name
                  /\ \A j \in 1..(i - 1) : pending[j].file # f
  <2>1. LET i == First(pending, f)
        IN  /\ i \in DOMAIN pending /\ pending[i].file = f
            /\ \A j \in 1..(i - 1) : pending[j].file # f
    BY <1>3, FirstIs
  <2>2. \A i \in DOMAIN pending : pending[i].name \in Names
    <3>1. \A i \in DOMAIN pending : pending[i] \in Event
      BY <1>3
    <3> QED
      BY <3>1 DEF Event
  <2> QED
    BY <1>4, <2>1, <2>2 DEF Uploads
<1> HIDE DEF up
<1>6. U \in SUBSET Uploads
  BY <1>5
<1>7. \A e \in ToSet(pending) : e.file \in {None} \cup files \cup objects
  <2>1. FilesOf(Waiting(op[a].loc)) \subseteq files \cup objects
    BY <1>2, <1>3 DEF OperationSound, Sound
  <2> QED
    BY <1>3, <2>1 DEF FilesOf
<1>8. Named(pending, U, objects)
  <2>1. \A e \in ToSet(pending) : e.file \in {None} \cup objects \cup {u.file : u \in U}
    <3> SUFFICES ASSUME NEW e \in ToSet(pending), e.file \notin {None} \cup objects
                 PROVE  e.file \in {u.file : u \in U}
      OBVIOUS
    <3>1. e.file \in files \cap FilesOf(ToSet(pending))
      BY <1>7 DEF FilesOf
    <3>2. up(e.file) \in U /\ up(e.file).file = e.file
      BY <1>5, <3>1
    <3> HIDE DEF U
    <3> QED
      BY <3>2
  <2>2. \A u \in U : \E i \in DOMAIN pending :
          /\ pending[i].file = u.file /\ pending[i].name = u.name
          /\ \A j \in 1..(i - 1) : pending[j].file # u.file
    BY <1>5
  <2> QED
    BY <2>1, <2>2 DEF Named
<1> HIDE DEF U
<1>9. /\ o \in Operation /\ o.pc = "push" /\ o.loc = op[a].loc /\ o.uploads = U
      /\ o.known = op[a].known /\ o.del = op[a].del /\ o.then = op[a].then
  BY <1>2, <1>6, UploadingIs
<1> HIDE DEF o
<1>10. OperationSound(o, logs[Exec(a)], OnServer, files, objects, SavedCopy(Exec(a)))
  BY <1>1, <1>2, <1>8, <1>9 DEF OperationSound, Registered, pending
<1> QED
  BY <1>1, <1>3, <1>9, <1>10, DraftsTyped, GoesOnAlone

(* The lines pulled are the server's, or all of its lines.                  *)
LEMMA PullKeeps ==
  ASSUME BrowserInv, NEW a \in actors, Pull(a)
  PROVE  BrowserInv'
<1> DEFINE copy == op[a].loc
           log  == logs[Exec(a)]
           new  == IF Len(log) >= Len(copy.records)
                     THEN copy.records \o SubSeq(log, Len(copy.records) + 1, Len(log))
                     ELSE log
           c    == [copy EXCEPT !.records = new]
           o    == IF Len(log) # Len(copy.records) THEN Saving(op[a], c, "idle") ELSE Idle
<1>1. /\ op[a].pc = "pull" /\ Goes(a, o)
      /\ UNCHANGED << scope, remote, device, draft, pushes, count, history >>
  BY DEF Pull, At
<1>2. /\ OperationSound(op[a], log, OnServer, files, objects, SavedCopy(Exec(a)))
      /\ op[a] \in Operation /\ copy \in Copy
  BY <1>1, OperationIs
<1>3. /\ copy # None /\ copy.records \in Seq(Event) /\ copy.pending \in Seq(Event)
  BY <1>2, CopyTypes
<1>4. log # None /\ Sound(copy, log, OnServer, files, objects)
  BY <1>1, <1>2, <1>3 DEF OperationSound, Sound, Registered
<1>5. log \in Seq(Event) /\ ToSet(log) \subseteq OnServer
  BY <1>4, OperationIs
<1>6. new \in Seq(Event) /\ ToSet(new) \subseteq OnServer
  <2>1. ToSet(copy.records) \subseteq OnServer
    BY <1>3, <1>4 DEF Sound
  <2>2. CASE Len(log) >= Len(copy.records)
    <3> DEFINE more == SubSeq(log, Len(copy.records) + 1, Len(log))
    <3>1. Len(copy.records) + 1 \in 1..(Len(log) + 1) /\ Len(log) \in Nat
      BY <1>3, <1>5, <2>2
    <3>2. more \in Seq(Event) /\ ToSet(more) \subseteq ToSet(log)
      BY <1>5, <3>1, Elements, SMTT(30)
    <3> HIDE DEF more
    <3>3. /\ copy.records \o more \in Seq(Event)
          /\ ToSet(copy.records \o more) = ToSet(copy.records) \cup ToSet(more)
      BY <1>3, <3>2, Elements
    <3>4. new = copy.records \o more
      BY <2>2 DEF more
    <3> QED
      BY <1>5, <2>1, <3>2, <3>3, <3>4
  <2>3. CASE ~ (Len(log) >= Len(copy.records))
    BY <1>5, <2>3
  <2> QED
    BY <2>2, <2>3
<1> HIDE DEF new, log
<1>7. CASE o = Idle
  <2> HIDE DEF o
  <2> QED
    BY <1>1, <1>7, IdleSound, IdleIs, DraftsTyped, GoesOnAlone
<1>8. CASE o = Saving(op[a], c, "idle")
  <2>1. /\ c \in Copy /\ c.records = new /\ c.pending = copy.pending
        /\ c.rejected = copy.rejected /\ c.unregistered = copy.unregistered
    BY <1>2, <1>6, RecordsAre
  <2>2. c # None /\ Waiting(c) = Waiting(copy)
    BY <1>2, <2>1, CopyTypes
  <2> HIDE DEF c, o
  <2>3. /\ o \in Operation /\ o.pc = "save" /\ o.loc = c /\ o.then = "idle"
        /\ o.known = op[a].known /\ o.del = op[a].del
    <3>1. op[a] \in Operation /\ c \in Copy /\ "idle" \in Thens
      BY <1>2, <2>1 DEF Thens
    <3> QED
      BY <1>8, <3>1, SavingIs, SMT
  <2>4. Sound(c, log, OnServer, files, objects)
    BY <1>3, <1>4, <1>6, <2>1, <2>2 DEF Sound
  <2>5. OperationSound(o, log, OnServer, files, objects, SavedCopy(Exec(a)))
    BY <1>1, <1>2, <2>2, <2>3, <2>4 DEF OperationSound, Registered
  <2> QED
    BY <1>1, <2>2, <2>3, <2>5, DraftsTyped, GoesOnAlone DEF log
<1> QED
  BY <1>7, <1>8

(* A step of one operation that also grows the logs or changes the files.   *)
LEMMA GoesOnBeside ==
  ASSUME BrowserInv, Grows, NEW a \in actors, NEW o \in Operation, Goes(a, o),
         UNCHANGED << conflicts, objects, copies, backup, draft, pushes, count, history >>,
         logs' \in [Executions -> Seq(Event) \cup {None}], files' \subseteq Files,
         ServerSound', op[a].pc # "answer",
         OperationSound(o, logs'[Exec(a)], OnServer', files', objects', SavedCopy(Exec(a))),
         o.pc = "save" /\ o.then = "restored" => backup # None,
         o.pc # "idle" => \/ op[a].pc # "idle" /\ op[a].known \subseteq o.known
                          \/ Waiting(copies[Exec(a)]) \subseteq o.known,
         o.pc = "idle" => o = Idle, o.pc \notin {"idle", "fetch"} => o.loc # None
  PROVE  BrowserInv'
<1> USE DEF history
<1>1. CopiesSound' /\ BackupSound' /\ OperationsSound' /\ NothingLost' /\ Recorded'
  BY GoesOn
<1>2. \A b \in actors : op[b].pc = "answer" => op'[b] = op[b]
  BY DEF Goes, BrowserInv, BrowserTypeOK
<1>3. PushesSound' /\ PushesOwned'
  BY <1>2, PushesStay
<1>4. DraftsKept'
  BY DraftsStay
<1>5. BrowserTypeOK'
  <2>1. actors' = actors /\ scope' = scope
    BY DEF actors, Grows
  <2>2. /\ op' \in [actors' -> Operation]
        /\ \A b \in actors' :
             /\ op'[b].pc = "idle" => op'[b] = Idle
             /\ op'[b].pc \notin {"idle", "fetch"} => op'[b].loc # None
    BY <2>1, OperationTypes DEF BrowserInv
  <2> QED
    BY <2>1, <2>2 DEF BrowserInv, BrowserTypeOK
<1> QED
  BY <1>1, <1>3, <1>4, <1>5 DEF BrowserInv, Recorded

(* Registering gives the execution a log, and a retry leaves it.            *)
LEMMA RegisterKeeps ==
  ASSUME BrowserInv, NEW a \in actors, Register(a)
  PROVE  BrowserInv'
<1> DEFINE x   == Exec(a)
           log == IF logs[x] = None THEN << >> ELSE logs[x]
           o   == [op[a] EXCEPT !.pc = "reread"]
<1>1. /\ op[a].pc = "register" /\ Goes(a, o) /\ logs' = [logs EXCEPT ![x] = log]
      /\ UNCHANGED << scope, conflicts, objects, copies, files, backup, draft, pushes, count,
                      history >>
  BY DEF Register, At, device
<1>2. /\ OperationSound(op[a], logs[x], OnServer, files, objects, SavedCopy(x))
      /\ op[a] \in Operation /\ op[a].loc \in Copy /\ x \in Executions
      /\ logs[x] # None => logs[x] \in Seq(Event)
  BY <1>1, OperationIs
<1>3. log \in Seq(Event) /\ log # None /\ (logs[x] = None => ToSet(log) = {})
  <2>1. << >> \in Seq(Event)
    OBVIOUS
  <2> QED
    BY <1>2, <2>1, NoCopyAssumption, Elements
<1> HIDE DEF log
<1>4. /\ logs' \in [Executions -> Seq(Event) \cup {None}] /\ logs'[x] = log
      /\ \A y \in Executions : y # x => logs'[y] = logs[y]
  BY <1>1, <1>2, <1>3 DEF BrowserInv, BrowserTypeOK
<1>5. \A y \in Executions : logs[y] # None =>
        logs'[y] # None /\ ToSet(logs[y]) \subseteq ToSet(logs'[y])
  BY <1>3, <1>4 DEF log
<1>6. Grows
  BY <1>1, <1>5, ServerGrows DEF Grows
<1>7. ServerSound'
  <2> SUFFICES ASSUME NEW y \in Executions
               PROVE  /\ FilesOf(conflicts[y]) \subseteq objects
                      /\ logs'[y] # None => FilesOf(ToSet(logs'[y])) \subseteq objects
    BY <1>1 DEF ServerSound, FilesOf
  <2>1. /\ FilesOf(conflicts[y]) \subseteq objects
        /\ logs[y] # None => FilesOf(ToSet(logs[y])) \subseteq objects
    BY DEF BrowserInv, ServerSound
  <2>2. CASE y = x /\ logs[x] = None
    BY <1>3, <1>4, <2>1, <2>2 DEF FilesOf
  <2>3. CASE y = x /\ logs[x] # None
    BY <1>4, <2>1, <2>3 DEF log
  <2> QED
    BY <1>4, <2>1, <2>2, <2>3
<1>8. /\ o \in Operation /\ o.pc = "reread" /\ o.loc = op[a].loc /\ o.then = op[a].then
      /\ o.known = op[a].known /\ o.uploads = op[a].uploads /\ o.del = op[a].del
  BY <1>2, GoingTo DEF Pcs
<1> HIDE DEF o
<1>9. OperationSound(op[a], logs'[x], OnServer', files', objects', SavedCopy(x))
  BY <1>1, <1>2, <1>5, <1>6, OperationGrows DEF Grows
<1>10. OperationSound(o, logs'[x], OnServer', files', objects', SavedCopy(x))
  BY <1>1, <1>3, <1>4, <1>8, <1>9 DEF OperationSound, Registered
<1>11. o.loc # None /\ files' \subseteq Files
  BY <1>1, <1>2, <1>8, CopyTypes DEF BrowserInv, BrowserTypeOK
<1> QED
  BY <1>1, <1>4, <1>6, <1>7, <1>8, <1>10, <1>11, GoesOnBeside

(* Only contents the server has are deleted, for whatever execution.        *)
LEMMA ForgetKeeps ==
  ASSUME BrowserInv, NEW a \in actors, Forget(a)
  PROVE  BrowserInv'
<1> DEFINE x == Exec(a)
<1>1. /\ op[a].pc = "forget"
      /\ UNCHANGED << scope, logs, conflicts, objects, copies, backup, draft, pushes, count,
                      history >>
  BY DEF Forget, At, remote
<1>2. /\ OperationSound(op[a], logs[x], OnServer, files, objects, SavedCopy(x))
      /\ op[a] \in Operation /\ op[a].loc \in Copy
  BY <1>1, OperationIs
<1>3. op[a].loc # None /\ ~ op[a].loc.unregistered /\ op[a].del \subseteq objects
  BY <1>1, <1>2, CopyTypes DEF OperationSound, Registered
<1>4. ServerSound' /\ OnServer' = OnServer
  BY <1>1, ServerStays DEF remote
<1>5. logs' \in [Executions -> Seq(Event) \cup {None}]
  BY <1>1 DEF BrowserInv, BrowserTypeOK
<1>6. CASE op[a].del = {} /\ Goes(a, Saving(op[a], op[a].loc, "pull")) /\ UNCHANGED files
  <2> DEFINE o == Saving(op[a], op[a].loc, "pull")
  <2>1. /\ o \in Operation /\ o.pc = "save" /\ o.loc = op[a].loc /\ o.then = "pull"
        /\ o.known = op[a].known /\ o.del = op[a].del
    <3>1. op[a] \in Operation /\ op[a].loc \in Copy /\ "pull" \in Thens
      BY <1>2 DEF Thens
    <3> QED
      BY <3>1, SavingIs, SMT
  <2>2. Goes(a, o)
    BY <1>6
  <2> HIDE DEF o
  <2>3. OperationSound(o, logs[x], OnServer, files, objects, SavedCopy(x))
    BY <1>1, <1>2, <1>3, <2>1 DEF OperationSound, Registered
  <2>4. Grows
    BY <1>1, <1>4, <1>6 DEF Grows
  <2>5. files' \subseteq Files
    BY <1>6 DEF BrowserInv, BrowserTypeOK
  <2> QED
    BY <1>1, <1>3, <1>4, <1>5, <1>6, <2>1, <2>2, <2>3, <2>4, <2>5, GoesOnBeside
<1>7. ASSUME NEW f \in op[a].del, files' = files \ {f}, Goes(a, [op[a] EXCEPT !.del = @ \ {f}])
      PROVE  BrowserInv'
  <2> DEFINE D == op[a].del \ {f}
             o == [op[a] EXCEPT !.del = D]
  <2>1. D \in SUBSET Files /\ D \subseteq objects
    BY <1>3, ActorTypes DEF BrowserInv
  <2>2. Goes(a, o)
    BY <1>7
  <2> HIDE DEF D
  <2>3. /\ o \in Operation /\ o.pc = "forget" /\ o.loc = op[a].loc /\ o.then = op[a].then
        /\ o.known = op[a].known /\ o.del = D
    BY <1>1, <1>2, <2>1, DeletingIs
  <2> HIDE DEF o
  <2>4. /\ objects' = objects /\ files \cup objects \subseteq files' \cup objects
        /\ files' \subseteq Files
    BY <1>1, <1>3, <1>7 DEF BrowserInv, BrowserTypeOK
  <2>5. Grows
    BY <1>1, <1>4, <2>4 DEF Grows
  <2>6. OperationSound(op[a], logs'[x], OnServer', files', objects', SavedCopy(x))
    BY <1>1, <1>2, <1>4, <2>4, OperationGrows
  <2>7. OperationSound(o, logs'[x], OnServer', files', objects', SavedCopy(x))
    BY <1>1, <2>1, <2>3, <2>4, <2>6 DEF OperationSound
  <2> QED
    BY <1>1, <1>3, <1>4, <1>5, <2>2, <2>3, <2>4, <2>5, <2>7, GoesOnBeside
<1> QED
  BY <1>6, <1>7 DEF Forget

(* What mergeBackup makes of a kept copy and a saved one.                   *)
LEMMA MergedIs ==
  ASSUME NEW kept \in Copy \cup {None}, NEW saved \in Copy
  PROVE  LET c == MergeBackup(kept, saved) IN
           /\ c \in Copy
           /\ Waiting(kept) \subseteq Waiting(c)
           /\ Waiting(c) \subseteq Waiting(kept) \cup Waiting(saved)
           /\ kept = None => c = saved
           /\ kept # None =>
                /\ c.records = kept.records /\ c.unregistered = kept.unregistered
                /\ c.rejected = kept.rejected \cup saved.rejected
                /\ Waiting(saved) \subseteq Waiting(c) \cup ToSet(kept.records)
<1> DEFINE c == MergeBackup(kept, saved)
<1>1. CASE kept = None
  <2>1. c = saved /\ Waiting(kept) = {}
    BY <1>1 DEF MergeBackup, Waiting
  <2> QED
    BY <1>1, <2>1
<1>2. CASE kept # None
  <2> DEFINE known == ToSet(kept.records \o kept.pending)
             left  == Unknown(saved.pending, known)
             s     == kept.pending \o left
             S     == kept.rejected \cup saved.rejected
  <2>1. c = [kept EXCEPT !.pending = s, !.rejected = S]
    BY <1>2 DEF MergeBackup
  <2>2. kept \in Copy
    BY <1>2
  <2>3. /\ kept.records \in Seq(Event) /\ kept.pending \in Seq(Event)
        /\ kept.rejected \subseteq Event
        /\ Waiting(kept) = ToSet(kept.pending) \cup kept.rejected
        /\ saved.pending \in Seq(Event) /\ saved.rejected \subseteq Event
        /\ Waiting(saved) = ToSet(saved.pending) \cup saved.rejected
    BY <2>2, CopyTypes
  <2>4. known = ToSet(kept.records) \cup ToSet(kept.pending)
    BY <2>3, Elements
  <2> HIDE DEF known
  <2>5. left \in Seq(Event) /\ ToSet(left) = ToSet(saved.pending) \ known
    BY <2>3, UnknownIs
  <2> HIDE DEF left
  <2>6. s \in Seq(Event) /\ ToSet(s) = ToSet(kept.pending) \cup ToSet(left)
    BY <2>3, <2>5, Elements
  <2>7. S \in SUBSET Event
    BY <2>3
  <2> HIDE DEF s, S, c
  <2>8. /\ c \in Copy /\ c.pending = s /\ c.rejected = S
        /\ c.records = kept.records /\ c.unregistered = kept.unregistered
    <3>1. s \in Seq(Event)
      BY <2>6
    <3> QED
      BY <2>1, <2>2, <2>7, <3>1 DEF Copy
  <2>9. Waiting(c) = ToSet(s) \cup S
    BY <2>8, CopyTypes
  <2> QED
    BY <1>2, <2>3, <2>4, <2>5, <2>6, <2>8, <2>9 DEF S, c
<1> QED
  BY <1>1, <1>2

(* The saved contents are kept before the saved copy waits to be saved.     *)
LEMMA RestoreKeeps ==
  ASSUME BrowserInv, NEW a \in actors, Restore(a)
  PROVE  BrowserInv'
<1> DEFINE x     == Exec(a)
           kept  == copies[x]
           saved == backup.copies[x]
           q     == Loaded(a, "save")
           c     == MergeBackup(kept, saved)
           o     == Saving(q, c, "restored")
<1>1. /\ op[a].pc = "idle" /\ backup # None /\ saved # None /\ Goes(a, o)
      /\ files' = files \cup backup.files
      /\ UNCHANGED << scope, logs, conflicts, objects, copies, backup, draft, pushes, count,
                      history >>
  BY DEF Restore, At, remote
<1>2. x \in Executions /\ kept \in Copy \cup {None}
  BY ActorTypes, ExecutionTypes DEF BrowserInv
<1>3. backup \in Saved
  BY <1>1 DEF BrowserInv, BrowserTypeOK
<1>4. saved \in Copy /\ backup.files \subseteq Files
  BY <1>1, <1>2, <1>3 DEF Saved
<1>5. SavedCopy(x) = saved
  BY <1>1 DEF SavedCopy
<1>6. /\ Sound(kept, logs[x], OnServer, files, objects)
      /\ Sound(saved, logs[x], OnServer, backup.files, objects)
  BY <1>1, <1>2 DEF BrowserInv, CopiesSound, BackupSound
<1>7. /\ q \in Operation /\ q.known = Waiting(kept) /\ q.del = {}
  BY LoadedIs DEF Pcs
<1> HIDE DEF saved, kept, q
<1>8. /\ c \in Copy
      /\ Waiting(kept) \subseteq Waiting(c)
      /\ Waiting(c) \subseteq Waiting(kept) \cup Waiting(saved)
      /\ kept = None => c = saved
      /\ kept # None =>
           /\ c.records = kept.records /\ c.unregistered = kept.unregistered
           /\ c.rejected = kept.rejected \cup saved.rejected
           /\ Waiting(saved) \subseteq Waiting(c) \cup ToSet(kept.records)
  BY <1>2, <1>4, MergedIs
<1> HIDE DEF c
<1>9. c # None
  BY <1>8, CopyTypes
<1>10. Sound(c, logs[x], OnServer, files', objects)
  <2>1. CASE kept = None
    BY <1>1, <1>6, <1>8, <2>1 DEF Sound
  <2>2. CASE kept # None
    <3>1. FilesOf(Waiting(c)) \subseteq FilesOf(Waiting(kept)) \cup FilesOf(Waiting(saved))
      BY <1>8 DEF FilesOf
    <3>2. FilesOf(c.rejected) \subseteq FilesOf(kept.rejected) \cup FilesOf(saved.rejected)
      BY <1>8, <2>2 DEF FilesOf
    <3> QED
      BY <1>1, <1>6, <1>8, <2>2, <3>1, <3>2 DEF Sound
  <2> QED
    BY <2>1, <2>2
<1>11. Waiting(saved) \subseteq Waiting(c) \cup OnServer
  BY <1>6, <1>8 DEF Sound
<1>12. /\ o \in Operation /\ o.pc = "save" /\ o.loc = c /\ o.then = "restored"
       /\ o.known = Waiting(kept) /\ o.del = {}
  <2>1. "restored" \in Thens
    BY DEF Thens
  <2> QED
    BY <1>7, <1>8, <2>1, SavingIs, SMT
<1> HIDE DEF o
<1>13. OperationSound(o, logs[x], OnServer, files', objects, SavedCopy(x))
  BY <1>5, <1>8, <1>10, <1>11, <1>12 DEF OperationSound, Registered
<1>14. ServerSound' /\ OnServer' = OnServer
  BY <1>1, ServerStays DEF remote
<1>15. Grows
  BY <1>1, <1>14 DEF Grows
<1>16. logs' \in [Executions -> Seq(Event) \cup {None}] /\ files' \subseteq Files
  BY <1>1, <1>4 DEF BrowserInv, BrowserTypeOK
<1> QED
  BY <1>1, <1>9, <1>12, <1>13, <1>14, <1>15, <1>16, GoesOnBeside DEF kept

-----------------------------------------------------------------------------
(* Steps beside the operations. *)

(* No operation moves, and no copy gains.                                   *)
LEMMA NoneGoes ==
  ASSUME BrowserInv, Grows, UNCHANGED << op, backup, lost, wipes >>,
         \A x \in Executions : Waiting(copies'[x]) = Waiting(copies[x])
  PROVE  /\ BackupSound' /\ OperationsSound' /\ NothingLost'
         /\ recorded' = recorded => Recorded'
<1>1. BackupSound' /\ actors' = actors
  BY Stays
<1>2. OperationsSound'
  BY <1>1, Stays DEF OperationsSound, BrowserInv, Exec
<1>3. NothingLost'
  <2>1. \A b \in actors : Waiting(copies'[Exec(b)]) = Waiting(copies[Exec(b)])
    BY ActorTypes DEF BrowserInv
  <2> SUFFICES ASSUME OneTabEach, wipes = 0
               PROVE  /\ lost = {}
                      /\ \A b \in actors :
                           op[b].pc # "idle" => Waiting(copies'[Exec(b)]) \subseteq op[b].known
    BY <1>1 DEF NothingLost, OneTabEach, Exec
  <2> QED
    BY <2>1 DEF BrowserInv, NothingLost
<1>4. recorded' = recorded => Recorded'
  <2>1. OnDevice' = OnDevice /\ BackedUp' = BackedUp
    BY DEF OnDevice, BackedUp, Waiting
  <2> QED
    BY <2>1 DEF BrowserInv, Recorded, Grows
<1> QED
  BY <1>1, <1>2, <1>3, <1>4

(* A step on the server's logs that no push takes.                          *)
LEMMA LogsGrow ==
  ASSUME BrowserInv, UNCHANGED << scope, conflicts, objects, device, draft, op, pushes, history >>,
         NEW x \in Executions, NEW log \in Seq(Event), logs' = [logs EXCEPT ![x] = log],
         logs[x] # None => ToSet(logs[x]) \subseteq ToSet(log),
         FilesOf(ToSet(log)) \subseteq objects, count' \in Nat
  PROVE  BrowserInv'
<1> USE DEF device, history
<1>1. log # None
  BY NoCopyAssumption
<1>2. /\ logs' \in [Executions -> Seq(Event) \cup {None}] /\ logs'[x] = log
      /\ \A y \in Executions : y # x => logs'[y] = logs[y]
  BY DEF BrowserInv, BrowserTypeOK
<1>3. \A y \in Executions : logs[y] # None =>
        logs'[y] # None /\ ToSet(logs[y]) \subseteq ToSet(logs'[y])
  BY <1>1, <1>2
<1>4. Grows
  BY <1>3, ServerGrows DEF Grows
<1>5. ServerSound'
  BY <1>2 DEF BrowserInv, ServerSound, FilesOf
<1>6. BackupSound' /\ OperationsSound' /\ NothingLost' /\ Recorded'
  BY <1>4, NoneGoes
<1>7. CopiesSound'
  BY <1>4, Stays DEF CopiesSound
<1>8. PushesSound' /\ PushesOwned'
  BY <1>4, PushesStay
<1>9. DraftsKept'
  BY <1>4, DraftsStay
<1>10. BrowserTypeOK'
  <2>1. actors' = actors
    BY DEF actors
  <2> QED
    BY <1>2, <2>1 DEF BrowserInv, BrowserTypeOK
<1> QED
  BY <1>5, <1>6, <1>7, <1>8, <1>9, <1>10 DEF BrowserInv, Recorded

(* An execution gets an empty log.                                          *)
LEMMA StartElsewhereKeeps ==
  ASSUME BrowserInv, NEW x \in Executions, StartElsewhere(x)
  PROVE  BrowserInv'
<1> DEFINE log == << >>
<1>1. log \in Seq(Event) /\ ToSet(log) = {}
  BY Elements
<1> HIDE DEF log
<1>2. /\ logs[x] = None /\ logs' = [logs EXCEPT ![x] = log]
      /\ UNCHANGED << scope, conflicts, objects, device, draft, op, pushes, count, history >>
  BY DEF StartElsewhere, New, log
<1>3. FilesOf(ToSet(log)) = {} /\ count' \in Nat
  BY <1>1, <1>2 DEF FilesOf, BrowserInv, BrowserTypeOK
<1> QED
  BY <1>1, <1>2, <1>3, LogsGrow

(* What is recorded is an event.                                            *)
LEMMA EventOfIs ==
  ASSUME BrowserInv, NEW d \in scope.drafts
  PROVE  /\ EventOf(d) \in Event /\ EventOf(d).file = d.file
         /\ d.file \in Files \cup {None}
<1>1. d \in Drafts
  BY ScopesAssumption DEF BrowserInv, BrowserTypeOK
<1>2. count + 1 \in Nat
  BY DEF BrowserInv, BrowserTypeOK
<1> QED
  BY <1>1, <1>2, DraftsAssumption DEF EventOf, Event

(* An event without content is recorded on the server.                      *)
LEMMA RecordElsewhereKeeps ==
  ASSUME BrowserInv, NEW x \in Executions, NEW d \in scope.drafts, RecordElsewhere(x, d)
  PROVE  BrowserInv'
<1> DEFINE e   == EventOf(d)
           log == Append(logs[x], e)
<1>1. /\ logs[x] # None /\ d.file = None /\ logs' = [logs EXCEPT ![x] = log]
      /\ count' = count + 1
      /\ UNCHANGED << scope, conflicts, objects, device, draft, op, pushes, history >>
  BY DEF RecordElsewhere
<1>2. e \in Event /\ e.file = None
  BY <1>1, EventOfIs
<1>3. logs[x] \in Seq(Event) /\ FilesOf(ToSet(logs[x])) \subseteq objects /\ count' \in Nat
  BY <1>1, ExecutionTypes DEF BrowserInv, ServerSound, BrowserTypeOK
<1> HIDE DEF e
<1>4. log \in Seq(Event) /\ ToSet(log) = ToSet(logs[x]) \cup {e}
  BY <1>2, <1>3, Elements
<1> HIDE DEF log
<1>5. FilesOf(ToSet(log)) \subseteq objects
  BY <1>2, <1>3, <1>4 DEF FilesOf
<1> QED
  BY <1>1, <1>3, <1>4, <1>5, LogsGrow

(* A copy that is started here holds nothing.                               *)
LEMMA StartHereKeeps ==
  ASSUME BrowserInv, NEW a \in actors, StartHere(a)
  PROVE  BrowserInv'
<1> DEFINE x == Exec(a)
           c == [Fresh(<< >>) EXCEPT !.unregistered = TRUE]
<1>1. /\ copies[x] = None /\ copies' = [copies EXCEPT ![x] = c]
      /\ UNCHANGED << scope, remote, files, backup, draft, op, pushes, count, history >>
  BY DEF StartHere, New
<1>2. x \in Executions
  BY ActorTypes DEF BrowserInv
<1>3. /\ c \in Copy /\ c.records = << >> /\ c.pending = << >>
      /\ c.rejected = {} /\ c.unregistered = TRUE
  BY StartedIs
<1> HIDE DEF c
<1>4. Waiting(c) = {} /\ ToSet(c.records) = {} /\ c # None /\ Waiting(None) = {}
  BY <1>3, CopyTypes, Elements DEF Waiting
<1>5. /\ copies' \in [Executions -> Copy \cup {None}] /\ copies'[x] = c
      /\ \A y \in Executions : y # x => copies'[y] = copies[y]
  BY <1>1, <1>2, <1>3 DEF BrowserInv, BrowserTypeOK
<1>6. ServerSound' /\ OnServer' = OnServer
  BY <1>1, ServerStays
<1>7. Grows
  BY <1>1, <1>6 DEF Grows, remote
<1>8. \A y \in Executions : Waiting(copies'[y]) = Waiting(copies[y])
  BY <1>1, <1>4, <1>5
<1>9. BackupSound' /\ OperationsSound' /\ NothingLost' /\ Recorded'
  BY <1>1, <1>7, <1>8, NoneGoes DEF history
<1>10. CopiesSound'
  <2> SUFFICES ASSUME NEW y \in Executions
               PROVE  Sound(copies'[y], logs'[y], OnServer', files', objects')
    BY DEF CopiesSound
  <2>1. CASE y = x
    BY <1>3, <1>4, <1>5, <2>1 DEF Sound, FilesOf
  <2> QED
    BY <1>5, <1>7, <2>1, Stays
<1>11. PushesSound' /\ PushesOwned'
  BY <1>1, <1>7, PushesStay
<1>12. DraftsKept'
  BY <1>1, <1>7, DraftsStay
<1>13. BrowserTypeOK'
  <2>1. actors' = actors
    BY <1>1 DEF actors
  <2> QED
    BY <1>1, <1>5, <2>1 DEF BrowserInv, BrowserTypeOK, remote, history
<1> QED
  BY <1>6, <1>9, <1>10, <1>11, <1>12, <1>13 DEF BrowserInv, Recorded

(* The content is kept before the event is decided on.                      *)
LEMMA KeepFilesKeeps ==
  ASSUME BrowserInv, NEW a \in actors, NEW d \in scope.drafts, KeepFiles(a, d)
  PROVE  BrowserInv'
<1> DEFINE e == EventOf(d)
<1>1. /\ draft' = [draft EXCEPT ![a] = e] /\ count' = count + 1
      /\ files' = files \cup ({d.file} \ {None})
      /\ UNCHANGED << scope, remote, copies, backup, op, pushes, history >>
  BY DEF KeepFiles
<1>2. e \in Event /\ e.file = d.file /\ d.file \in Files \cup {None}
  BY EventOfIs
<1> HIDE DEF e
<1>3. /\ draft' \in [actors -> Event \cup {None}] /\ draft'[a] = e
      /\ \A b \in actors : b # a => draft'[b] = draft[b]
  BY <1>1, <1>2, DraftsTyped
<1>4. ServerSound' /\ OnServer' = OnServer
  BY <1>1, ServerStays
<1>5. Grows
  BY <1>1, <1>4 DEF Grows, remote
<1>6. BackupSound' /\ OperationsSound' /\ NothingLost' /\ Recorded'
  BY <1>1, <1>5, NoneGoes DEF history
<1>7. CopiesSound'
  BY <1>1, <1>5, Stays DEF CopiesSound
<1>8. PushesSound' /\ PushesOwned'
  BY <1>1, <1>5, PushesStay
<1>9. DraftsKept'
  <2> SUFFICES ASSUME NEW b \in actors, draft'[b] # None
               PROVE  draft'[b].file \in {None} \cup files' \cup objects'
    BY <1>5, Stays DEF DraftsKept
  <2>1. CASE b = a
    BY <1>1, <1>2, <1>3, <2>1
  <2> QED
    BY <1>3, <1>5, <2>1, Stays
<1>10. BrowserTypeOK'
  <2>1. actors' = actors
    BY <1>1 DEF actors
  <2> QED
    BY <1>1, <1>2, <1>3, <2>1 DEF BrowserInv, BrowserTypeOK, remote, history
<1> QED
  BY <1>4, <1>6, <1>7, <1>8, <1>9, <1>10 DEF BrowserInv, Recorded

-----------------------------------------------------------------------------
(* Steps of the server. *)

(* What is known of a push.                                                 *)
LEMMA PushIs ==
  ASSUME BrowserInv, NEW r \in pushes
  PROVE  /\ r \in Pushed /\ r.exec \in Executions /\ r.events \in Seq(Event)
         /\ r.done \in 0..Len(r.events) /\ r.refused \subseteq ToSet(r.events)
         /\ r.keep \in BOOLEAN
         /\ PushSound(r, logs[r.exec], conflicts[r.exec], objects)
         /\ logs[r.exec] \in Seq(Event) /\ logs[r.exec] # None
         /\ FilesOf(ToSet(logs[r.exec])) \subseteq objects
         /\ FilesOf(conflicts[r.exec]) \subseteq objects
<1>1. /\ r \in Pushed /\ r.done \in 0..Len(r.events) /\ r.refused \subseteq ToSet(r.events)
  BY DEF BrowserInv, BrowserTypeOK
<1>2. r.exec \in Executions /\ r.events \in Seq(Event) /\ r.keep \in BOOLEAN
  BY <1>1 DEF Pushed
<1>3. PushSound(r, logs[r.exec], conflicts[r.exec], objects)
  BY DEF BrowserInv, PushesSound
<1>4. logs[r.exec] # None
  BY <1>3 DEF PushSound
<1>5. logs[r.exec] \in Seq(Event)
  BY <1>2, <1>4, ExecutionTypes DEF BrowserInv
<1>6. /\ FilesOf(ToSet(logs[r.exec])) \subseteq objects
      /\ FilesOf(conflicts[r.exec]) \subseteq objects
  BY <1>2, <1>4 DEF BrowserInv, ServerSound
<1> QED
  BY <1>1, <1>2, <1>3, <1>4, <1>5, <1>6

(* A step of the server with one push.                                      *)
LEMMA PushGoesOn ==
  ASSUME BrowserInv, Grows, NEW r \in pushes, NEW s \in Pushed, Becomes(r, s),
         s.by = r.by, s.exec = r.exec, s.events = r.events,
         s.done \in 0..Len(s.events), s.refused \subseteq ToSet(s.events),
         PushSound(s, logs'[r.exec], conflicts'[r.exec], objects'),
         UNCHANGED << device, draft, op, count, history >>,
         logs' \in [Executions -> Seq(Event) \cup {None}],
         conflicts' \in [Executions -> SUBSET Event], objects' \subseteq Files, ServerSound'
  PROVE  BrowserInv'
<1> USE DEF device, history
<1>1. actors' = actors /\ scope' = scope
  BY DEF Grows, actors
<1>2. BackupSound' /\ OperationsSound' /\ NothingLost' /\ Recorded'
  BY NoneGoes
<1>3. CopiesSound'
  BY Stays DEF CopiesSound
<1>4. PushesSound'
  <2> SUFFICES ASSUME NEW q \in pushes'
               PROVE  PushSound(q, logs'[q.exec], conflicts'[q.exec], objects')
    BY DEF PushesSound
  <2>1. CASE q = s
    BY <2>1
  <2>2. CASE q \in pushes
    BY <2>2, Stays
  <2> QED
    BY <2>1, <2>2 DEF Becomes
<1>5. PushesOwned'
  <2>1. ASSUME NEW q \in pushes'
        PROVE  \E p \in pushes :
                 /\ p.by = q.by /\ p.exec = q.exec /\ p.events = q.events
                 /\ IF q = s THEN p = r ELSE p = q /\ p # r
    BY DEF Becomes
  <2>2. ASSUME NEW q \in pushes', q.by \in actors
        PROVE  /\ op[q.by].pc = "answer" /\ q.exec = Exec(q.by)
               /\ q.events = op[q.by].loc.pending
    BY <2>1, <2>2 DEF BrowserInv, PushesOwned
  <2>3. ASSUME NEW q \in pushes', NEW t \in pushes', q.by \in actors, q.by = t.by
        PROVE  q = t
    BY <2>1, <2>3 DEF BrowserInv, PushesOwned
  <2> QED
    BY <1>1, <2>2, <2>3 DEF PushesOwned, Exec
<1>6. DraftsKept'
  BY DraftsStay
<1>7. BrowserTypeOK'
  <2>1. pushes' \subseteq Pushed /\ \A q \in pushes' :
          q.done \in 0..Len(q.events) /\ q.refused \subseteq ToSet(q.events)
    BY DEF Becomes, BrowserInv, BrowserTypeOK
  <2> QED
    BY <1>1, <2>1 DEF BrowserInv, BrowserTypeOK
<1> QED
  BY <1>2, <1>3, <1>4, <1>5, <1>6, <1>7 DEF BrowserInv, Recorded

(* The push once its next event is done with, and this much refused.        *)
LEMMA HandledIs ==
  ASSUME NEW r \in Pushed, NEW R \in SUBSET Event
  PROVE  /\ Handled(r) \in Pushed
         /\ Handled(r).by = r.by /\ Handled(r).exec = r.exec /\ Handled(r).events = r.events
         /\ Handled(r).uploads = r.uploads /\ Handled(r).refused = r.refused
         /\ Handled(r).done = r.done + 1 /\ Handled(r).keep = FALSE
         /\ LET s == [Handled(r) EXCEPT !.refused = R] IN
              /\ s \in Pushed /\ s.by = r.by /\ s.exec = r.exec /\ s.events = r.events
              /\ s.uploads = r.uploads /\ s.refused = R
              /\ s.done = r.done + 1 /\ s.keep = FALSE
<1>1. /\ Handled(r) \in Pushed
      /\ Handled(r).by = r.by /\ Handled(r).exec = r.exec /\ Handled(r).events = r.events
      /\ Handled(r).uploads = r.uploads /\ Handled(r).refused = r.refused
      /\ Handled(r).done = r.done + 1 /\ Handled(r).keep = FALSE
  <2> DEFINE n == r.done + 1
  <2>1. n \in Nat
    BY DEF Pushed
  <2>2. Handled(r) = [r EXCEPT !.done = n, !.keep = FALSE]
    BY DEF Handled
  <2> HIDE DEF n
  <2> DEFINE s == [r EXCEPT !.done = n, !.keep = FALSE]
  <2>3. s \in Pushed
    BY <2>1 DEF Pushed
  <2>4. /\ s.by = r.by /\ s.exec = r.exec /\ s.events = r.events
        /\ s.uploads = r.uploads /\ s.refused = r.refused
        /\ s.done = n /\ s.keep = FALSE
    BY DEF Pushed
  <2> HIDE DEF s
  <2> QED
    BY <2>2, <2>3, <2>4 DEF n, s
<1>2. LET s == [Handled(r) EXCEPT !.refused = R] IN
        /\ s \in Pushed /\ s.by = r.by /\ s.exec = r.exec /\ s.events = r.events
        /\ s.uploads = r.uploads /\ s.refused = R
        /\ s.done = r.done + 1 /\ s.keep = FALSE
  BY <1>1 DEF Pushed
<1> QED
  BY <1>1, <1>2

(* One more event is refused, a conflict or in the log.                     *)
LEMMA HandledSound ==
  ASSUME NEW r \in Pushed, NEW s \in Pushed, NEW log, NEW kept, NEW stored,
         PushSound(r, log, kept, stored), r.done < Len(r.events),
         s.events = r.events, s.uploads = r.uploads, s.done = r.done + 1, s.keep = FALSE,
         r.refused \subseteq s.refused, FilesOf(s.refused) \subseteq stored,
         r.events[r.done + 1] \in s.refused \cup kept \cup ToSet(log)
  PROVE  PushSound(s, log, kept, stored)
<1>1. r.done \in Nat
  BY DEF Pushed
<1>2. \A i \in 1..s.done : i \in 1..r.done \/ i = r.done + 1
  BY <1>1
<1>3. \A i \in 1..s.done : s.events[i] \in s.refused \cup kept \cup ToSet(log)
  BY <1>2 DEF PushSound
<1> QED
  BY <1>3 DEF PushSound

(* What the server refuses is there already: an earlier event brought it.   *)
LEMMA RefusedIsStored ==
  ASSUME BrowserInv, NEW r \in pushes, r.done < Len(r.events),
         Refused(r, r.events[r.done + 1])
  PROVE  r.events[r.done + 1].file \in objects
<1> DEFINE e == r.events[r.done + 1]
<1>1. /\ r.events \in Seq(Event) /\ r.done \in Nat
      /\ PushSound(r, logs[r.exec], conflicts[r.exec], objects)
      /\ FilesOf(ToSet(logs[r.exec])) \subseteq objects
      /\ FilesOf(conflicts[r.exec]) \subseteq objects
  BY PushIs
<1>2. r.done + 1 \in DOMAIN r.events /\ e.file # None
  BY <1>1 DEF Refused
<1>3. /\ Named(r.events, r.uploads, objects)
      /\ FilesOf(r.refused) \subseteq objects
      /\ \A i \in 1..r.done : r.events[i] \in r.refused \cup conflicts[r.exec]
                                              \cup ToSet(logs[r.exec])
  BY <1>1 DEF PushSound
<1>4. CASE \E u \in r.uploads : u.file = e.file /\ u.name # e.name
  <2>1. PICK u \in r.uploads : u.file = e.file /\ u.name # e.name
    BY <1>4
  <2>2. PICK i \in DOMAIN r.events :
          /\ r.events[i].file = u.file /\ r.events[i].name = u.name
          /\ \A j \in 1..(i - 1) : r.events[j].file # u.file
    BY <1>3 DEF Named
  <2>3. i \in 1..r.done
    <3>1. i # r.done + 1
      BY <2>1, <2>2
    <3>2. r.done + 1 \notin 1..(i - 1)
      BY <2>1, <2>2
    <3>3. i \in Nat /\ i >= 1
      BY <1>1
    <3> QED
      BY <1>1, <3>1, <3>2, <3>3
  <2>4. r.events[i] \in r.refused \cup conflicts[r.exec] \cup ToSet(logs[r.exec])
    BY <1>3, <2>3
  <2>5. r.events[i].file = e.file
    BY <2>1, <2>2
  <2> QED
    BY <1>1, <1>2, <1>3, <2>4, <2>5 DEF FilesOf
<1>5. CASE \A u \in r.uploads : u.file # e.file
  <2>1. e \in ToSet(r.events)
    BY <1>2 DEF ToSet
  <2> HIDE DEF e
  <2>2. e.file \in {None} \cup objects \cup {u.file : u \in r.uploads}
    BY <1>3, <2>1 DEF Named
  <2> QED
    BY <1>2, <1>5, <2>2 DEF e
<1> QED
  BY <1>4, <1>5 DEF Refused

(* push_event, by what it finds of its next event.                          *)
LEMMA PushEventKeeps ==
  ASSUME BrowserInv, NEW r \in pushes, PushEvent(r)
  PROVE  BrowserInv'
<1> DEFINE e == r.events[r.done + 1]
           x == r.exec
<1>1. /\ r.done < Len(r.events) /\ ~ r.keep
      /\ UNCHANGED << scope, conflicts, device, draft, op, count, history >>
  BY DEF PushEvent
<1>2. /\ r \in Pushed /\ x \in Executions /\ r.events \in Seq(Event)
      /\ r.done \in 0..Len(r.events) /\ r.refused \subseteq ToSet(r.events)
      /\ PushSound(r, logs[x], conflicts[x], objects)
      /\ logs[x] \in Seq(Event) /\ logs[x] # None
      /\ FilesOf(ToSet(logs[x])) \subseteq objects
      /\ FilesOf(conflicts[x]) \subseteq objects
  BY PushIs
<1>3. e \in ToSet(r.events) /\ e \in Event /\ r.done + 1 \in 0..Len(r.events)
  BY <1>1, <1>2 DEF ToSet
<1>4. /\ files' = files /\ logs \in [Executions -> Seq(Event) \cup {None}]
      /\ conflicts' \in [Executions -> SUBSET Event] /\ objects \subseteq Files
      /\ r.refused \subseteq Event
  BY <1>1, <1>2, Elements DEF device, BrowserInv, BrowserTypeOK
<1>5. FilesOf(r.refused) \subseteq objects
  BY <1>2 DEF PushSound
<1>6. /\ Handled(r) \in Pushed
      /\ Handled(r).by = r.by /\ Handled(r).exec = r.exec /\ Handled(r).events = r.events
      /\ Handled(r).uploads = r.uploads /\ Handled(r).refused = r.refused
      /\ Handled(r).done = r.done + 1 /\ Handled(r).keep = FALSE
  BY <1>2, <1>4, HandledIs
<1>7. UNCHANGED << logs, objects >> => Grows /\ ServerSound'
  BY <1>1, ServerStays DEF Grows, remote, device
<1>8. CASE /\ e \in conflicts[x] \cup ToSet(logs[x])
           /\ Becomes(r, Handled(r))
           /\ UNCHANGED << logs, objects >>
  <2>1. PushSound(Handled(r), logs[x], conflicts[x], objects)
    BY <1>1, <1>2, <1>5, <1>6, <1>8, HandledSound
  <2> QED
    BY <1>1, <1>2, <1>3, <1>4, <1>6, <1>7, <1>8, <2>1, PushGoesOn
<1>9. CASE /\ Refused(r, e)
           /\ Becomes(r, [Handled(r) EXCEPT !.refused = @ \cup {e}])
           /\ UNCHANGED << logs, objects >>
  <2> DEFINE R == r.refused \cup {e}
             s == [Handled(r) EXCEPT !.refused = R]
  <2>1. e.file \in objects
    BY <1>1, <1>9, RefusedIsStored
  <2>2. R \in SUBSET Event /\ FilesOf(R) \subseteq objects /\ R \subseteq ToSet(r.events)
    BY <1>2, <1>3, <1>4, <1>5, <2>1 DEF FilesOf
  <2>3. Becomes(r, s) /\ e \in R /\ r.refused \subseteq R
    BY <1>6, <1>9
  <2> HIDE DEF R
  <2>4. /\ s \in Pushed /\ s.by = r.by /\ s.exec = r.exec /\ s.events = r.events
        /\ s.uploads = r.uploads /\ s.refused = R
        /\ s.done = r.done + 1 /\ s.keep = FALSE
    BY <1>6, <2>2 DEF Pushed
  <2> HIDE DEF s
  <2>5. PushSound(s, logs[x], conflicts[x], objects)
    BY <1>1, <1>2, <2>2, <2>3, <2>4, HandledSound
  <2> QED
    BY <1>1, <1>2, <1>3, <1>4, <1>7, <1>9, <2>2, <2>3, <2>4, <2>5, PushGoesOn
<1>10. ASSUME objects' = objects \cup ({e.file} \ {None})
       PROVE  /\ objects' \subseteq Files /\ objects \subseteq objects'
              /\ e.file \in {None} \cup objects'
  BY <1>3, <1>4, <1>10 DEF Event
<1>11. CASE /\ objects' = objects \cup ({e.file} \ {None})
            /\ logs' = [logs EXCEPT ![x] = Append(@, e)] /\ Becomes(r, Handled(r))
  <2> DEFINE log == Append(logs[x], e)
  <2>1. log \in Seq(Event) /\ ToSet(log) = ToSet(logs[x]) \cup {e} /\ log # None
    <3> HIDE DEF e
    <3>1. log \in Seq(Event) /\ ToSet(log) = ToSet(logs[x]) \cup {e}
      BY <1>2, <1>3, Elements
    <3> QED
      BY <3>1, NoCopyAssumption
  <2>2. logs' = [logs EXCEPT ![x] = log]
    BY <1>11
  <2> HIDE DEF log, e
  <2>3. /\ logs' \in [Executions -> Seq(Event) \cup {None}] /\ logs'[x] = log
        /\ \A y \in Executions : y # x => logs'[y] = logs[y]
    BY <1>2, <1>4, <2>1, <2>2
  <2>4. \A y \in Executions : logs[y] # None =>
          logs'[y] # None /\ ToSet(logs[y]) \subseteq ToSet(logs'[y])
    BY <2>1, <2>3
  <2>5. Grows
    BY <1>1, <1>4, <1>10, <1>11, <2>4, ServerGrows DEF Grows
  <2>6. ServerSound'
    <3> SUFFICES ASSUME NEW y \in Executions
                 PROVE  /\ FilesOf(conflicts[y]) \subseteq objects'
                        /\ logs'[y] # None => FilesOf(ToSet(logs'[y])) \subseteq objects'
      BY <1>1 DEF ServerSound, FilesOf
    <3>1. /\ FilesOf(conflicts[y]) \subseteq objects
          /\ logs[y] # None => FilesOf(ToSet(logs[y])) \subseteq objects
      BY DEF BrowserInv, ServerSound
    <3>2. CASE y = x
      <4>1. FilesOf(ToSet(log)) \subseteq FilesOf(ToSet(logs[x])) \cup ({e.file} \ {None})
        BY <2>1 DEF FilesOf
      <4> QED
        BY <1>2, <1>10, <1>11, <2>3, <3>1, <3>2, <4>1
    <3> QED
      BY <1>10, <1>11, <2>3, <3>1, <3>2
  <2>7. PushSound(r, logs'[x], conflicts'[x], objects')
    BY <2>5, Stays
  <2>8. PushSound(Handled(r), logs'[x], conflicts'[x], objects')
    <3>1. FilesOf(r.refused) \subseteq objects' /\ e \in ToSet(logs'[x])
      BY <1>5, <1>10, <1>11, <2>1, <2>3
    <3> QED
      BY <1>1, <1>2, <1>6, <2>7, <3>1, HandledSound DEF e
  <2> QED
    BY <1>1, <1>2, <1>3, <1>4, <1>6, <1>10, <1>11, <2>3, <2>5, <2>6, <2>8, PushGoesOn, ZenonT(40)
<1>12. CASE /\ objects' = objects \cup ({e.file} \ {None})
            /\ UNCHANGED logs /\ Becomes(r, [r EXCEPT !.keep = TRUE])
  <2> DEFINE s == [r EXCEPT !.keep = TRUE]
  <2>1. /\ s \in Pushed /\ s.by = r.by /\ s.exec = r.exec /\ s.events = r.events
        /\ s.uploads = r.uploads /\ s.refused = r.refused
        /\ s.done = r.done /\ s.keep = TRUE
    BY <1>2 DEF Pushed
  <2>2. Becomes(r, s)
    BY <1>12
  <2> HIDE DEF s
  <2>3. Grows
    <3>1. OnServer' = OnServer
      BY <1>1, <1>12 DEF OnServer
    <3> QED
      BY <1>1, <1>4, <1>10, <1>12, <3>1 DEF Grows
  <2>4. ServerSound'
    BY <1>1, <1>10, <1>12 DEF BrowserInv, ServerSound
  <2>5. PushSound(r, logs'[x], conflicts'[x], objects')
    BY <2>3, Stays
  <2>6. PushSound(s, logs'[x], conflicts'[x], objects')
    BY <1>1, <1>10, <1>12, <2>1, <2>5 DEF PushSound
  <2> QED
    BY <1>1, <1>2, <1>3, <1>4, <1>10, <1>12, <2>1, <2>2, <2>3, <2>4, <2>6, PushGoesOn
<1> QED
  BY <1>8, <1>9, <1>11, <1>12 DEF PushEvent

(* The content of a conflict was stored in the transaction before.          *)
LEMMA KeepConflictKeeps ==
  ASSUME BrowserInv, NEW r \in pushes, KeepConflict(r)
  PROVE  BrowserInv'
<1> DEFINE e == r.events[r.done + 1]
           x == r.exec
           C == conflicts[x] \cup {e}
<1>1. /\ r.keep /\ conflicts' = [conflicts EXCEPT ![x] = C] /\ Becomes(r, Handled(r))
      /\ UNCHANGED << scope, logs, objects, device, draft, op, count, history >>
  BY DEF KeepConflict
<1>2. /\ r \in Pushed /\ x \in Executions /\ r.events \in Seq(Event)
      /\ r.done \in 0..Len(r.events) /\ r.refused \subseteq ToSet(r.events)
      /\ PushSound(r, logs[x], conflicts[x], objects)
      /\ FilesOf(conflicts[x]) \subseteq objects
  BY PushIs
<1>3. /\ r.done < Len(r.events) /\ e.file \in {None} \cup objects
      /\ FilesOf(r.refused) \subseteq objects
  BY <1>1, <1>2 DEF PushSound
<1>4. e \in Event /\ r.done + 1 \in 0..Len(r.events) /\ e \in C
  BY <1>2, <1>3
<1>5. /\ logs' = logs /\ objects' = objects /\ files' = files
      /\ logs' \in [Executions -> Seq(Event) \cup {None}] /\ objects' \subseteq Files
      /\ conflicts \in [Executions -> SUBSET Event] /\ r.refused \subseteq Event
  BY <1>1, <1>2, Elements DEF device, BrowserInv, BrowserTypeOK
<1>6. FilesOf(C) \subseteq objects /\ conflicts[x] \subseteq C /\ C \subseteq Event
  BY <1>2, <1>3, <1>4, <1>5 DEF FilesOf
<1> HIDE DEF C
<1>7. /\ conflicts' \in [Executions -> SUBSET Event] /\ conflicts'[x] = C
      /\ \A y \in Executions : y # x => conflicts'[y] = conflicts[y]
  BY <1>1, <1>2, <1>5, <1>6
<1>8. \A y \in Executions : conflicts[y] \subseteq conflicts'[y]
  BY <1>6, <1>7
<1>9. Grows
  BY <1>1, <1>5, <1>8, ServerGrows DEF Grows
<1>10. ServerSound'
  BY <1>5, <1>6, <1>7 DEF BrowserInv, ServerSound
<1>11. /\ Handled(r) \in Pushed
       /\ Handled(r).by = r.by /\ Handled(r).exec = r.exec /\ Handled(r).events = r.events
       /\ Handled(r).uploads = r.uploads /\ Handled(r).refused = r.refused
       /\ Handled(r).done = r.done + 1 /\ Handled(r).keep = FALSE
  BY <1>2, <1>5, HandledIs
<1>12. PushSound(r, logs'[x], conflicts'[x], objects')
  BY <1>9, Stays
<1>13. PushSound(Handled(r), logs'[x], conflicts'[x], objects')
  BY <1>2, <1>3, <1>4, <1>5, <1>7, <1>11, <1>12, HandledSound
<1> QED
  BY <1>1, <1>2, <1>4, <1>5, <1>7, <1>9, <1>10, <1>11, <1>13, PushGoesOn

-----------------------------------------------------------------------------
(* Sending a push, its answer, and saving the copy. *)

(* The server gets what the waiting operation holds, and one push of it.    *)
LEMMA PushKeeps ==
  ASSUME BrowserInv, NEW a \in actors, Push(a)
  PROVE  BrowserInv'
<1> DEFINE x == Exec(a)
           o == [op[a] EXCEPT !.pc = "answer"]
           r == [by |-> a, exec |-> x, events |-> op[a].loc.pending, uploads |-> op[a].uploads,
                 done |-> 0, keep |-> FALSE, refused |-> {}]
<1>1. /\ op[a].pc = "push" /\ Goes(a, o) /\ pushes' = pushes \cup {r}
      /\ UNCHANGED << scope, remote, device, draft, count, history >>
  BY DEF Push, At
<1>2. /\ OperationSound(op[a], logs[x], OnServer, files, objects, SavedCopy(x))
      /\ op[a] \in Operation /\ op[a].loc \in Copy /\ x \in Executions
      /\ a \in Tabs \X Executions /\ op[a].uploads \subseteq Uploads
  BY <1>1, OperationIs, ActorTypes DEF BrowserInv
<1>3. op[a].loc # None /\ op[a].loc.pending \in Seq(Event)
  BY <1>2, CopyTypes
<1>4. logs[x] # None /\ Named(op[a].loc.pending, op[a].uploads, objects)
  BY <1>1, <1>2, <1>3 DEF OperationSound, Sound, Registered
<1>5. /\ r \in Pushed /\ r.by = a /\ r.exec = x /\ r.events = op[a].loc.pending
      /\ r.uploads = op[a].uploads /\ r.done = 0 /\ r.keep = FALSE /\ r.refused = {}
  BY <1>2, <1>3 DEF Pushed
<1>6. /\ o \in Operation /\ o.pc = "answer" /\ o.loc = op[a].loc /\ o.then = op[a].then
      /\ o.known = op[a].known /\ o.uploads = op[a].uploads /\ o.del = op[a].del
  BY <1>2, GoingTo DEF Pcs
<1> HIDE DEF r, o
<1>7. ServerSound' /\ OnServer' = OnServer /\ UNCHANGED << logs, conflicts, objects >>
  BY <1>1, ServerStays DEF remote
<1>8. Grows
  BY <1>1, <1>7 DEF Grows, device
<1>9. OperationSound(o, logs'[x], OnServer', files', objects', SavedCopy(x))
  <2>1. OperationSound(o, logs[x], OnServer, files, objects, SavedCopy(x))
    BY <1>1, <1>2, <1>6 DEF OperationSound, Registered
  <2> QED
    BY <1>1, <1>7, <2>1 DEF device
<1>10. CopiesSound' /\ BackupSound' /\ OperationsSound' /\ NothingLost' /\ Recorded'
  BY <1>1, <1>6, <1>8, <1>9, GoesOn DEF device, history
<1>11. actors' = actors
  BY <1>8, Stays
<1>12. /\ op'[a] = o /\ \A b \in actors : b # a => op'[b] = op[b]
  BY <1>1 DEF Goes, BrowserInv, BrowserTypeOK
<1>13. PushesSound'
  <2>1. PushSound(r, logs[x], conflicts[x], objects)
    BY <1>4, <1>5 DEF PushSound, FilesOf
  <2> SUFFICES ASSUME NEW q \in pushes'
               PROVE  PushSound(q, logs'[q.exec], conflicts'[q.exec], objects')
    BY DEF PushesSound
  <2> QED
    BY <1>1, <1>5, <1>7, <1>8, <2>1, Stays
<1>14. PushesOwned'
  <2>1. \A q \in pushes : q.by # a
    BY <1>1 DEF BrowserInv, PushesOwned
  <2>2. \A q \in pushes : q.by \in actors => op'[q.by] = op[q.by]
    BY <1>12, <2>1
  <2> QED
    BY <1>1, <1>5, <1>6, <1>11, <1>12, <2>1, <2>2 DEF PushesOwned, BrowserInv, Exec
<1>15. DraftsKept'
  BY <1>1, <1>8, DraftsStay
<1>16. BrowserTypeOK'
  <2>1. o.loc # None
    BY <1>2, <1>6, CopyTypes
  <2>2. /\ op' \in [actors' -> Operation]
        /\ \A b \in actors' :
             /\ op'[b].pc = "idle" => op'[b] = Idle
             /\ op'[b].pc \notin {"idle", "fetch"} => op'[b].loc # None
    BY <1>1, <1>6, <2>1, OperationTypes DEF BrowserInv
  <2>3. r.done \in 0..Len(r.events) /\ r.refused \subseteq ToSet(r.events)
    BY <1>3, <1>5
  <2> QED
    BY <1>1, <1>5, <1>7, <1>11, <2>2, <2>3 DEF BrowserInv, BrowserTypeOK, device, history
<1> QED
  BY <1>7, <1>10, <1>13, <1>14, <1>15, <1>16 DEF BrowserInv, Recorded

(* All that was pushed is refused, a conflict or in the log, so all that    *)
(* waits no more is on the server.                                          *)
LEMMA AnswerKeeps ==
  ASSUME BrowserInv, NEW a \in actors, NEW r \in pushes, Answer(a, r)
  PROVE  BrowserInv'
<1> DEFINE x    == Exec(a)
           copy == op[a].loc
           none == << >>
           S    == copy.rejected \cup r.refused
           c    == [copy EXCEPT !.pending = none, !.rejected = S]
           D    == FilesOf(ToSet(copy.pending) \ r.refused)
           o    == [op[a] EXCEPT !.pc = "forget", !.del = D, !.loc = c]
<1>1. /\ op[a].pc = "answer" /\ r.by = a /\ r.done = Len(r.events)
      /\ Goes(a, o) /\ pushes' = pushes \ {r}
      /\ UNCHANGED << scope, remote, device, draft, count, history >>
  BY DEF Answer, At
<1>2. /\ OperationSound(op[a], logs[x], OnServer, files, objects, SavedCopy(x))
      /\ op[a] \in Operation /\ copy \in Copy /\ x \in Executions
      /\ logs[x] # None => ToSet(logs[x]) \subseteq OnServer
      /\ conflicts[x] \subseteq OnServer
  BY <1>1, OperationIs
<1>3. /\ copy.pending \in Seq(Event) /\ copy.rejected \subseteq Event /\ copy # None
      /\ Waiting(copy) = ToSet(copy.pending) \cup copy.rejected
      /\ ToSet(copy.pending) \subseteq Event
  BY <1>2, CopyTypes, Elements
<1>4. r.exec = x /\ r.events = copy.pending
  BY <1>1 DEF BrowserInv, PushesOwned
<1>5. /\ r.refused \subseteq ToSet(copy.pending)
      /\ PushSound(r, logs[x], conflicts[x], objects) /\ logs[x] # None
      /\ FilesOf(ToSet(logs[x])) \subseteq objects /\ FilesOf(conflicts[x]) \subseteq objects
  BY <1>4, PushIs
<1>6. \A e \in ToSet(copy.pending) : e \in r.refused \cup conflicts[x] \cup ToSet(logs[x])
  <2>1. \A i \in 1..Len(copy.pending) :
          copy.pending[i] \in r.refused \cup conflicts[x] \cup ToSet(logs[x])
    BY <1>1, <1>4, <1>5 DEF PushSound
  <2> QED
    BY <1>3, <2>1 DEF ToSet
<1>7. D \subseteq objects /\ FilesOf(r.refused) \subseteq objects
  BY <1>5, <1>6 DEF FilesOf, PushSound
<1>8. D \in SUBSET Files /\ S \in SUBSET Event /\ none \in Seq(Event) /\ ToSet(none) = {}
  <2>1. D \in SUBSET Files /\ S \in SUBSET Event
    BY <1>3, <1>5, <1>7 DEF BrowserInv, BrowserTypeOK
  <2>2. none \in Seq(Event) /\ ToSet(none) = {}
    BY Elements
  <2> QED
    BY <2>1, <2>2
<1> HIDE DEF D, S, none, copy
<1>9. /\ c \in Copy /\ c.pending = none /\ c.rejected = S
      /\ c.records = copy.records /\ c.unregistered = copy.unregistered
  BY <1>2, <1>8 DEF Copy
<1> HIDE DEF c
<1>10. c # None /\ Waiting(c) = copy.rejected \cup r.refused
  BY <1>8, <1>9, CopyTypes DEF S
<1>11. /\ o \in Operation /\ o.pc = "forget" /\ o.loc = c /\ o.then = op[a].then
       /\ o.known = op[a].known /\ o.uploads = op[a].uploads /\ o.del = D
  <2>1. op[a] \in Operation /\ c \in Copy /\ D \in SUBSET Files
    BY <1>2, <1>8, <1>9
  <2> QED
    BY <2>1 DEF Operation, Pcs
<1> HIDE DEF o
<1>12. ServerSound' /\ OnServer' = OnServer /\ UNCHANGED << logs, conflicts, objects >>
  BY <1>1, ServerStays DEF remote
<1>13. Grows
  BY <1>1, <1>12 DEF Grows, device
<1>14. Sound(c, logs[x], OnServer, files, objects)
  <2>1. Sound(copy, logs[x], OnServer, files, objects)
    BY <1>2 DEF OperationSound, copy
  <2> QED
    BY <1>3, <1>5, <1>7, <1>9, <1>10, <2>1 DEF Sound, FilesOf, S
<1>15. OperationSound(o, logs[x], OnServer, files, objects, SavedCopy(x))
  <2>1. /\ ~ c.unregistered
        /\ op[a].known \subseteq Waiting(copy) \cup OnServer
        /\ Waiting(copy) \subseteq op[a].known
    BY <1>1, <1>2, <1>9 DEF OperationSound, Registered, copy
  <2>2. op[a].known \subseteq Waiting(c) \cup OnServer
    BY <1>2, <1>3, <1>5, <1>6, <1>10, <2>1
  <2>3. Waiting(c) \subseteq op[a].known
    BY <1>3, <1>5, <1>10, <2>1
  <2> QED
    BY <1>7, <1>11, <1>14, <2>1, <2>2, <2>3 DEF OperationSound, Registered
<1>16. OperationSound(o, logs'[x], OnServer', files', objects', SavedCopy(x))
  BY <1>1, <1>12, <1>15 DEF device
<1>17. CopiesSound' /\ BackupSound' /\ OperationsSound' /\ NothingLost' /\ Recorded'
  BY <1>1, <1>11, <1>13, <1>16, GoesOn DEF device, history
<1>18. actors' = actors
  BY <1>13, Stays
<1>19. /\ op'[a] = o /\ \A b \in actors : b # a => op'[b] = op[b]
  BY <1>1 DEF Goes, BrowserInv, BrowserTypeOK
<1>20. PushesSound'
  BY <1>1, <1>13, Stays DEF PushesSound
<1>21. PushesOwned'
  <2>1. \A q \in pushes : q.by = a => q = r
    BY <1>1 DEF BrowserInv, PushesOwned
  <2>2. \A q \in pushes' : q.by \in actors => op'[q.by] = op[q.by]
    BY <1>1, <1>19, <2>1
  <2> QED
    BY <1>1, <1>18, <2>2 DEF PushesOwned, BrowserInv, Exec
<1>22. DraftsKept'
  BY <1>1, <1>13, DraftsStay
<1>23. BrowserTypeOK'
  <2>1. /\ op' \in [actors' -> Operation]
        /\ \A b \in actors' :
             /\ op'[b].pc = "idle" => op'[b] = Idle
             /\ op'[b].pc \notin {"idle", "fetch"} => op'[b].loc # None
    BY <1>1, <1>10, <1>11, OperationTypes DEF BrowserInv
  <2> QED
    BY <1>1, <1>12, <1>18, <2>1 DEF BrowserInv, BrowserTypeOK, device, history
<1> QED
  BY <1>12, <1>17, <1>20, <1>21, <1>22, <1>23 DEF BrowserInv, Recorded

(* What the last event of a pending sequence is.                            *)
LEMMA LastWaits ==
  ASSUME NEW c \in Copy, c.pending # << >>
  PROVE  Last(c.pending) \in Waiting(c) /\ Last(c.pending) \in Event
<1>1. c.pending \in Seq(Event) /\ Waiting(c) = ToSet(c.pending) \cup c.rejected
  BY CopyTypes
<1>2. Len(c.pending) \in DOMAIN c.pending
  BY <1>1
<1> QED
  BY <1>1, <1>2 DEF Last, ToSet

(* The backup once a restored copy is saved.                                *)
LEMMA BackupAfterSave ==
  ASSUME BrowserInv, NEW a \in actors, op[a].pc = "save",
         backup' = IF op[a].then = "restored" THEN [backup EXCEPT !.copies[Exec(a)] = None]
                                              ELSE backup
  PROVE  /\ backup' \in Saved \cup {None}
         /\ backup' = None <=> backup = None
         /\ backup # None =>
              /\ backup'.files = backup.files
              /\ \A y \in Executions : backup'.copies[y] =
                   IF op[a].then = "restored" /\ y = Exec(a) THEN None ELSE backup.copies[y]
<1>1. backup \in Saved \cup {None} /\ Exec(a) \in Executions
  BY ActorTypes DEF BrowserInv, BrowserTypeOK
<1>2. CASE op[a].then # "restored"
  BY <1>1, <1>2
<1>3. CASE op[a].then = "restored"
  <2>1. backup # None
    BY <1>3 DEF BrowserInv, OperationsSound
  <2>2. backup \in Saved
    BY <1>1, <2>1
  <2> DEFINE C == [backup.copies EXCEPT ![Exec(a)] = None]
  <2>3. /\ C \in [Executions -> Copy \cup {None}]
        /\ \A y \in Executions : C[y] = IF y = Exec(a) THEN None ELSE backup.copies[y]
    BY <1>1, <2>2 DEF Saved
  <2>4. backup' = [backup EXCEPT !.copies = C]
    BY <1>3
  <2> HIDE DEF C
  <2>5. backup' \in Saved /\ backup'.files = backup.files /\ backup'.copies = C
    BY <2>2, <2>3, <2>4 DEF Saved
  <2> QED
    BY <1>3, <2>1, <2>3, <2>5, NoCopyAssumption
<1> QED
  BY <1>2, <1>3

(* What the saved copy loses is known, so it is in it or on the server, or  *)
(* it counts as lost.                                                       *)
LEMMA SaveKeeps ==
  ASSUME BrowserInv, NEW a \in actors, Save(a)
  PROVE  BrowserInv'
<1> DEFINE x == Exec(a)
           o == op[a]
           c == o.loc
           q == CASE o.then = "sync" -> [o EXCEPT !.pc = Stage(o.loc)]
                  [] o.then \in {"decide", "pull"} -> [o EXCEPT !.pc = o.then]
                  [] OTHER -> Idle
           gone == Waiting(copies[x]) \ (o.known \cup Waiting(c))
<1>1. /\ o.pc = "save" /\ copies' = [copies EXCEPT ![x] = c]
      /\ lost' = lost \cup gone
      /\ recorded' = recorded \cup (IF o.then = "recorded" THEN {Last(c.pending)} ELSE {})
      /\ backup' = IF o.then = "restored" THEN [backup EXCEPT !.copies[x] = None] ELSE backup
      /\ Goes(a, q)
      /\ UNCHANGED << scope, remote, files, draft, pushes, count, drops, wipes >>
  BY DEF Save, At
<1>2. /\ OperationSound(o, logs[x], OnServer, files, objects, SavedCopy(x))
      /\ o \in Operation /\ c \in Copy /\ x \in Executions
  BY <1>1, OperationIs
<1>3. c # None /\ Waiting(c) \subseteq Event /\ c.unregistered \in BOOLEAN
  BY <1>2, CopyTypes
<1>4. /\ backup' \in Saved \cup {None}
      /\ backup' = None <=> backup = None
      /\ backup # None =>
           /\ backup'.files = backup.files
           /\ \A y \in Executions : backup'.copies[y] =
                IF o.then = "restored" /\ y = x THEN None ELSE backup.copies[y]
  BY <1>1, BackupAfterSave
<1>5. \/ /\ o.then = "sync" /\ q = [o EXCEPT !.pc = Stage(c)]
         /\ Stage(c) \in {"register", "upload", "pull"} /\ Stage(c) \in Pcs
         /\ Stage(c) \in Registered => ~ c.unregistered
      \/ o.then \in {"decide", "pull"} /\ q = [o EXCEPT !.pc = o.then] /\ o.then \in Pcs
      \/ q = Idle
  BY <1>3, StageIs DEF Pcs
<1> HIDE DEF q
<1>6. \/ q = Idle
      \/ /\ q \in Operation /\ q.loc = c /\ q.known = o.known /\ q.del = o.del
         /\ q.pc \in {"register", "upload", "pull", "decide"}
         /\ q.pc \in Registered => ~ c.unregistered
         /\ o.then \notin {"recorded", "restored"}
  <2>1. CASE o.then = "sync" /\ q = [o EXCEPT !.pc = Stage(c)]
             /\ Stage(c) \in {"register", "upload", "pull"} /\ Stage(c) \in Pcs
             /\ (Stage(c) \in Registered => ~ c.unregistered)
    BY <1>2, <2>1, GoingTo
  <2>2. CASE o.then \in {"decide", "pull"} /\ q = [o EXCEPT !.pc = o.then] /\ o.then \in Pcs
    <3>1. /\ q \in Operation /\ q.loc = c /\ q.known = o.known /\ q.del = o.del
          /\ q.pc = o.then
      BY <1>2, <2>2, GoingTo
    <3>2. o.then = "pull" => ~ c.unregistered
      BY <1>1, <1>2 DEF OperationSound
    <3> QED
      BY <2>2, <3>1, <3>2 DEF Registered
  <2> QED
    BY <1>5, <2>1, <2>2
<1>7. /\ Sound(c, logs[x], OnServer, files, objects)
      /\ o.known \subseteq Waiting(c) \cup OnServer
      /\ o.then \notin {"recorded", "restored"} => Waiting(c) \subseteq o.known
      /\ o.then = "recorded" => c.pending # << >>
      /\ o.then = "restored" => Waiting(SavedCopy(x)) \subseteq Waiting(c) \cup OnServer
      /\ o.del \subseteq objects
  BY <1>1, <1>2 DEF OperationSound
<1>8. ServerSound' /\ OnServer' = OnServer /\ UNCHANGED << logs, conflicts, objects >>
  BY <1>1, ServerStays DEF remote
<1>9. Grows
  BY <1>1, <1>8 DEF Grows
<1>10. actors' = actors
  BY <1>9, Stays
<1>11. /\ copies' \in [Executions -> Copy \cup {None}] /\ copies'[x] = c
       /\ \A y \in Executions : y # x => copies'[y] = copies[y]
  BY <1>1, <1>2 DEF BrowserInv, BrowserTypeOK
<1>12. /\ op'[a] = q /\ \A b \in actors : b # a => op'[b] = op[b]
  BY <1>1 DEF Goes, BrowserInv, BrowserTypeOK
<1>13. CopiesSound'
  BY <1>1, <1>7, <1>8, <1>9, <1>11, Stays DEF CopiesSound
<1>14. BackupSound'
  <2> SUFFICES ASSUME backup # None, NEW y \in Executions
               PROVE  Sound(backup'.copies[y], logs[y], OnServer, backup.files, objects)
    BY <1>4, <1>8 DEF BackupSound
  <2>1. Sound(backup.copies[y], logs[y], OnServer, backup.files, objects)
    BY DEF BrowserInv, BackupSound
  <2>2. Sound(None, logs[y], OnServer, backup.files, objects)
    BY DEF Sound
  <2> QED
    BY <1>4, <2>1, <2>2
<1>15. \A y \in Executions : Waiting(SavedCopy(y)') \subseteq Waiting(SavedCopy(y))
  BY <1>4 DEF SavedCopy, Waiting
<1>16. OperationsSound'
  <2> SUFFICES ASSUME NEW b \in actors
               PROVE  /\ OperationSound(op'[b], logs[Exec(b)], OnServer, files, objects,
                                        SavedCopy(Exec(b))')
                      /\ op'[b].pc = "save" /\ op'[b].then = "restored" => backup' # None
    BY <1>1, <1>8, <1>10 DEF OperationsSound, Exec
  <2>1. CASE b = a /\ q = Idle
    BY <1>12, <2>1, IdleSound, IdleIs
  <2>2. CASE b = a /\ q # Idle
    BY <1>6, <1>7, <1>12, <2>2 DEF OperationSound, Registered
  <2>3. CASE b # a
    <3>1. /\ OperationSound(op[b], logs[Exec(b)], OnServer, files, objects,
                            SavedCopy(Exec(b)))
          /\ op[b].pc = "save" /\ op[b].then = "restored" => backup # None
      BY DEF BrowserInv, OperationsSound
    <3>2. Waiting(SavedCopy(Exec(b))') \subseteq Waiting(SavedCopy(Exec(b)))
      BY <1>15, ActorTypes DEF BrowserInv, SavedCopy, Exec
    <3>3. OperationSound(op[b], logs[Exec(b)], OnServer, files, objects,
                         SavedCopy(Exec(b))')
      BY <3>1, <3>2, OperationGrows
    <3> QED
      BY <1>4, <1>12, <2>3, <3>1, <3>3
  <2> QED
    BY <2>1, <2>2, <2>3
<1>17. NothingLost'
  <2> SUFFICES ASSUME OneTabEach, wipes = 0
               PROVE  /\ lost' = {}
                      /\ \A b \in actors : op'[b].pc # "idle" =>
                           Waiting(copies'[Exec(b)]) \subseteq op'[b].known
    BY <1>1, <1>10 DEF NothingLost, OneTabEach, Exec
  <2>1. lost = {} /\ \A b \in actors :
          op[b].pc # "idle" => Waiting(copies[Exec(b)]) \subseteq op[b].known
    BY DEF BrowserInv, NothingLost
  <2>2. lost' = {}
    BY <1>1, <2>1
  <2>3. \A b \in actors : b # a => Exec(b) \in Executions /\ Exec(b) # x
    BY ActorTypes DEF OneTabEach, BrowserInv
  <2>4. op'[a].pc # "idle" => Waiting(copies'[x]) \subseteq op'[a].known
    BY <1>6, <1>7, <1>11, <1>12, IdleIs
  <2> QED
    BY <1>11, <1>12, <2>1, <2>2, <2>3, <2>4
<1>18. Recorded'
  <2>1. Waiting(c) \subseteq OnDevice'
    BY <1>2, <1>11, Zenon DEF OnDevice
  <2>2. OnDevice \subseteq OnDevice' \cup OnServer \cup lost'
    <3> SUFFICES ASSUME NEW y \in Executions, NEW e \in Waiting(copies[y])
                 PROVE  e \in OnDevice' \cup OnServer \cup lost'
      BY DEF OnDevice
    <3>1. CASE y = x
      BY <1>1, <1>7, <2>1, <3>1
    <3>2. CASE y # x
      <4>1. e \in Waiting(copies'[y])
        BY <1>11, <3>2
      <4> QED
        BY <4>1, Zenon DEF OnDevice
    <3> QED
      BY <3>1, <3>2
  <2>3. BackedUp \subseteq BackedUp' \cup OnDevice' \cup OnServer
    <3> SUFFICES ASSUME backup # None, NEW y \in Executions, NEW e \in Waiting(backup.copies[y])
                 PROVE  e \in BackedUp' \cup OnDevice' \cup OnServer
      BY DEF BackedUp
    <3>1. CASE o.then = "restored" /\ y = x
      BY <1>7, <2>1, <3>1 DEF SavedCopy
    <3>2. CASE ~ (o.then = "restored" /\ y = x)
      <4>1. backup' # None /\ e \in Waiting(backup'.copies[y])
        BY <1>4, <3>2
      <4> QED
        BY <4>1 DEF BackedUp, Waiting
    <3> QED
      BY <3>1, <3>2
  <2>4. recorded' \subseteq recorded \cup Waiting(c)
    BY <1>1, <1>2, <1>7, LastWaits
  <2>5. recorded \subseteq OnServer \cup OnDevice \cup BackedUp \cup lost
    BY DEF BrowserInv
  <2>6. lost \subseteq lost'
    BY <1>1
  <2> QED
    BY <1>8, <2>1, <2>2, <2>3, <2>4, <2>5, <2>6 DEF Recorded
<1>19. PushesSound' /\ PushesOwned'
  BY <1>1, <1>9, <1>12, PushesStay
<1>20. DraftsKept'
  BY <1>1, <1>9, DraftsStay
<1>21. BrowserTypeOK'
  <2>1. /\ op' \in [actors' -> Operation]
        /\ \A b \in actors' :
             /\ op'[b].pc = "idle" => op'[b] = Idle
             /\ op'[b].pc \notin {"idle", "fetch"} => op'[b].loc # None
    BY <1>1, <1>3, <1>6, IdleIs, OperationTypes DEF BrowserInv
  <2>2. lost' \subseteq Event
    BY <1>1, <1>2, ExecutionTypes DEF BrowserInv, BrowserTypeOK
  <2>3. recorded' \subseteq Event
    BY <1>1, <1>2, <1>7, LastWaits DEF BrowserInv, BrowserTypeOK
  <2> QED
    BY <1>1, <1>4, <1>8, <1>10, <1>11, <2>1, <2>2, <2>3 DEF BrowserInv, BrowserTypeOK
<1> QED
  BY <1>8, <1>13, <1>14, <1>16, <1>17, <1>18, <1>19, <1>20, <1>21 DEF BrowserInv, Recorded

-----------------------------------------------------------------------------
(* Failures, backups and the loss of the storage. *)

(* Operations end, and nobody waits for their pushes any more.              *)
LEMMA OperationsEnd ==
  ASSUME BrowserInv, NEW S \in SUBSET actors,
         op' \in [actors -> Operation],
         \A b \in actors : op'[b] = IF b \in S THEN Idle ELSE op[b],
         draft' \in [actors -> Event \cup {None}],
         \A b \in actors : draft'[b] \in {draft[b], None},
         \A p \in pushes' :
           \/ p \in pushes /\ p.by \notin S
           \/ \E r \in pushes, n \in Nat : p = [r EXCEPT !.by = << None, n >>],
         drops' \in Nat,
         UNCHANGED << scope, remote, device, count, recorded, lost, wipes >>
  PROVE  BrowserInv'
<1> USE DEF device
<1>1. ServerSound' /\ OnServer' = OnServer /\ UNCHANGED << logs, conflicts, objects >>
  BY ServerStays DEF remote
<1>2. Grows
  BY <1>1 DEF Grows
<1>3. actors' = actors
  BY <1>2, Stays
<1>4. CopiesSound' /\ BackupSound'
  BY <1>2, Stays DEF CopiesSound
<1>5. OperationsSound'
  <2> SUFFICES ASSUME NEW b \in actors
               PROVE  /\ OperationSound(op'[b], logs[Exec(b)], OnServer, files, objects,
                                        SavedCopy(Exec(b)))
                      /\ op'[b].pc = "save" /\ op'[b].then = "restored" => backup # None
    BY <1>1, <1>3 DEF OperationsSound, Exec, SavedCopy
  <2>1. CASE b \in S
    <3>1. op'[b] = Idle
      BY <2>1
    <3> QED
      BY <3>1, IdleSound, IdleIs
  <2>2. CASE b \notin S
    BY <2>2 DEF BrowserInv, OperationsSound
  <2> QED
    BY <2>1, <2>2
<1>6. NothingLost'
  <2> SUFFICES ASSUME OneTabEach, wipes = 0
               PROVE  /\ lost = {}
                      /\ \A b \in actors :
                           op'[b].pc # "idle" => Waiting(copies[Exec(b)]) \subseteq op'[b].known
    BY <1>3 DEF NothingLost, OneTabEach, Exec, Waiting
  <2> QED
    BY IdleIs DEF BrowserInv, NothingLost
<1>7. Recorded'
  BY <1>1 DEF BrowserInv, Recorded, OnDevice, BackedUp, Waiting
<1>8. ASSUME NEW p \in pushes', p \notin pushes
      PROVE  /\ p \in Pushed /\ p.by \notin actors
             /\ p.done \in 0..Len(p.events) /\ p.refused \subseteq ToSet(p.events)
             /\ PushSound(p, logs[p.exec], conflicts[p.exec], objects)
  <2>1. PICK r \in pushes, n \in Nat : p = [r EXCEPT !.by = << None, n >>]
    BY <1>8
  <2> DEFINE t == << None, n >>
  <2>2. t \in {None} \X Nat /\ t \notin actors
    BY NoneAssumption, ScopesAssumption DEF BrowserInv, BrowserTypeOK, actors
  <2>3. p = [r EXCEPT !.by = t]
    BY <2>1
  <2> HIDE DEF t
  <2>4. /\ r \in Pushed /\ r.done \in 0..Len(r.events) /\ r.refused \subseteq ToSet(r.events)
        /\ PushSound(r, logs[r.exec], conflicts[r.exec], objects)
    BY PushIs
  <2>5. /\ p \in Pushed /\ p.by = t /\ p.exec = r.exec /\ p.events = r.events
        /\ p.uploads = r.uploads /\ p.done = r.done /\ p.keep = r.keep
        /\ p.refused = r.refused
    BY <2>2, <2>3, <2>4 DEF Pushed
  <2>6. PushSound(p, logs[p.exec], conflicts[p.exec], objects)
    BY <2>4, <2>5 DEF PushSound
  <2> QED
    BY <2>2, <2>4, <2>5, <2>6
<1>9. PushesSound'
  BY <1>1, <1>2, <1>8, Stays DEF PushesSound
<1>10. PushesOwned'
  <2>1. \A p \in pushes' : p.by \in actors => p \in pushes
    BY <1>8
  <2>2. \A p \in pushes' : p.by \in actors => op'[p.by] = op[p.by]
    <3> SUFFICES ASSUME NEW p \in pushes', p.by \in actors
                 PROVE  p.by \notin S
      OBVIOUS
    <3>1. ASSUME NEW r \in pushes, NEW n \in Nat, p = [r EXCEPT !.by = << None, n >>]
          PROVE  p.by = << None, n >>
      <4>1. r \in Pushed
        BY PushIs
      <4> QED
        BY <3>1, <4>1 DEF Pushed
    <3>2. \A n \in Nat : << None, n >> \notin actors
      BY NoneAssumption, ScopesAssumption DEF BrowserInv, BrowserTypeOK, actors
    <3> QED
      BY <3>1, <3>2
  <2> QED
    BY <1>3, <2>1, <2>2 DEF PushesOwned, BrowserInv, Exec
<1>11. DraftsKept'
  BY <1>2, DraftsStay
<1>12. BrowserTypeOK'
  <2>1. /\ op' \in [actors' -> Operation]
        /\ \A b \in actors' :
             /\ op'[b].pc = "idle" => op'[b] = Idle
             /\ op'[b].pc \notin {"idle", "fetch"} => op'[b].loc # None
    BY <1>3, IdleIs DEF BrowserInv, BrowserTypeOK
  <2>2. /\ pushes' \subseteq Pushed
        /\ \A p \in pushes' : p.done \in 0..Len(p.events) /\ p.refused \subseteq ToSet(p.events)
    BY <1>8, PushIs
  <2> QED
    BY <1>1, <1>3, <2>1, <2>2 DEF BrowserInv, BrowserTypeOK
<1> QED
  BY <1>1, <1>4, <1>5, <1>6, <1>7, <1>9, <1>10, <1>11, <1>12 DEF BrowserInv, Recorded

(* What the answers of abandoned pushes go to.                              *)
LEMMA AbandonedAre ==
  ASSUME BrowserInv, NEW S, NEW p \in Abandoned(S)
  PROVE  \/ p \in pushes /\ p.by \notin S
         \/ \E r \in pushes, n \in Nat : p = [r EXCEPT !.by = << None, n >>]
<1>1. drops + 1 \in Nat
  BY DEF BrowserInv, BrowserTypeOK
<1>2. PICK r \in pushes : p = IF r.by \in S THEN [r EXCEPT !.by = << None, drops + 1 >>] ELSE r
  BY DEF Abandoned
<1> QED
  BY <1>1, <1>2

(* A request fails.                                                         *)
LEMMA DropKeeps ==
  ASSUME BrowserInv, NEW a \in actors, Drop(a)
  PROVE  BrowserInv'
<1> DEFINE S == {a}
<1>1. /\ drops' = drops + 1 /\ op' = [op EXCEPT ![a] = Idle]
      /\ draft' = [draft EXCEPT ![a] = IF op[a].pc = "fetch" THEN None ELSE @]
      /\ pushes' = Abandoned(S)
      /\ UNCHANGED << scope, remote, device, count, recorded, lost, wipes >>
  BY DEF Drop, Goes
<1>2. /\ draft' \in [actors -> Event \cup {None}]
      /\ \A b \in actors : draft'[b] \in {draft[b], None}
  BY <1>1, DraftsTyped
<1>3. /\ op' \in [actors -> Operation] /\ drops' \in Nat
      /\ \A b \in actors : op'[b] = IF b \in S THEN Idle ELSE op[b]
  BY <1>1, IdleIs DEF BrowserInv, BrowserTypeOK
<1>4. \A p \in pushes' : \/ p \in pushes /\ p.by \notin S
                         \/ \E r \in pushes, n \in Nat : p = [r EXCEPT !.by = << None, n >>]
  BY <1>1, AbandonedAre
<1>5. S \in SUBSET actors
  OBVIOUS
<1> HIDE DEF S
<1> QED
  BY <1>1, <1>2, <1>3, <1>4, <1>5, OperationsEnd

(* A tab is closed.                                                         *)
LEMMA CloseTabKeeps ==
  ASSUME BrowserInv, NEW t \in Tabs, CloseTab(t)
  PROVE  BrowserInv'
<1> DEFINE mine == {a \in actors : a[1] = t}
<1>1. /\ drops' = drops + 1 /\ mine \in SUBSET actors
      /\ op' = [a \in actors |-> IF a \in mine THEN Idle ELSE op[a]]
      /\ draft' = [a \in actors |-> IF a \in mine THEN None ELSE draft[a]]
      /\ pushes' = Abandoned(mine)
      /\ UNCHANGED << scope, remote, device, count, recorded, lost, wipes >>
  BY DEF CloseTab
<1> HIDE DEF mine
<1>2. /\ draft' \in [actors -> Event \cup {None}]
      /\ \A b \in actors : draft'[b] \in {draft[b], None}
  BY <1>1, DraftsTyped
<1>3. /\ op' \in [actors -> Operation] /\ drops' \in Nat
      /\ \A b \in actors : op'[b] = IF b \in mine THEN Idle ELSE op[b]
  BY <1>1, IdleIs DEF BrowserInv, BrowserTypeOK
<1>4. \A p \in pushes' : \/ p \in pushes /\ p.by \notin mine
                         \/ \E r \in pushes, n \in Nat : p = [r EXCEPT !.by = << None, n >>]
  BY <1>1, AbandonedAre
<1> QED
  BY <1>1, <1>2, <1>3, <1>4, OperationsEnd

(* Handling a push fails.                                                   *)
LEMMA FailPushKeeps ==
  ASSUME BrowserInv, NEW r \in pushes, FailPush(r)
  PROVE  BrowserInv'
<1> DEFINE S == {r.by} \cap actors
<1>1. /\ drops' = drops + 1 /\ pushes' = pushes \ {r}
      /\ op' = IF r.by \in actors THEN [op EXCEPT ![r.by] = Idle] ELSE op
      /\ UNCHANGED << scope, remote, device, draft, count, recorded, lost, wipes >>
  BY DEF FailPush
<1>2. /\ draft' \in [actors -> Event \cup {None}]
      /\ \A b \in actors : draft'[b] \in {draft[b], None}
  BY <1>1, DraftsTyped
<1>3. /\ op' \in [actors -> Operation] /\ drops' \in Nat
      /\ \A b \in actors : op'[b] = IF b \in S THEN Idle ELSE op[b]
  BY <1>1, IdleIs DEF BrowserInv, BrowserTypeOK
<1>4. \A p \in pushes' : p \in pushes /\ p.by \notin S
  BY <1>1 DEF BrowserInv, PushesOwned
<1>5. S \in SUBSET actors
  OBVIOUS
<1>6. \A p \in pushes' : \/ p \in pushes /\ p.by \notin S
                         \/ \E q \in pushes, n \in Nat : p = [q EXCEPT !.by = << None, n >>]
  BY <1>4
<1> HIDE DEF S
<1> QED
  BY <1>1, <1>2, <1>3, <1>5, <1>6, OperationsEnd

(* The backup holds the copies with what waits, and its contents.           *)
LEMMA BackupKeeps ==
  ASSUME BrowserInv, Backup
  PROVE  BrowserInv'
<1> DEFINE C == [x \in Executions |-> IF Waiting(copies[x]) = {} THEN None ELSE copies[x]]
           F == files \cap FilesOf(OnDevice)
<1>1. /\ backup = None /\ backup' = [copies |-> C, files |-> F]
      /\ UNCHANGED << scope, remote, copies, files, draft, op, pushes, count, history >>
  BY DEF Backup
<1>2. /\ C \in [Executions -> Copy \cup {None}]
      /\ \A x \in Executions : C[x] = IF Waiting(copies[x]) = {} THEN None ELSE copies[x]
  BY DEF BrowserInv, BrowserTypeOK
<1>3. F \subseteq Files
  BY DEF BrowserInv, BrowserTypeOK
<1>4. \A x \in Executions : files \cap FilesOf(Waiting(copies[x])) \subseteq F
  BY DEF FilesOf, OnDevice
<1> HIDE DEF C, F
<1>5. backup' \in Saved /\ backup' # None /\ backup'.copies = C /\ backup'.files = F
  BY <1>1, <1>2, <1>3, NoCopyAssumption DEF Saved
<1>6. ServerSound' /\ OnServer' = OnServer /\ UNCHANGED << logs, conflicts, objects >>
  BY <1>1, ServerStays DEF remote
<1>7. Grows
  BY <1>1, <1>6 DEF Grows
<1>8. actors' = actors /\ CopiesSound'
  BY <1>1, <1>7, Stays DEF CopiesSound
<1>9. BackupSound'
  <2> SUFFICES ASSUME NEW x \in Executions
               PROVE  Sound(C[x], logs[x], OnServer, F, objects)
    BY <1>5, <1>6 DEF BackupSound
  <2>1. Sound(copies[x], logs[x], OnServer, files, objects)
    BY DEF BrowserInv, CopiesSound
  <2>2. Sound(None, logs[x], OnServer, F, objects)
    BY DEF Sound
  <2>3. Sound(copies[x], logs[x], OnServer, F, objects)
    BY <1>4, <2>1 DEF Sound
  <2> QED
    BY <1>2, <2>2, <2>3
<1>10. OperationsSound'
  <2> SUFFICES ASSUME NEW b \in actors
               PROVE  OperationSound(op[b], logs[Exec(b)], OnServer, files, objects,
                                     SavedCopy(Exec(b))')
    BY <1>1, <1>5, <1>6, <1>8 DEF OperationsSound, Exec
  <2>1. /\ OperationSound(op[b], logs[Exec(b)], OnServer, files, objects, SavedCopy(Exec(b)))
        /\ ~ (op[b].pc = "save" /\ op[b].then = "restored")
    BY <1>1 DEF BrowserInv, OperationsSound
  <2> QED
    BY <2>1, OperationGrows
<1>11. NothingLost'
  <2>1. NothingLost
    BY DEF BrowserInv
  <2> QED
    BY <1>1, <1>8, <2>1 DEF NothingLost, OneTabEach, Exec, Waiting, history
<1>12. Recorded'
  <2>1. BackedUp = {} /\ OnDevice' = OnDevice
    BY <1>1 DEF BackedUp, OnDevice, Waiting
  <2> QED
    BY <1>1, <1>6, <2>1 DEF BrowserInv, Recorded, history
<1>13. PushesSound' /\ PushesOwned'
  BY <1>1, <1>7, PushesStay
<1>14. DraftsKept'
  BY <1>1, <1>7, DraftsStay
<1>15. BrowserTypeOK'
  BY <1>1, <1>5, <1>6, <1>8 DEF BrowserInv, BrowserTypeOK, history
<1> QED
  BY <1>6, <1>8, <1>9, <1>10, <1>11, <1>12, <1>13, <1>14, <1>15 DEF BrowserInv, Recorded

(* What waits and isn't in the backup is lost with the storage.             *)
LEMMA WipeKeeps ==
  ASSUME BrowserInv, Wipe
  PROVE  BrowserInv'
<1>1. /\ \A a \in actors : op[a].pc = "idle" /\ draft[a] = None
      /\ wipes' = wipes + 1 /\ files' = {}
      /\ copies' = [x \in Executions |-> None]
      /\ lost' = lost \cup (OnDevice \ BackedUp)
      /\ UNCHANGED << scope, remote, backup, draft, op, pushes, count, recorded, drops >>
  BY DEF Wipe
<1>2. ServerSound' /\ OnServer' = OnServer /\ UNCHANGED << logs, conflicts, objects >>
  BY <1>1, ServerStays DEF remote
<1>3. actors' = actors
  BY <1>1 DEF actors
<1>4. CopiesSound'
  BY <1>1 DEF CopiesSound, Sound
<1>5. BackupSound'
  BY <1>1, <1>2 DEF BackupSound, BrowserInv
<1>6. \A a \in actors : op[a] = Idle
  BY <1>1, ActorTypes DEF BrowserInv
<1>7. OperationsSound'
  <2> SUFFICES ASSUME NEW b \in actors
               PROVE  OperationSound(Idle, logs'[Exec(b)], OnServer', files', objects',
                                     SavedCopy(Exec(b))')
    BY <1>1, <1>3, <1>6, IdleIs DEF OperationsSound, Exec
  <2> QED
    BY IdleSound
<1>8. wipes' \in Nat /\ wipes' # 0
  BY <1>1 DEF BrowserInv, BrowserTypeOK
<1>9. NothingLost'
  BY <1>8 DEF NothingLost
<1>10. Recorded'
  <2>1. BackedUp' = BackedUp
    BY <1>1 DEF BackedUp, Waiting
  <2> QED
    BY <1>1, <1>2, <2>1 DEF BrowserInv, Recorded
<1>11. PushesSound' /\ PushesOwned'
  BY <1>1, <1>2, <1>3 DEF BrowserInv, PushesSound, PushesOwned, Exec
<1>12. DraftsKept'
  BY <1>1, <1>3 DEF DraftsKept
<1>13. BrowserTypeOK'
  <2>1. lost' \subseteq Event
    <3>1. \A x \in Executions : Waiting(copies[x]) \subseteq Event
      BY ExecutionTypes DEF BrowserInv
    <3>2. OnDevice \subseteq Event
      BY <3>1 DEF OnDevice
    <3> QED
      BY <1>1, <3>2 DEF BrowserInv, BrowserTypeOK
  <2> QED
    BY <1>1, <1>2, <1>3, <1>8, <2>1 DEF BrowserInv, BrowserTypeOK
<1> QED
  BY <1>2, <1>4, <1>5, <1>7, <1>9, <1>10, <1>11, <1>12, <1>13 DEF BrowserInv, Recorded

-----------------------------------------------------------------------------
(* The invariant, and what follows from it. *)

(* It holds at first.                                                       *)
LEMMA BrowserInvInit ==
  BrowserInit => BrowserInv
<1> SUFFICES ASSUME BrowserInit
             PROVE  BrowserInv
  OBVIOUS
<1> USE DEF BrowserInit
<1>1. BrowserTypeOK
  BY IdleIs DEF BrowserTypeOK
<1>2. ServerSound /\ CopiesSound /\ BackupSound /\ DraftsKept
  BY DEF ServerSound, CopiesSound, BackupSound, DraftsKept, Sound, FilesOf
<1>3. OperationsSound
  <2>1. \A a \in actors : op[a] = Idle
    OBVIOUS
  <2> QED
    BY <2>1, IdleSound, IdleIs DEF OperationsSound
<1>4. PushesSound /\ PushesOwned
  BY DEF PushesSound, PushesOwned
<1>5. NothingLost
  BY IdleIs DEF NothingLost
<1> QED
  BY <1>1, <1>2, <1>3, <1>4, <1>5 DEF BrowserInv

(* Every step keeps it.                                                     *)
LEMMA BrowserInvStep ==
  BrowserInv /\ [BrowserNext]_browserVars => BrowserInv'
<1> SUFFICES ASSUME BrowserInv, [BrowserNext]_browserVars
             PROVE  BrowserInv'
  OBVIOUS
<1>1. CASE UNCHANGED browserVars
  <2> USE <1>1 DEF browserVars
  <2>1. BrowserTypeOK'
    BY DEF BrowserInv, BrowserTypeOK, actors
  <2>2. ServerSound' /\ CopiesSound' /\ BackupSound' /\ DraftsKept'
    BY DEF BrowserInv, ServerSound, CopiesSound, BackupSound, DraftsKept, OnServer, actors
  <2>3. OperationsSound' /\ PushesSound'
    BY DEF BrowserInv, OperationsSound, PushesSound, OnServer, SavedCopy, actors, Exec
  <2>4. PushesOwned' /\ NothingLost'
    BY DEF BrowserInv, PushesOwned, NothingLost, OneTabEach, actors, Exec, Waiting
  <2>5. Recorded'
    BY DEF BrowserInv, Recorded, OnServer, OnDevice, BackedUp, Waiting
  <2> QED
    BY <2>1, <2>2, <2>3, <2>4, <2>5 DEF BrowserInv, Recorded
<1>2. ASSUME NEW a \in actors, SyncStep(a)
      PROVE  BrowserInv'
  <2>1. CASE Sync(a)
    BY <2>1, SyncKeeps
  <2>2. CASE Register(a)
    BY <2>2, RegisterKeeps
  <2>3. CASE Reread(a)
    BY <2>3, RereadKeeps
  <2>4. CASE Upload(a)
    BY <2>4, UploadKeeps
  <2>5. CASE Push(a)
    BY <2>5, PushKeeps
  <2>6. CASE \E r \in pushes : Answer(a, r)
    BY <2>6, AnswerKeeps
  <2>7. CASE Forget(a)
    BY <2>7, ForgetKeeps
  <2>8. CASE Pull(a)
    BY <2>8, PullKeeps
  <2>9. CASE Save(a)
    BY <2>9, SaveKeeps
  <2> QED
    BY <1>2, <2>1, <2>2, <2>3, <2>4, <2>5, <2>6, <2>7, <2>8, <2>9 DEF SyncStep
<1>3. ASSUME NEW a \in actors, ActorStep(a)
      PROVE  BrowserInv'
  <2>1. CASE StartHere(a)
    BY <2>1, StartHereKeeps
  <2>2. CASE OpenExecution(a)
    BY <2>2, OpenExecutionKeeps
  <2>3. CASE \E d \in scope.drafts : KeepFiles(a, d)
    BY <2>3, KeepFilesKeeps
  <2>4. CASE Record(a)
    BY <2>4, RecordKeeps
  <2>5. CASE Fetch(a)
    BY <2>5, FetchKeeps
  <2>6. CASE Decide(a)
    BY <2>6, DecideKeeps
  <2>7. CASE Drop(a)
    BY <2>7, DropKeeps
  <2>8. CASE Restore(a)
    BY <2>8, RestoreKeeps
  <2> QED
    BY <1>2, <1>3, <2>1, <2>2, <2>3, <2>4, <2>5, <2>6, <2>7, <2>8 DEF ActorStep
<1>4. CASE ServerStep
  BY <1>4, PushEventKeeps, KeepConflictKeeps DEF ServerStep
<1>5. CASE \E x \in Executions : StartElsewhere(x) \/ \E d \in scope.drafts : RecordElsewhere(x, d)
  BY <1>5, StartElsewhereKeeps, RecordElsewhereKeeps
<1>6. CASE \E t \in Tabs : CloseTab(t)
  BY <1>6, CloseTabKeeps
<1>7. CASE \E r \in pushes : FailPush(r)
  BY <1>7, FailPushKeeps
<1>8. CASE Backup \/ Wipe
  BY <1>8, BackupKeeps, WipeKeeps
<1> QED
  BY <1>1, <1>3, <1>4, <1>5, <1>6, <1>7, <1>8 DEF BrowserNext

(* The invariant holds in every state, whatever tabs, executions and events *)
(* there are and whatever fails.                                            *)
THEOREM BrowserStaysSound == BrowserSpec => []BrowserInv
BY BrowserInvInit, BrowserInvStep, PTL DEF BrowserSpec

(* Type correctness of the browser's part.                                  *)
THEOREM BrowserTypeCorrect == BrowserSpec => []BrowserTypeOK
<1>1. BrowserInv => BrowserTypeOK
  BY DEF BrowserInv
<1> QED
  BY <1>1, BrowserStaysSound, PTL

(* RecordedIsSomewhere: what #decide reported as recorded is never lost by  *)
(* requests, answers or tabs that are.                                      *)
THEOREM RecordedAlwaysSomewhere == BrowserSpec => []RecordedIsSomewhere
<1>1. BrowserInv => RecordedIsSomewhere
  BY DEF BrowserInv, NothingLost, OneTabEach, RecordedIsSomewhere
<1> QED
  BY <1>1, BrowserStaysSound, PTL

(* ContentKept: #forgetFiles deletes a content only once the server has it. *)
THEOREM ContentAlwaysKept == BrowserSpec => []ContentKept
<1>1. BrowserInv => ContentKept
  <2> SUFFICES ASSUME BrowserInv, NEW e \in recorded \ lost
               PROVE  \/ e.file \in {None} \cup files \cup objects
                      \/ e \in BackedUp /\ e.file \in backup.files
    BY DEF ContentKept
  <2>1. e \in OnServer \cup OnDevice \cup BackedUp
    BY DEF BrowserInv
  <2>2. CASE e \in OnServer
    <3>1. PICK x \in Executions :
            e \in conflicts[x] \cup (IF logs[x] = None THEN {} ELSE ToSet(logs[x]))
      BY <2>2 DEF OnServer
    <3>2. /\ FilesOf(conflicts[x]) \subseteq objects
          /\ logs[x] # None => FilesOf(ToSet(logs[x])) \subseteq objects
      BY DEF BrowserInv, ServerSound
    <3> QED
      BY <3>1, <3>2 DEF FilesOf
  <2>3. CASE e \in OnDevice
    <3>1. PICK x \in Executions : e \in Waiting(copies[x])
      BY <2>3 DEF OnDevice
    <3>2. copies[x] # None => FilesOf(Waiting(copies[x])) \subseteq files \cup objects
      BY DEF BrowserInv, CopiesSound, Sound
    <3> QED
      BY <3>1, <3>2 DEF FilesOf, Waiting
  <2>4. CASE e \in BackedUp
    <3>1. PICK x \in Executions : backup # None /\ e \in Waiting(backup.copies[x])
      BY <2>4 DEF BackedUp
    <3>2. backup.copies[x] # None =>
            FilesOf(Waiting(backup.copies[x])) \subseteq backup.files \cup objects
      BY <3>1 DEF BrowserInv, BackupSound, Sound
    <3> QED
      BY <2>4, <3>1, <3>2 DEF FilesOf, Waiting
  <2> QED
    BY <2>1, <2>2, <2>3, <2>4
<1> QED
  BY <1>1, BrowserStaysSound, PTL

(* RefusedIsOnServer: decide_pushed refuses only what it already has.       *)
THEOREM RefusedAlwaysOnServer == BrowserSpec => []RefusedIsOnServer
<1>1. BrowserInv => RefusedIsOnServer
  BY DEF BrowserInv, CopiesSound, Sound, RefusedIsOnServer
<1> QED
  BY <1>1, BrowserStaysSound, PTL

-----------------------------------------------------------------------------
(* The order of the log, and what copies hold of it. *)

(* These events were recorded among the first n.                            *)
Among(events, n) == \A e \in events : e.id \in 0..n

(* A copy of an execution with this log.                                    *)
Ordered(copy, log, n) == Follows(copy, log) /\ Among(Waiting(copy), n)

LogsOrdered ==
  \A x \in Executions : logs[x] # None => Among(ToSet(logs[x]), count) /\ IsInjective(logs[x])

CopiesOrdered ==
  \A x \in Executions : /\ Ordered(copies[x], logs[x], count)
                        /\ Ordered(SavedCopy(x), logs[x], count)

OperationsOrdered ==
  \A a \in actors : /\ Ordered(op[a].loc, logs[Exec(a)], count)
                    /\ draft[a] # None => draft[a].id \in 0..count

PushesOrdered == \A r \in pushes : Among(ToSet(r.events), count)

OrderInv == LogsOrdered /\ CopiesOrdered /\ OperationsOrdered /\ PushesOrdered

(* The beginnings of a sequence.                                            *)
LEMMA Beginnings ==
  ASSUME NEW S
  PROVE  /\ \A s \in Seq(S) : IsPrefix(s, s) /\ IsPrefix(<< >>, s)
         /\ \A s \in Seq(S), e \in S : IsPrefix(s, Append(s, e))
         /\ \A s, t, u \in Seq(S) : IsPrefix(s, t) /\ IsPrefix(t, u) => IsPrefix(s, u)
         /\ \A s, t \in Seq(S) : IsPrefix(s, t) =>
              /\ Len(s) <= Len(t)
              /\ s \o SubSeq(t, Len(s) + 1, Len(t)) = t
<1> DEFINE Begins(s, t) == Len(s) <= Len(t) /\ \A i \in 1..Len(s) : s[i] = t[i]
<1>1. ASSUME NEW s \in Seq(S), NEW t \in Seq(S)
      PROVE  IsPrefix(s, t) <=> Begins(s, t)
  <2>1. SubSeq(s, 1, Len(s)) = s
    OBVIOUS
  <2>2. ASSUME Len(s) <= Len(t)
        PROVE  /\ SubSeq(t, 1, Len(s)) \in Seq(S) /\ Len(SubSeq(t, 1, Len(s))) = Len(s)
               /\ \A i \in 1..Len(s) : SubSeq(t, 1, Len(s))[i] = t[i]
    BY <2>2
  <2> QED
    BY <2>1, <2>2 DEF IsPrefix
<1>2. ASSUME NEW s \in Seq(S)
      PROVE  IsPrefix(s, s) /\ IsPrefix(<< >>, s)
  <2>1. << >> \in Seq(S) /\ Begins(s, s) /\ Begins(<< >>, s)
    OBVIOUS
  <2> QED
    BY <1>1, <2>1
<1>3. ASSUME NEW s \in Seq(S), NEW e \in S
      PROVE  IsPrefix(s, Append(s, e))
  <2>1. Append(s, e) \in Seq(S) /\ Begins(s, Append(s, e))
    OBVIOUS
  <2> QED
    BY <1>1, <2>1
<1>4. ASSUME NEW s \in Seq(S), NEW t \in Seq(S), NEW u \in Seq(S),
             IsPrefix(s, t), IsPrefix(t, u)
      PROVE  IsPrefix(s, u)
  <2>1. Begins(s, t) /\ Begins(t, u)
    BY <1>1, <1>4
  <2>2. Begins(s, u)
    BY <2>1
  <2> QED
    BY <1>1, <2>2
<1>5. ASSUME NEW s \in Seq(S), NEW t \in Seq(S), IsPrefix(s, t)
      PROVE  Len(s) <= Len(t) /\ s \o SubSeq(t, Len(s) + 1, Len(t)) = t
  <2> DEFINE rest == SubSeq(t, Len(s) + 1, Len(t))
  <2>1. Begins(s, t)
    BY <1>1, <1>5
  <2>2. /\ rest \in Seq(S) /\ Len(rest) = Len(t) - Len(s)
        /\ \A i \in 1..(Len(t) - Len(s)) : rest[i] = t[Len(s) + i]
    BY <2>1
  <2> HIDE DEF rest
  <2>3. s \o rest \in Seq(S) /\ Len(s \o rest) = Len(t)
    BY <2>1, <2>2
  <2>4. ASSUME NEW i \in 1..Len(t)
        PROVE  (s \o rest)[i] = t[i]
    <3>1. CASE i <= Len(s)
      BY <2>1, <2>2, <3>1
    <3>2. CASE ~ (i <= Len(s))
      <4>1. i - Len(s) \in 1..(Len(t) - Len(s)) /\ Len(s) + (i - Len(s)) = i
        BY <3>2
      <4>2. (s \o rest)[i] = rest[i - Len(s)]
        BY <2>2, <3>2
      <4> QED
        BY <2>2, <4>1, <4>2
    <3> QED
      BY <3>1, <3>2
  <2>5. s \o rest = t
    <3> DEFINE u == s \o rest
    <3>1. u \in Seq(S) /\ Len(u) = Len(t) /\ \A i \in 1..Len(t) : u[i] = t[i]
      BY <2>3, <2>4
    <3> HIDE DEF u
    <3>2. u = t
      BY <3>1
    <3> QED
      BY <3>2 DEF u
  <2> QED
    BY <2>1, <2>5 DEF rest
<1> QED
  BY <1>2, <1>3, <1>4, <1>5

(* A copy stays a beginning as its execution's log grows.                   *)
LEMMA FollowsStill ==
  ASSUME NEW copy \in Copy \cup {None},
         NEW log \in Seq(Event) \cup {None}, NEW log2 \in Seq(Event) \cup {None},
         log # None => log2 # None /\ IsPrefix(log, log2), Follows(copy, log)
  PROVE  Follows(copy, log2)
<1>1. CASE copy # None /\ ~ copy.unregistered
  <2>1. /\ copy.records \in Seq(Event) /\ log # None /\ log2 # None
        /\ IsPrefix(copy.records, log) /\ IsPrefix(log, log2)
    BY <1>1, CopyTypes DEF Follows
  <2>2. IsPrefix(copy.records, log2)
    BY <2>1, Beginnings
  <2> QED
    BY <1>1, <2>1, <2>2 DEF Follows
<1> QED
  BY <1>1 DEF Follows

(* And what waits in it was recorded before.                                *)
LEMMA OrderedStill ==
  ASSUME NEW copy \in Copy \cup {None},
         NEW log \in Seq(Event) \cup {None}, NEW log2 \in Seq(Event) \cup {None},
         log # None => log2 # None /\ IsPrefix(log, log2),
         NEW m \in Nat, NEW n \in Nat, m <= n, Ordered(copy, log, m)
  PROVE  Ordered(copy, log2, n)
<1>1. Follows(copy, log2)
  BY FollowsStill DEF Ordered
<1>2. Among(Waiting(copy), n)
  BY DEF Ordered, Among
<1> QED
  BY <1>1, <1>2 DEF Ordered

(* No copy is in order.                                                     *)
LEMMA NoneOrdered ==
  ASSUME NEW log, NEW n
  PROVE  Ordered(None, log, n)
BY DEF Ordered, Follows, Waiting, Among

(* The logs only grow at their ends.                                        *)
LogsExtended ==
  \A x \in Executions : logs[x] # None => logs'[x] # None /\ IsPrefix(logs[x], logs'[x])

(* Logs that stay are extended and in order.                                *)
LEMMA LogsStay ==
  ASSUME BrowserInv, OrderInv, logs' = logs, count' \in Nat, count <= count'
  PROVE  LogsExtended /\ LogsOrdered'
<1>1. LogsExtended
  <2>1. \A x \in Executions : logs[x] # None => IsPrefix(logs[x], logs[x])
    BY ExecutionTypes, Beginnings DEF BrowserInv
  <2> QED
    BY <2>1 DEF LogsExtended
<1>2. LogsOrdered'
  BY DEF OrderInv, LogsOrdered, Among, BrowserInv, BrowserTypeOK
<1> QED
  BY <1>1, <1>2

(* A step keeps the order when the logs do and whatever it puts in a copy,  *)
(* a draft or a push is in order.                                           *)
LEMMA OrderStays ==
  ASSUME BrowserInv, BrowserInv', OrderInv, scope' = scope, count <= count',
         LogsExtended, LogsOrdered',
         \A x \in Executions :
           /\ copies'[x] = copies[x] \/ Ordered(copies'[x], logs'[x], count')
           /\ SavedCopy(x)' = SavedCopy(x) \/ Ordered(SavedCopy(x)', logs'[x], count'),
         \A a \in actors :
           /\ op'[a].loc = op[a].loc \/ Ordered(op'[a].loc, logs'[Exec(a)], count')
           /\ draft'[a] \in {draft[a], None} \/ draft'[a].id \in 0..count',
         \A r \in pushes' :
           (\E q \in pushes : r.events = q.events) \/ Among(ToSet(r.events), count')
  PROVE  OrderInv'
<1>1. actors' = actors /\ count \in Nat /\ count' \in Nat
  BY DEF BrowserInv, BrowserTypeOK, actors
<1>2. ASSUME NEW x \in Executions
      PROVE  /\ logs[x] \in Seq(Event) \cup {None} /\ logs'[x] \in Seq(Event) \cup {None}
             /\ logs[x] # None => logs'[x] # None /\ IsPrefix(logs[x], logs'[x])
             /\ copies[x] \in Copy \cup {None} /\ SavedCopy(x) \in Copy \cup {None}
             /\ Ordered(copies[x], logs[x], count) /\ Ordered(SavedCopy(x), logs[x], count)
  <2>1. /\ logs[x] \in Seq(Event) \cup {None} /\ logs'[x] \in Seq(Event) \cup {None}
        /\ copies[x] \in Copy \cup {None}
    BY DEF BrowserInv, BrowserTypeOK
  <2>2. SavedCopy(x) \in Copy \cup {None}
    BY DEF BrowserInv, BrowserTypeOK, SavedCopy, Saved
  <2> QED
    BY <2>1, <2>2 DEF OrderInv, CopiesOrdered, LogsExtended
<1>3. CopiesOrdered'
  <2> SUFFICES ASSUME NEW x \in Executions
               PROVE  /\ Ordered(copies'[x], logs'[x], count')
                      /\ Ordered(SavedCopy(x)', logs'[x], count')
    BY DEF CopiesOrdered
  <2>1. /\ Ordered(copies[x], logs'[x], count')
        /\ Ordered(SavedCopy(x), logs'[x], count')
    BY <1>1, <1>2, OrderedStill
  <2> QED
    BY <2>1
<1>4. OperationsOrdered'
  <2> SUFFICES ASSUME NEW a \in actors
               PROVE  /\ Ordered(op'[a].loc, logs'[Exec(a)], count')
                      /\ draft'[a] # None => draft'[a].id \in 0..count'
    BY <1>1 DEF OperationsOrdered, Exec
  <2>1. /\ Exec(a) \in Executions /\ op[a].loc \in Copy \cup {None}
        /\ Ordered(op[a].loc, logs[Exec(a)], count)
        /\ draft[a] # None => draft[a].id \in 0..count
    <3>1. Exec(a) \in Executions /\ op[a] \in Operation
      BY ActorTypes DEF BrowserInv
    <3> QED
      BY <3>1 DEF OrderInv, OperationsOrdered, Operation
  <2>2. Ordered(op[a].loc, logs'[Exec(a)], count')
    BY <1>1, <1>2, <2>1, OrderedStill
  <2> QED
    BY <1>1, <2>1, <2>2
<1>5. PushesOrdered'
  <2> SUFFICES ASSUME NEW r \in pushes'
               PROVE  Among(ToSet(r.events), count')
    BY DEF PushesOrdered
  <2>1. \A q \in pushes : Among(ToSet(q.events), count')
    BY <1>1 DEF OrderInv, PushesOrdered, Among
  <2> QED
    BY <2>1
<1> QED
  BY <1>3, <1>4, <1>5 DEF OrderInv

(* What an actor's execution and operation hold is in order.                *)
LEMMA OrderIs ==
  ASSUME BrowserInv, OrderInv, NEW a \in actors
  PROVE  /\ Ordered(copies[Exec(a)], logs[Exec(a)], count)
         /\ Ordered(SavedCopy(Exec(a)), logs[Exec(a)], count)
         /\ Ordered(op[a].loc, logs[Exec(a)], count)
         /\ draft[a] # None => draft[a].id \in 0..count
<1>1. Exec(a) \in Executions
  BY ActorTypes DEF BrowserInv
<1> QED
  BY <1>1 DEF OrderInv, CopiesOrdered, OperationsOrdered

(* A step of one operation that leaves logs, copies and pushes alone.       *)
LEMMA OneGoes ==
  ASSUME BrowserInv, BrowserInv', OrderInv, NEW a \in actors, NEW o, Goes(a, o),
         UNCHANGED << scope, logs, copies, backup, pushes, count >>,
         \A b \in actors : draft'[b] \in {draft[b], None},
         o.loc = op[a].loc \/ Ordered(o.loc, logs[Exec(a)], count)
  PROVE  OrderInv'
<1>1. count' \in Nat /\ count <= count'
  BY DEF BrowserInv, BrowserTypeOK
<1>2. LogsExtended /\ LogsOrdered'
  BY <1>1, LogsStay
<1>3. \A b \in actors : op'[b] = IF b = a THEN o ELSE op[b]
  BY DEF Goes, BrowserInv, BrowserTypeOK
<1>4. \A b \in actors : op'[b].loc = op[b].loc \/ Ordered(op'[b].loc, logs'[Exec(b)], count')
  BY <1>3
<1>5. \A x \in Executions : SavedCopy(x)' = SavedCopy(x)
  BY DEF SavedCopy
<1> QED
  BY <1>1, <1>2, <1>4, <1>5, OrderStays

(* An operation begins with the copy on the device, or with none.           *)
LEMMA LoadingOrders ==
  ASSUME BrowserInv, BrowserInv', OrderInv, NEW a \in actors,
         Record(a) \/ Sync(a) \/ OpenExecution(a)
  PROVE  OrderInv'
<1>1. ASSUME NEW p \in Pcs, Goes(a, Loaded(a, p)),
             UNCHANGED << scope, remote, device, draft, pushes, count, history >>
      PROVE  OrderInv'
  <2> DEFINE o == Loaded(a, p)
  <2>1. o.loc = copies[Exec(a)]
    BY LoadedIs
  <2>2. Goes(a, o)
    BY <1>1
  <2> HIDE DEF o
  <2>3. Ordered(o.loc, logs[Exec(a)], count)
    BY <2>1, OrderIs
  <2> QED
    BY <1>1, <2>2, <2>3, OneGoes DEF remote, device
<1>2. CASE Record(a)
  <2>1. (IF copies[Exec(a)] = None THEN "fetch" ELSE "decide") \in Pcs
    BY DEF Pcs
  <2> QED
    BY <1>1, <1>2, <2>1 DEF Record
<1>3. CASE Sync(a)
  <2>1. copies[Exec(a)].unregistered \in BOOLEAN
    BY <1>3, ActorTypes, ExecutionTypes, CopyTypes DEF BrowserInv, Sync
  <2>2. Stage(copies[Exec(a)]) \in Pcs
    BY <2>1, StageIs
  <2> QED
    BY <1>1, <1>3, <2>2 DEF Sync
<1>4. CASE OpenExecution(a)
  <2> DEFINE o == [Idle EXCEPT !.pc = "fetch"]
  <2>1. o.loc = None
    BY IdleIs, GoingTo, ZenonT(40) DEF Pcs
  <2>2. Goes(a, o) /\ UNCHANGED << scope, remote, device, draft, pushes, count, history >>
    BY <1>4 DEF OpenExecution
  <2> HIDE DEF o
  <2>3. Ordered(o.loc, logs[Exec(a)], count)
    BY <2>1, NoneOrdered
  <2> QED
    BY <2>2, <2>3, OneGoes DEF remote, device
<1> QED
  BY <1>2, <1>3, <1>4

(* An operation goes on with a copy in order, or ends.                      *)
LEMMA SavingOrders ==
  ASSUME BrowserInv, BrowserInv', OrderInv, NEW a \in actors,
         NEW q \in Operation, NEW c \in Copy, NEW t \in Thens,
         Ordered(c, logs[Exec(a)], count),
         Goes(a, Saving(q, c, t)) \/ Goes(a, Idle),
         UNCHANGED << scope, logs, copies, backup, pushes, count >>,
         \A b \in actors : draft'[b] \in {draft[b], None}
  PROVE  OrderInv'
<1> DEFINE o == Saving(q, c, t)
<1>1. o.loc = c
  BY SavingIs, SMT
<1>2. CASE Goes(a, o)
  <2> HIDE DEF o
  <2> QED
    BY <1>1, <1>2, OneGoes
<1>3. CASE Goes(a, Idle)
  <2>1. Ordered(Idle.loc, logs[Exec(a)], count)
    BY IdleIs, NoneOrdered
  <2> QED
    BY <1>3, <2>1, OneGoes
<1> QED
  BY <1>2, <1>3

(* What is fetched is the whole log.                                        *)
LEMMA FetchOrders ==
  ASSUME BrowserInv, BrowserInv', OrderInv, NEW a \in actors, Fetch(a)
  PROVE  OrderInv'
<1> DEFINE log == logs[Exec(a)]
           c   == Fresh(log)
<1>1. /\ op[a].pc = "fetch" /\ Goes(a, Saving(op[a], c, "decide"))
      /\ UNCHANGED << scope, remote, device, draft, pushes, count, history >>
  BY DEF Fetch, At
<1>2. log # None /\ log \in Seq(Event) /\ op[a] \in Operation
  BY <1>1, OperationIs DEF OperationSound
<1>3. /\ c \in Copy /\ c.records = log /\ c.pending = << >>
      /\ c.rejected = {} /\ c.unregistered = FALSE
  BY <1>2, FreshIs
<1>4. IsPrefix(log, log) /\ Waiting(c) = {}
  BY <1>2, <1>3, Beginnings, CopyTypes, Elements
<1> HIDE DEF c, log
<1>5. Ordered(c, log, count)
  BY <1>2, <1>3, <1>4 DEF Ordered, Follows, Among
<1>6. "decide" \in Thens
  BY DEF Thens
<1> QED
  BY <1>1, <1>2, <1>3, <1>5, <1>6, SavingOrders DEF remote, device, log

(* What is recorded waits, and the records stay.                            *)
LEMMA DecideOrders ==
  ASSUME BrowserInv, BrowserInv', OrderInv, NEW a \in actors, Decide(a)
  PROVE  OrderInv'
<1> DEFINE copy == op[a].loc
           c    == [copy EXCEPT !.pending = Append(@, draft[a])]
<1>1. /\ op[a].pc = "decide" /\ draft' = [draft EXCEPT ![a] = None]
      /\ Goes(a, Idle) \/ (draft[a] # None /\ Goes(a, Saving(op[a], c, "recorded")))
      /\ UNCHANGED << scope, remote, device, pushes, count, history >>
  BY DEF Decide, At
<1>2. \A b \in actors : draft'[b] \in {draft[b], None}
  BY <1>1, DraftsTyped
<1>3. op[a] \in Operation /\ copy \in Copy
  BY <1>1, OperationIs
<1>4. CASE Goes(a, Idle)
  <2>1. Ordered(Idle.loc, logs[Exec(a)], count)
    BY IdleIs, NoneOrdered
  <2> QED
    BY <1>1, <1>2, <1>4, <2>1, OneGoes DEF remote, device
<1>5. CASE draft[a] # None /\ Goes(a, Saving(op[a], c, "recorded"))
  <2>1. draft[a] \in Event /\ draft[a].id \in 0..count /\ Ordered(copy, logs[Exec(a)], count)
    BY <1>5, DraftsTyped, OrderIs
  <2>2. /\ copy.pending \in Seq(Event) /\ copy # None
        /\ Waiting(copy) = ToSet(copy.pending) \cup copy.rejected
    BY <1>3, CopyTypes
  <2>3. /\ Append(copy.pending, draft[a]) \in Seq(Event)
        /\ ToSet(Append(copy.pending, draft[a])) = ToSet(copy.pending) \cup {draft[a]}
    BY <2>1, <2>2, Elements
  <2>4. /\ c \in Copy /\ c.pending = Append(copy.pending, draft[a])
        /\ c.records = copy.records /\ c.rejected = copy.rejected
        /\ c.unregistered = copy.unregistered
    BY <1>3, <2>3, PendingIs
  <2>5. Waiting(c) = Waiting(copy) \cup {draft[a]}
    BY <2>2, <2>3, <2>4, CopyTypes
  <2> HIDE DEF c, copy
  <2>6. Ordered(c, logs[Exec(a)], count)
    BY <2>1, <2>2, <2>4, <2>5 DEF Ordered, Follows, Among
  <2>7. "recorded" \in Thens
    BY DEF Thens
  <2> QED
    BY <1>1, <1>2, <1>3, <1>5, <2>4, <2>6, <2>7, SavingOrders DEF remote, device
<1> QED
  BY <1>1, <1>4, <1>5

(* What is read after registering is the whole log.                         *)
LEMMA RereadOrders ==
  ASSUME BrowserInv, BrowserInv', OrderInv, NEW a \in actors, Reread(a)
  PROVE  OrderInv'
<1> DEFINE log  == logs[Exec(a)]
           copy == op[a].loc
           c    == [copy EXCEPT !.records = log, !.unregistered = FALSE]
<1>1. /\ op[a].pc = "reread" /\ Goes(a, Saving(op[a], c, "sync"))
      /\ UNCHANGED << scope, remote, device, draft, pushes, count, history >>
  BY DEF Reread, At
<1>2. op[a] \in Operation /\ copy \in Copy /\ log # None /\ log \in Seq(Event)
  BY <1>1, OperationIs DEF OperationSound
<1>3. /\ c \in Copy /\ c.records = log /\ c.pending = copy.pending
      /\ c.rejected = copy.rejected /\ c.unregistered = FALSE
  BY <1>2, RegisteredIs
<1>4. IsPrefix(log, log) /\ Waiting(c) = Waiting(copy)
  BY <1>2, <1>3, Beginnings, CopyTypes
<1>5. Ordered(copy, log, count)
  BY OrderIs
<1> HIDE DEF c, log, copy
<1>6. Ordered(c, log, count)
  BY <1>2, <1>3, <1>4, <1>5 DEF Ordered, Follows
<1>7. "sync" \in Thens
  BY DEF Thens
<1> QED
  BY <1>1, <1>2, <1>3, <1>6, <1>7, SavingOrders DEF remote, device, log

(* The log begins with what is held, so the lines pulled complete it.       *)
LEMMA PullOrders ==
  ASSUME BrowserInv, BrowserInv', OrderInv, NEW a \in actors, Pull(a)
  PROVE  OrderInv'
<1> DEFINE copy == op[a].loc
           log  == logs[Exec(a)]
           new  == IF Len(log) >= Len(copy.records)
                     THEN copy.records \o SubSeq(log, Len(copy.records) + 1, Len(log))
                     ELSE log
           c    == [copy EXCEPT !.records = new]
<1>1. /\ op[a].pc = "pull"
      /\ Goes(a, Saving(op[a], c, "idle")) \/ Goes(a, Idle)
      /\ UNCHANGED << scope, remote, device, draft, pushes, count, history >>
  BY DEF Pull, At
<1>2. /\ op[a] \in Operation /\ copy \in Copy
      /\ OperationSound(op[a], log, OnServer, files, objects, SavedCopy(Exec(a)))
  BY <1>1, OperationIs
<1>3. copy # None /\ copy.records \in Seq(Event)
  BY <1>2, CopyTypes
<1>4. ~ copy.unregistered /\ log # None /\ log \in Seq(Event)
  BY <1>1, <1>2, <1>3, OperationIs DEF OperationSound, Sound, Registered
<1>5. Ordered(copy, log, count) /\ IsPrefix(copy.records, log)
  BY <1>3, <1>4, OrderIs DEF Ordered, Follows
<1>6. /\ Len(copy.records) <= Len(log) /\ IsPrefix(log, log)
      /\ copy.records \o SubSeq(log, Len(copy.records) + 1, Len(log)) = log
  BY <1>3, <1>4, <1>5, Beginnings
<1>7. new = log
  BY <1>3, <1>4, <1>6
<1> HIDE DEF new
<1>8. /\ c \in Copy /\ c.records = log /\ c.pending = copy.pending
      /\ c.rejected = copy.rejected /\ c.unregistered = copy.unregistered
  BY <1>2, <1>4, <1>7, RecordsAre
<1>9. Waiting(c) = Waiting(copy)
  BY <1>2, <1>8, CopyTypes
<1> HIDE DEF c, log, copy
<1>10. Ordered(c, log, count)
  BY <1>4, <1>5, <1>6, <1>8, <1>9 DEF Ordered, Follows
<1>11. "idle" \in Thens
  BY DEF Thens
<1> QED
  BY <1>1, <1>2, <1>8, <1>10, <1>11, SavingOrders DEF remote, device, log

(* The copy an operation holds stays the same while contents are uploaded   *)
(* or deleted.                                                              *)
LEMMA ContentOrders ==
  ASSUME BrowserInv, BrowserInv', OrderInv, NEW a \in actors, Upload(a) \/ Forget(a)
  PROVE  OrderInv'
<1>1. ASSUME NEW o, Goes(a, o), o.loc = op[a].loc,
             UNCHANGED << scope, remote, copies, backup, draft, pushes, count, history >>
      PROVE  OrderInv'
  BY <1>1, OneGoes DEF remote
<1>2. CASE Upload(a)
  <2> DEFINE pending == op[a].loc.pending
             U == {[file |-> f, name |-> pending[First(pending, f)].name] :
                     f \in files \cap FilesOf(ToSet(pending))}
             o == [op[a] EXCEPT !.pc = "push", !.uploads = U]
  <2>1. Goes(a, o) /\ UNCHANGED << scope, remote, device, draft, pushes, count, history >>
    BY <1>2 DEF Upload
  <2>2. op[a] \in Operation
    BY OperationIs
  <2> HIDE DEF U
  <2>3. o.loc = op[a].loc
    BY <2>2 DEF Operation
  <2> HIDE DEF o
  <2> QED
    BY <1>1, <2>1, <2>3 DEF device
<1>3. CASE Forget(a)
  <2>1. /\ UNCHANGED << scope, remote, copies, backup, draft, pushes, count, history >>
        /\ op[a] \in Operation /\ op[a].loc \in Copy
    BY <1>3, OperationIs DEF Forget, At
  <2>2. CASE Goes(a, Saving(op[a], op[a].loc, "pull"))
    <3> DEFINE o == Saving(op[a], op[a].loc, "pull")
    <3>1. "pull" \in Thens
      BY DEF Thens
    <3>2. o.loc = op[a].loc
      BY <2>1, <3>1, SavingIs, SMT
    <3>3. Goes(a, o)
      BY <2>2
    <3> HIDE DEF o
    <3> QED
      BY <1>1, <2>1, <3>2, <3>3
  <2>3. ASSUME NEW f \in op[a].del, Goes(a, [op[a] EXCEPT !.del = @ \ {f}])
        PROVE  OrderInv'
    <3> DEFINE D == op[a].del \ {f}
               o == [op[a] EXCEPT !.del = D]
    <3>1. Goes(a, o)
      BY <2>3
    <3> HIDE DEF D
    <3>2. o.loc = op[a].loc
      BY <2>1 DEF Operation
    <3> HIDE DEF o
    <3> QED
      BY <1>1, <2>1, <3>1, <3>2
  <2> QED
    BY <1>3, <2>2, <2>3 DEF Forget
<1> QED
  BY <1>2, <1>3

(* mergeBackup leaves the records of the copy that is kept.                 *)
LEMMA RestoreOrders ==
  ASSUME BrowserInv, BrowserInv', OrderInv, NEW a \in actors, Restore(a)
  PROVE  OrderInv'
<1> DEFINE x     == Exec(a)
           kept  == copies[x]
           saved == backup.copies[x]
           q     == Loaded(a, "save")
           c     == MergeBackup(kept, saved)
<1>1. /\ backup # None /\ saved # None /\ Goes(a, Saving(q, c, "restored"))
      /\ UNCHANGED << scope, remote, copies, backup, draft, pushes, count, history >>
  BY DEF Restore
<1>2. x \in Executions /\ kept \in Copy \cup {None}
  BY ActorTypes, ExecutionTypes DEF BrowserInv
<1>3. backup \in Saved
  BY <1>1 DEF BrowserInv, BrowserTypeOK
<1>4. saved \in Copy
  BY <1>1, <1>2, <1>3 DEF Saved
<1>5. q \in Operation
  BY LoadedIs DEF Pcs
<1>6. Ordered(kept, logs[x], count) /\ Ordered(saved, logs[x], count)
  <2>1. SavedCopy(x) = saved
    BY <1>1 DEF SavedCopy
  <2> QED
    BY <2>1, OrderIs
<1> HIDE DEF saved, kept, q
<1>7. /\ c \in Copy
      /\ Waiting(c) \subseteq Waiting(kept) \cup Waiting(saved)
      /\ kept = None => c = saved
      /\ kept # None => c.records = kept.records /\ c.unregistered = kept.unregistered
  BY <1>2, <1>4, MergedIs
<1> HIDE DEF c
<1>8. Ordered(c, logs[x], count)
  <2>1. CASE kept = None
    BY <1>6, <1>7, <2>1
  <2>2. CASE kept # None
    BY <1>6, <1>7, <2>2 DEF Ordered, Follows, Among
  <2> QED
    BY <2>1, <2>2
<1>9. "restored" \in Thens
  BY DEF Thens
<1> QED
  BY <1>1, <1>5, <1>7, <1>8, <1>9, SavingOrders DEF remote

(* A log that begins is empty.                                              *)
LEMMA LogBegins ==
  ASSUME BrowserInv, OrderInv, NEW x \in Executions, logs[x] = None,
         logs' = [logs EXCEPT ![x] = << >>], count' = count
  PROVE  LogsExtended /\ LogsOrdered'
<1> DEFINE none == << >>
<1>1. ToSet(none) = {} /\ IsInjective(none)
  BY Elements DEF IsInjective
<1>2. logs' = [logs EXCEPT ![x] = none]
  OBVIOUS
<1> HIDE DEF none
<1>3. /\ logs'[x] = none
      /\ \A y \in Executions : y # x => logs'[y] = logs[y]
  BY <1>2 DEF BrowserInv, BrowserTypeOK
<1>4. LogsExtended
  <2>1. \A y \in Executions : logs[y] # None => IsPrefix(logs[y], logs[y])
    BY ExecutionTypes, Beginnings DEF BrowserInv
  <2> QED
    BY <1>3, <2>1 DEF LogsExtended
<1>5. LogsOrdered'
  BY <1>1, <1>3 DEF OrderInv, LogsOrdered, Among
<1> QED
  BY <1>4, <1>5

(* A log gets an event it doesn't have.                                     *)
LEMMA LogGains ==
  ASSUME BrowserInv, OrderInv, NEW x \in Executions, logs[x] # None,
         NEW e \in Event, e \notin ToSet(logs[x]), e.id \in 0..count',
         logs' = [logs EXCEPT ![x] = Append(logs[x], e)], count' \in Nat, count <= count'
  PROVE  LogsExtended /\ LogsOrdered'
<1> DEFINE log == Append(logs[x], e)
<1>1. logs[x] \in Seq(Event) /\ count \in Nat
  BY ExecutionTypes DEF BrowserInv, BrowserTypeOK
<1>2. /\ log \in Seq(Event)
      /\ ToSet(log) = ToSet(logs[x]) \cup {e} /\ IsPrefix(logs[x], log)
  BY <1>1, Elements, Beginnings
<1>3. \A y \in Executions : logs[y] # None => Among(ToSet(logs[y]), count) /\ IsInjective(logs[y])
  BY DEF OrderInv, LogsOrdered
<1>4. IsInjective(log)
  <2>1. /\ DOMAIN log = 1..(Len(logs[x]) + 1) /\ log[Len(logs[x]) + 1] = e
        /\ \A i \in 1..Len(logs[x]) : log[i] = logs[x][i] /\ logs[x][i] # e
    BY <1>1 DEF ToSet
  <2>2. \A i, j \in 1..Len(logs[x]) : logs[x][i] = logs[x][j] => i = j
    BY <1>1, <1>3 DEF IsInjective
  <2> HIDE DEF log
  <2>3. ASSUME NEW i \in DOMAIN log, NEW j \in DOMAIN log, log[i] = log[j]
        PROVE  i = j
    <3>1. \A k \in DOMAIN log : k \in 1..Len(logs[x]) \/ k = Len(logs[x]) + 1
      BY <1>1, <2>1
    <3> QED
      BY <2>1, <2>2, <2>3, <3>1
  <2> QED
    BY <2>3 DEF IsInjective
<1>5. logs' = [logs EXCEPT ![x] = log]
  OBVIOUS
<1> HIDE DEF log
<1>6. /\ logs'[x] = log
      /\ \A y \in Executions : y # x => logs'[y] = logs[y]
  BY <1>5 DEF BrowserInv, BrowserTypeOK
<1>7. LogsExtended
  <2>1. log # None
    BY <1>2, NoCopyAssumption
  <2>2. \A y \in Executions : logs[y] # None => IsPrefix(logs[y], logs[y])
    BY ExecutionTypes, Beginnings DEF BrowserInv
  <2> QED
    BY <1>2, <1>6, <2>1, <2>2 DEF LogsExtended
<1>8. LogsOrdered'
  <2> SUFFICES ASSUME NEW y \in Executions, logs'[y] # None
               PROVE  Among(ToSet(logs'[y]), count') /\ IsInjective(logs'[y])
    BY DEF LogsOrdered
  <2>1. logs[y] # None => Among(ToSet(logs[y]), count')
    BY <1>1, <1>3 DEF Among
  <2>2. CASE y = x
    BY <1>2, <1>4, <1>6, <2>1, <2>2 DEF Among
  <2> QED
    BY <1>3, <1>6, <2>1, <2>2
<1> QED
  BY <1>7, <1>8

(* Registering gives the execution an empty log, if it has none.            *)
LEMMA RegisterOrders ==
  ASSUME BrowserInv, BrowserInv', OrderInv, NEW a \in actors, Register(a)
  PROVE  OrderInv'
<1> DEFINE x == Exec(a)
           o == [op[a] EXCEPT !.pc = "reread"]
<1>1. /\ Goes(a, o) /\ logs' = [logs EXCEPT ![x] = IF @ = None THEN << >> ELSE @]
      /\ UNCHANGED << scope, conflicts, objects, device, draft, pushes, count, history >>
  BY DEF Register
<1>2. x \in Executions /\ op[a] \in Operation /\ count \in Nat
  BY OperationIs DEF BrowserInv, BrowserTypeOK
<1>3. LogsExtended /\ LogsOrdered'
  <2>1. CASE logs[x] = None
    <3>1. logs' = [logs EXCEPT ![x] = << >>]
      BY <1>1, <2>1
    <3> QED
      BY <1>1, <1>2, <2>1, <3>1, LogBegins
  <2>2. CASE logs[x] # None
    <3>1. logs' = logs
      BY <1>1, <1>2, <2>2 DEF BrowserInv, BrowserTypeOK
    <3> QED
      BY <1>1, <1>2, <3>1, LogsStay
  <2> QED
    BY <2>1, <2>2
<1>4. o.loc = op[a].loc
  BY <1>2, GoingTo DEF Pcs
<1> HIDE DEF o
<1>5. \A b \in actors : op'[b].loc = op[b].loc
  BY <1>1, <1>4 DEF Goes, BrowserInv, BrowserTypeOK
<1>6. \A y \in Executions : copies'[y] = copies[y] /\ SavedCopy(y)' = SavedCopy(y)
  BY <1>1 DEF SavedCopy, device
<1> QED
  BY <1>1, <1>2, <1>3, <1>5, <1>6, OrderStays

(* What is pushed waited.                                                   *)
LEMMA PushOrders ==
  ASSUME BrowserInv, BrowserInv', OrderInv, NEW a \in actors, Push(a)
  PROVE  OrderInv'
<1> DEFINE o == [op[a] EXCEPT !.pc = "answer"]
           r == [by |-> a, exec |-> Exec(a), events |-> op[a].loc.pending,
                 uploads |-> op[a].uploads, done |-> 0, keep |-> FALSE, refused |-> {}]
<1>1. /\ op[a].pc = "push" /\ Goes(a, o) /\ pushes' = pushes \cup {r}
      /\ UNCHANGED << scope, remote, device, draft, count, history >>
  BY DEF Push, At
<1>2. op[a] \in Operation /\ op[a].loc \in Copy /\ count \in Nat
  BY <1>1, OperationIs DEF BrowserInv, BrowserTypeOK
<1>3. o.loc = op[a].loc /\ r.events = op[a].loc.pending
  BY <1>2, GoingTo DEF Pcs
<1> HIDE DEF o, r
<1>4. \A b \in actors : op'[b].loc = op[b].loc
  BY <1>1, <1>3 DEF Goes, BrowserInv, BrowserTypeOK
<1>5. Among(ToSet(r.events), count')
  <2>1. Ordered(op[a].loc, logs[Exec(a)], count)
    BY OrderIs
  <2>2. ToSet(op[a].loc.pending) \subseteq Waiting(op[a].loc)
    BY <1>2, CopyTypes
  <2> QED
    BY <1>1, <1>3, <2>1, <2>2 DEF Ordered, Among
<1>6. \A y \in Executions : copies'[y] = copies[y] /\ SavedCopy(y)' = SavedCopy(y)
  BY <1>1 DEF SavedCopy, device
<1>7. LogsExtended /\ LogsOrdered'
  BY <1>1, <1>2, LogsStay DEF remote
<1> QED
  BY <1>1, <1>2, <1>4, <1>5, <1>6, <1>7, OrderStays

(* What is refused waited, and the records stay.                            *)
LEMMA AnswerOrders ==
  ASSUME BrowserInv, BrowserInv', OrderInv, NEW a \in actors, NEW r \in pushes, Answer(a, r)
  PROVE  OrderInv'
<1> DEFINE copy == op[a].loc
           none == << >>
           S    == copy.rejected \cup r.refused
           c    == [copy EXCEPT !.pending = none, !.rejected = S]
           D    == FilesOf(ToSet(copy.pending) \ r.refused)
           o    == [op[a] EXCEPT !.pc = "forget", !.del = D, !.loc = c]
<1>1. /\ op[a].pc = "answer" /\ r.by = a /\ Goes(a, o) /\ pushes' = pushes \ {r}
      /\ UNCHANGED << scope, remote, device, draft, count, history >>
  BY DEF Answer, At
<1>2. op[a] \in Operation /\ copy \in Copy /\ count \in Nat
  BY <1>1, OperationIs DEF BrowserInv, BrowserTypeOK
<1>3. r.refused \subseteq ToSet(copy.pending)
  BY <1>1, PushIs DEF BrowserInv, PushesOwned
<1>4. /\ copy.pending \in Seq(Event) /\ copy.rejected \subseteq Event /\ copy # None
      /\ Waiting(copy) = ToSet(copy.pending) \cup copy.rejected
      /\ ToSet(copy.pending) \subseteq Event
  BY <1>2, CopyTypes, Elements
<1>5. none \in Seq(Event) /\ ToSet(none) = {} /\ S \in SUBSET Event
  <2>1. none \in Seq(Event) /\ ToSet(none) = {}
    BY Elements
  <2> QED
    BY <1>3, <1>4, <2>1
<1> HIDE DEF none, S, D, copy
<1>6. /\ c \in Copy /\ c.pending = none /\ c.rejected = S
      /\ c.records = copy.records /\ c.unregistered = copy.unregistered
  BY <1>2, <1>5 DEF Copy
<1> HIDE DEF c
<1>7. o.loc = c
  BY <1>2 DEF Operation
<1> HIDE DEF o
<1>8. Waiting(c) \subseteq Waiting(copy)
  <2>1. Waiting(c) = S
    BY <1>5, <1>6, CopyTypes
  <2> QED
    BY <1>3, <1>4, <2>1 DEF S
<1>9. Ordered(c, logs[Exec(a)], count)
  <2>1. Ordered(copy, logs[Exec(a)], count)
    BY OrderIs DEF copy
  <2> QED
    BY <1>4, <1>6, <1>8, <2>1 DEF Ordered, Follows, Among
<1>10. \A b \in actors : op'[b].loc = op[b].loc \/ (b = a /\ op'[b].loc = c)
  BY <1>1, <1>7 DEF Goes, BrowserInv, BrowserTypeOK
<1>11. \A y \in Executions : copies'[y] = copies[y] /\ SavedCopy(y)' = SavedCopy(y)
  BY <1>1 DEF SavedCopy, device
<1>12. logs' = logs /\ LogsExtended /\ LogsOrdered'
  BY <1>1, <1>2, LogsStay DEF remote
<1> QED
  BY <1>1, <1>2, <1>9, <1>10, <1>11, <1>12, OrderStays

(* A copy is saved as the operation holds it.                               *)
LEMMA SaveOrders ==
  ASSUME BrowserInv, BrowserInv', OrderInv, NEW a \in actors, Save(a)
  PROVE  OrderInv'
<1> DEFINE x == Exec(a)
           o == op[a]
           q == CASE o.then = "sync" -> [o EXCEPT !.pc = Stage(o.loc)]
                  [] o.then \in {"decide", "pull"} -> [o EXCEPT !.pc = o.then]
                  [] OTHER -> Idle
<1>1. /\ o.pc = "save" /\ copies' = [copies EXCEPT ![x] = o.loc] /\ Goes(a, q)
      /\ backup' = IF o.then = "restored" THEN [backup EXCEPT !.copies[x] = None] ELSE backup
      /\ UNCHANGED << scope, remote, files, draft, pushes, count, drops, wipes >>
  BY DEF Save, At
<1>2. o \in Operation /\ o.loc \in Copy /\ x \in Executions /\ count \in Nat
  BY <1>1, OperationIs DEF BrowserInv, BrowserTypeOK
<1>3. Stage(o.loc) \in Pcs
  BY <1>2, CopyTypes, StageIs
<1>4. q.loc \in {o.loc, None}
  <2>1. CASE o.then = "sync"
    <3>1. q = [o EXCEPT !.pc = Stage(o.loc)]
      BY <2>1
    <3> HIDE DEF q
    <3> QED
      BY <1>2, <1>3, <3>1, GoingTo
  <2>2. CASE o.then \in {"decide", "pull"}
    <3>1. q = [o EXCEPT !.pc = o.then] /\ o.then \in Pcs
      BY <2>2 DEF Pcs
    <3> HIDE DEF q
    <3> QED
      BY <1>2, <3>1, GoingTo
  <2>3. CASE o.then \notin {"sync", "decide", "pull"}
    <3>1. q = Idle
      BY <2>3
    <3> HIDE DEF q
    <3> QED
      BY <3>1, IdleIs
  <2> QED
    BY <2>1, <2>2, <2>3
<1> HIDE DEF q
<1>5. /\ logs' = logs /\ count' = count /\ LogsExtended /\ LogsOrdered'
  BY <1>1, <1>2, LogsStay DEF remote
<1>6. Ordered(o.loc, logs'[x], count') /\ Ordered(None, logs'[x], count')
  BY <1>5, OrderIs, NoneOrdered
<1>7. ASSUME NEW b \in actors
      PROVE  op'[b].loc = op[b].loc \/ Ordered(op'[b].loc, logs'[Exec(b)], count')
  <2>1. op'[b] = IF b = a THEN q ELSE op[b]
    BY <1>1 DEF Goes, BrowserInv, BrowserTypeOK
  <2> QED
    BY <1>4, <1>6, <2>1
<1>8. ASSUME NEW y \in Executions
      PROVE  /\ copies'[y] = copies[y] \/ Ordered(copies'[y], logs'[y], count')
             /\ SavedCopy(y)' = SavedCopy(y) \/ Ordered(SavedCopy(y)', logs'[y], count')
  <2>1. copies'[y] = IF y = x THEN o.loc ELSE copies[y]
    BY <1>1, <1>2 DEF BrowserInv, BrowserTypeOK
  <2>2. /\ backup' = None <=> backup = None
        /\ backup # None => \A z \in Executions : backup'.copies[z] =
             IF o.then = "restored" /\ z = x THEN None ELSE backup.copies[z]
    BY <1>1, BackupAfterSave
  <2>3. SavedCopy(y)' \in {SavedCopy(y), None}
    BY <2>2 DEF SavedCopy
  <2>4. Ordered(None, logs'[y], count')
    BY NoneOrdered
  <2> QED
    BY <1>6, <2>1, <2>3, <2>4
<1> QED
  BY <1>1, <1>2, <1>5, <1>7, <1>8, OrderStays

(* Operations end and their pushes go on, whatever fails.                   *)
LEMMA EndingOrders ==
  ASSUME BrowserInv, BrowserInv', OrderInv,
         \/ \E a \in actors : Drop(a)
         \/ \E t \in Tabs : CloseTab(t)
         \/ \E r \in pushes : FailPush(r)
  PROVE  OrderInv'
<1>1. ASSUME NEW S, \A p \in pushes' : p \in pushes \/ p \in Abandoned(S),
             UNCHANGED << scope, remote, device, count >>,
             \A b \in actors : op'[b] \in {op[b], Idle} /\ draft'[b] \in {draft[b], None}
      PROVE  OrderInv'
  <2>1. count \in Nat
    BY DEF BrowserInv, BrowserTypeOK
  <2>2. logs' = logs /\ LogsExtended /\ LogsOrdered'
    BY <1>1, <2>1, LogsStay DEF remote
  <2>3. \A y \in Executions : copies'[y] = copies[y] /\ SavedCopy(y)' = SavedCopy(y)
    BY <1>1 DEF SavedCopy, device
  <2>4. \A b \in actors : op'[b].loc = op[b].loc \/ Ordered(op'[b].loc, logs'[Exec(b)], count')
    BY <1>1, IdleIs, NoneOrdered
  <2>5. ASSUME NEW p \in pushes'
        PROVE  \E r \in pushes : p.events = r.events
    <3>1. CASE p \in Abandoned(S)
      <4>1. p \in pushes \/ \E r \in pushes, n \in Nat : p = [r EXCEPT !.by = << None, n >>]
        BY <3>1, AbandonedAre
      <4>2. \A r \in pushes : r \in Pushed
        BY PushIs
      <4> QED
        BY <4>1, <4>2 DEF Pushed
    <3> QED
      BY <1>1, <3>1
  <2> QED
    BY <1>1, <2>1, <2>2, <2>3, <2>4, <2>5, OrderStays
<1>2. ASSUME NEW a \in actors, Drop(a)
      PROVE  OrderInv'
  <2>1. /\ op' = [op EXCEPT ![a] = Idle]
        /\ draft' = [draft EXCEPT ![a] = IF op[a].pc = "fetch" THEN None ELSE @]
        /\ pushes' = Abandoned({a}) /\ UNCHANGED << scope, remote, device, count >>
    BY <1>2 DEF Drop, Goes
  <2>2. \A b \in actors : op'[b] \in {op[b], Idle} /\ draft'[b] \in {draft[b], None}
    BY <2>1 DEF BrowserInv, BrowserTypeOK
  <2> QED
    BY <1>1, <2>1, <2>2
<1>3. ASSUME NEW t \in Tabs, CloseTab(t)
      PROVE  OrderInv'
  <2> DEFINE mine == {a \in actors : a[1] = t}
  <2>1. /\ op' = [a \in actors |-> IF a \in mine THEN Idle ELSE op[a]]
        /\ draft' = [a \in actors |-> IF a \in mine THEN None ELSE draft[a]]
        /\ pushes' = Abandoned(mine) /\ UNCHANGED << scope, remote, device, count >>
    BY <1>3 DEF CloseTab
  <2> HIDE DEF mine
  <2>2. \A b \in actors : op'[b] \in {op[b], Idle} /\ draft'[b] \in {draft[b], None}
    BY <2>1
  <2> QED
    BY <1>1, <2>1, <2>2
<1>4. ASSUME NEW r \in pushes, FailPush(r)
      PROVE  OrderInv'
  <2>1. /\ pushes' = pushes \ {r} /\ UNCHANGED << scope, remote, device, draft, count >>
        /\ op' = IF r.by \in actors THEN [op EXCEPT ![r.by] = Idle] ELSE op
    BY <1>4 DEF FailPush
  <2>2. \A b \in actors : op'[b] \in {op[b], Idle} /\ draft'[b] \in {draft[b], None}
    BY <2>1 DEF BrowserInv, BrowserTypeOK
  <2> QED
    BY <1>1, <2>1, <2>2
<1> QED
  BY <1>2, <1>3, <1>4

(* A number nothing has yet.                                                *)
LEMMA NextNumber ==
  ASSUME BrowserInv, NEW d \in scope.drafts, count' = count + 1
  PROVE  /\ EventOf(d) \in Event /\ EventOf(d).id \in 0..count'
         /\ count \in Nat /\ count' \in Nat /\ count <= count'
         /\ \A E : Among(E, count) => EventOf(d) \notin E
<1>1. EventOf(d) \in Event /\ EventOf(d).id = count + 1 /\ count \in Nat
  BY EventOfIs DEF EventOf, BrowserInv, BrowserTypeOK
<1> QED
  BY <1>1 DEF Among

(* An execution begins on the server, or an event is recorded there.        *)
LEMMA ElsewhereOrders ==
  ASSUME BrowserInv, BrowserInv', OrderInv, NEW x \in Executions,
         StartElsewhere(x) \/ \E d \in scope.drafts : RecordElsewhere(x, d)
  PROVE  OrderInv'
<1>1. ASSUME LogsExtended, LogsOrdered', count <= count',
             UNCHANGED << scope, device, draft, op, pushes >>
      PROVE  OrderInv'
  <2>1. \A y \in Executions : copies'[y] = copies[y] /\ SavedCopy(y)' = SavedCopy(y)
    BY <1>1 DEF SavedCopy, device
  <2> QED
    BY <1>1, <2>1, OrderStays
<1>2. CASE StartElsewhere(x)
  <2>1. /\ logs[x] = None /\ logs' = [logs EXCEPT ![x] = << >>] /\ count' = count
        /\ UNCHANGED << scope, device, draft, op, pushes >>
    BY <1>2 DEF StartElsewhere, New
  <2>2. count \in Nat
    BY DEF BrowserInv, BrowserTypeOK
  <2>3. LogsExtended /\ LogsOrdered'
    BY <2>1, LogBegins
  <2>4. count <= count'
    BY <2>1, <2>2
  <2> QED
    BY <1>1, <2>1, <2>3, <2>4
<1>3. ASSUME NEW d \in scope.drafts, RecordElsewhere(x, d)
      PROVE  OrderInv'
  <2> DEFINE e == EventOf(d)
  <2>1. /\ logs[x] # None /\ logs' = [logs EXCEPT ![x] = Append(logs[x], e)]
        /\ count' = count + 1 /\ UNCHANGED << scope, device, draft, op, pushes >>
    BY <1>3 DEF RecordElsewhere
  <2>2. /\ e \in Event /\ e.id \in 0..count' /\ count' \in Nat /\ count <= count'
        /\ \A E : Among(E, count) => e \notin E
    BY <2>1, NextNumber
  <2>3. e \notin ToSet(logs[x])
    BY <2>1, <2>2 DEF OrderInv, LogsOrdered
  <2> HIDE DEF e
  <2> QED
    BY <1>1, <2>1, <2>2, <2>3, LogGains
<1> QED
  BY <1>2, <1>3

(* An execution begins on the device.                                       *)
LEMMA StartHereOrders ==
  ASSUME BrowserInv, BrowserInv', OrderInv, NEW a \in actors, StartHere(a)
  PROVE  OrderInv'
<1> DEFINE x == Exec(a)
           c == [Fresh(<< >>) EXCEPT !.unregistered = TRUE]
<1>1. /\ copies' = [copies EXCEPT ![x] = c]
      /\ UNCHANGED << scope, remote, files, backup, draft, op, pushes, count, history >>
  BY DEF StartHere
<1>2. x \in Executions /\ count \in Nat
  BY ActorTypes DEF BrowserInv, BrowserTypeOK
<1>3. /\ c \in Copy /\ c.records = << >> /\ c.pending = << >>
      /\ c.rejected = {} /\ c.unregistered = TRUE
  BY StartedIs
<1> HIDE DEF c
<1>4. Waiting(c) = {}
  BY <1>3, CopyTypes, Elements
<1>5. \A y : Ordered(c, y, count')
  BY <1>3, <1>4 DEF Ordered, Follows, Among
<1>6. \A y \in Executions : /\ copies'[y] = copies[y] \/ Ordered(copies'[y], logs'[y], count')
                            /\ SavedCopy(y)' = SavedCopy(y)
  BY <1>1, <1>2, <1>5 DEF BrowserInv, BrowserTypeOK, SavedCopy
<1>7. LogsExtended /\ LogsOrdered'
  BY <1>1, <1>2, LogsStay DEF remote
<1> QED
  BY <1>1, <1>2, <1>6, <1>7, OrderStays

(* A draft has the next number.                                             *)
LEMMA KeepFilesOrders ==
  ASSUME BrowserInv, BrowserInv', OrderInv, NEW a \in actors, NEW d \in scope.drafts,
         KeepFiles(a, d)
  PROVE  OrderInv'
<1> DEFINE e == EventOf(d)
<1>1. /\ draft' = [draft EXCEPT ![a] = e] /\ count' = count + 1
      /\ UNCHANGED << scope, remote, copies, backup, op, pushes, history >>
  BY DEF KeepFiles
<1>2. e.id \in 0..count' /\ count' \in Nat /\ count <= count'
  BY <1>1, NextNumber
<1> HIDE DEF e
<1>3. \A b \in actors : draft'[b] \in {draft[b], None} \/ draft'[b].id \in 0..count'
  BY <1>1, <1>2, DraftsTyped
<1>4. \A y \in Executions : copies'[y] = copies[y] /\ SavedCopy(y)' = SavedCopy(y)
  BY <1>1 DEF SavedCopy
<1>5. LogsExtended /\ LogsOrdered'
  BY <1>1, <1>2, LogsStay DEF remote
<1> QED
  BY <1>1, <1>2, <1>3, <1>4, <1>5, OrderStays

(* A push that goes on has the same events.                                 *)
LEMMA PushedOrders ==
  ASSUME BrowserInv, BrowserInv', OrderInv, NEW r \in pushes, NEW s, Becomes(r, s),
         s.events = r.events, UNCHANGED << scope, device, draft, op, count >>,
         LogsExtended, LogsOrdered'
  PROVE  OrderInv'
<1>1. \A p \in pushes' : \E q \in pushes : p.events = q.events
  BY DEF Becomes
<1>2. \A y \in Executions : copies'[y] = copies[y] /\ SavedCopy(y)' = SavedCopy(y)
  BY DEF SavedCopy, device
<1>3. count <= count'
  BY DEF BrowserInv, BrowserTypeOK
<1> QED
  BY <1>1, <1>2, <1>3, OrderStays

(* push_event records only what the log doesn't have.                       *)
LEMMA ServerOrders ==
  ASSUME BrowserInv, BrowserInv', OrderInv, NEW r \in pushes, PushEvent(r) \/ KeepConflict(r)
  PROVE  OrderInv'
<1> DEFINE e == r.events[r.done + 1]
           x == r.exec
<1>1. /\ r \in Pushed /\ x \in Executions /\ r.events \in Seq(Event)
      /\ r.done \in 0..Len(r.events) /\ r.refused \subseteq ToSet(r.events)
      /\ logs[x] \in Seq(Event) /\ logs[x] # None
      /\ ToSet(r.events) \subseteq Event
  BY PushIs, Elements
<1>2. count \in Nat
  BY DEF BrowserInv, BrowserTypeOK
<1>3. Handled(r).events = r.events
  BY <1>1, HandledIs
<1>4. ASSUME NEW s, Becomes(r, s), s.events = r.events, logs' = logs,
             UNCHANGED << scope, device, draft, op, count >>
      PROVE  OrderInv'
  BY <1>2, <1>4, LogsStay, PushedOrders
<1>5. CASE KeepConflict(r)
  <2>1. /\ Becomes(r, Handled(r)) /\ logs' = logs
        /\ UNCHANGED << scope, device, draft, op, count >>
    BY <1>5 DEF KeepConflict
  <2> QED
    BY <1>3, <1>4, <2>1
<1>6. CASE PushEvent(r)
  <2>1. r.done < Len(r.events) /\ UNCHANGED << scope, device, draft, op, count >>
    BY <1>6 DEF PushEvent
  <2>2. e \in ToSet(r.events) /\ e \in Event
    BY <1>1, <2>1 DEF ToSet
  <2>3. CASE Becomes(r, Handled(r)) /\ logs' = logs
    BY <1>3, <1>4, <2>1, <2>3
  <2>4. CASE Becomes(r, [Handled(r) EXCEPT !.refused = @ \cup {e}]) /\ logs' = logs
    <3> DEFINE R == r.refused \cup {e}
               s == [Handled(r) EXCEPT !.refused = R]
    <3>1. R \in SUBSET Event
      BY <1>1, <2>2
    <3>2. Handled(r) \in Pushed /\ Handled(r).refused = r.refused
      BY <1>1, HandledIs
    <3>3. Becomes(r, s)
      BY <2>4, <3>2
    <3> HIDE DEF R
    <3>4. s.events = r.events
      BY <1>3, <3>2 DEF Pushed
    <3> HIDE DEF s
    <3> QED
      BY <1>4, <2>1, <2>4, <3>3, <3>4
  <2>5. CASE Becomes(r, [r EXCEPT !.keep = TRUE]) /\ logs' = logs
    <3> DEFINE s == [r EXCEPT !.keep = TRUE]
    <3>1. Becomes(r, s) /\ s.events = r.events
      BY <1>1, <2>5 DEF Pushed
    <3> HIDE DEF s
    <3> QED
      BY <1>4, <2>1, <2>5, <3>1
  <2>6. CASE /\ e \notin conflicts[x] \cup ToSet(logs[x])
             /\ logs' = [logs EXCEPT ![x] = Append(@, e)] /\ Becomes(r, Handled(r))
    <3>1. e.id \in 0..count' /\ count' \in Nat /\ count <= count'
      BY <1>2, <2>1, <2>2 DEF OrderInv, PushesOrdered, Among
    <3>2. logs' = [logs EXCEPT ![x] = Append(logs[x], e)] /\ e \notin ToSet(logs[x])
      BY <2>6
    <3> HIDE DEF e, x
    <3>3. LogsExtended /\ LogsOrdered'
      BY <1>1, <2>2, <3>1, <3>2, LogGains
    <3> QED
      BY <1>3, <2>1, <2>6, <3>3, PushedOrders
  <2> QED
    BY <1>6, <2>3, <2>4, <2>5, <2>6 DEF PushEvent
<1> QED
  BY <1>5, <1>6

(* A backup holds copies of the device, which then may lose its own.        *)
LEMMA StorageOrders ==
  ASSUME BrowserInv, BrowserInv', OrderInv, Backup \/ Wipe
  PROVE  OrderInv'
<1>1. UNCHANGED << scope, remote, draft, op, pushes, count >>
  BY DEF Backup, Wipe
<1>2. count \in Nat
  BY DEF BrowserInv, BrowserTypeOK
<1>3. logs' = logs /\ LogsExtended /\ LogsOrdered'
  BY <1>1, <1>2, LogsStay DEF remote
<1>4. ASSUME NEW x \in Executions
      PROVE  /\ copies'[x] = copies[x] \/ Ordered(copies'[x], logs'[x], count')
             /\ SavedCopy(x)' = SavedCopy(x) \/ Ordered(SavedCopy(x)', logs'[x], count')
  <2>1. copies'[x] \in {copies[x], None}
    BY DEF Backup, Wipe
  <2>2. SavedCopy(x)' \in {SavedCopy(x), copies[x], None}
    <3> DEFINE C == [y \in Executions |-> IF Waiting(copies[y]) = {} THEN None ELSE copies[y]]
    <3>1. CASE Backup
      <4>1. backup' = [copies |-> C, files |-> files \cap FilesOf(OnDevice)]
        BY <3>1 DEF Backup
      <4>2. C[x] \in {copies[x], None}
        OBVIOUS
      <4> HIDE DEF C
      <4> QED
        BY <4>1, <4>2 DEF SavedCopy
    <3>2. CASE Wipe
      BY <3>2 DEF Wipe, SavedCopy
    <3> QED
      BY <3>1, <3>2
  <2>3. Ordered(copies[x], logs'[x], count') /\ Ordered(None, logs'[x], count')
    BY <1>1, <1>3, NoneOrdered DEF OrderInv, CopiesOrdered
  <2> QED
    BY <2>1, <2>2, <2>3
<1> QED
  BY <1>1, <1>2, <1>3, <1>4, OrderStays

(* It holds at first.                                                       *)
LEMMA OrderInvInit ==
  BrowserInit => OrderInv
<1> SUFFICES ASSUME BrowserInit
             PROVE  OrderInv
  OBVIOUS
<1> USE DEF BrowserInit
<1>1. LogsOrdered /\ PushesOrdered
  BY DEF LogsOrdered, PushesOrdered
<1>2. CopiesOrdered
  BY NoneOrdered DEF CopiesOrdered, SavedCopy
<1>3. OperationsOrdered
  BY IdleIs, NoneOrdered DEF OperationsOrdered
<1> QED
  BY <1>1, <1>2, <1>3 DEF OrderInv

(* Every step keeps it.                                                     *)
LEMMA OrderInvStep ==
  BrowserInv /\ BrowserInv' /\ OrderInv /\ [BrowserNext]_browserVars => OrderInv'
<1> SUFFICES ASSUME BrowserInv, BrowserInv', OrderInv, [BrowserNext]_browserVars
             PROVE  OrderInv'
  OBVIOUS
<1>1. CASE UNCHANGED browserVars
  BY <1>1 DEF browserVars, OrderInv, LogsOrdered, CopiesOrdered, OperationsOrdered,
              PushesOrdered, SavedCopy, actors, Exec
<1>2. ASSUME NEW a \in actors, ActorStep(a)
      PROVE  OrderInv'
  <2>1. CASE Record(a) \/ Sync(a) \/ OpenExecution(a)
    BY <2>1, LoadingOrders
  <2>2. CASE Fetch(a) \/ Decide(a) \/ Reread(a) \/ Pull(a)
    BY <2>2, FetchOrders, DecideOrders, RereadOrders, PullOrders
  <2>3. CASE Upload(a) \/ Forget(a)
    BY <2>3, ContentOrders
  <2>4. CASE Restore(a) \/ Register(a) \/ Push(a) \/ Save(a) \/ StartHere(a)
    BY <2>4, RestoreOrders, RegisterOrders, PushOrders, SaveOrders, StartHereOrders
  <2>5. CASE \E r \in pushes : Answer(a, r)
    BY <2>5, AnswerOrders
  <2>6. CASE \E d \in scope.drafts : KeepFiles(a, d)
    BY <2>6, KeepFilesOrders
  <2>7. CASE Drop(a)
    BY <2>7, EndingOrders
  <2> QED
    BY <1>2, <2>1, <2>2, <2>3, <2>4, <2>5, <2>6, <2>7 DEF ActorStep, SyncStep
<1>3. CASE ServerStep
  BY <1>3, ServerOrders DEF ServerStep
<1>4. CASE \E x \in Executions : StartElsewhere(x) \/ \E d \in scope.drafts : RecordElsewhere(x, d)
  BY <1>4, ElsewhereOrders
<1>5. CASE (\E t \in Tabs : CloseTab(t)) \/ (\E r \in pushes : FailPush(r))
  BY <1>5, EndingOrders
<1>6. CASE Backup \/ Wipe
  BY <1>6, StorageOrders
<1> QED
  BY <1>1, <1>2, <1>3, <1>4, <1>5, <1>6 DEF BrowserNext

(* Logs, copies, backups, operations and pushes stay in order.              *)
THEOREM BrowserStaysOrdered == BrowserSpec => []OrderInv
BY OrderInvInit, OrderInvStep, BrowserStaysSound, PTL DEF BrowserSpec

(* CopyIsBeginning: pull_events answers with what follows what is held.     *)
THEOREM CopyAlwaysBegins == BrowserSpec => []CopyIsBeginning
<1>1. OrderInv => CopyIsBeginning
  BY DEF OrderInv, CopiesOrdered, Ordered, CopyIsBeginning
<1> QED
  BY <1>1, BrowserStaysOrdered, PTL

(* NothingRecordedTwice: push_event leaves what is recorded already.        *)
THEOREM NothingEverTwice == BrowserSpec => []NothingRecordedTwice
<1>1. OrderInv => NothingRecordedTwice
  BY DEF OrderInv, LogsOrdered, NothingRecordedTwice
<1> QED
  BY <1>1, BrowserStaysOrdered, PTL
=============================================================================
