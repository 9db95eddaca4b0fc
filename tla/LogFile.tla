------------------------------- MODULE LogFile -------------------------------
(***************************************************************************)
(* One of an execution's JSON-lines files, written in place by appending    *)
(* and read back after a write was cut short: events.jsonl (event_log.rs in *)
(* procnote-app, event/log.rs in procnote-core), pending.jsonl and          *)
(* rejected.jsonl (outbox.rs), conflicts.jsonl (conflict_log.rs).           *)
(*                                                                          *)
(* A line is the sequence of pieces written to it: the whole text of a      *)
(* record, a number, or the beginning of one: Torn, or CutChar when it ends *)
(* within a multi-byte character.  A line parses when it is one whole       *)
(* record.  Records are numbered in the order in which they    *)
(* are written.  The lines written when the execution is created are whole  *)
(* (they are written in a directory that is then renamed) and left out.     *)
(***************************************************************************)
EXTENDS Naturals, Sequences

CONSTANTS
  Kinds,       \* which of the files are considered
  Torn, CutChar,
  MaxRecords,  \* bound: records ever written
  MaxBatch,    \* bound: records in one append
  MaxStops     \* bound: writes cut short

AllKinds == {"events", "pending", "rejected", "conflicts"}

ASSUME KindsAssumption  == Kinds \subseteq AllKinds
ASSUME TornAssumption   == Torn \notin Nat /\ CutChar \notin Nat \cup {Torn}
ASSUME BoundsAssumption == MaxRecords \in Nat /\ MaxBatch \in Nat /\ MaxStops \in Nat

VARIABLES
  kind,    \* the file
  lines,   \* what is in it
  open,    \* its last line does not end in a newline
  at,      \* where the writer is
  batch,   \* the records it appends
  done,    \* how many of them are on their line
  next,    \* the next record's number
  acked,   \* history: records whose append was reported as durable
  stops

fileVars == << kind, lines, open, at, batch, done, next, acked, stops >>

-----------------------------------------------------------------------------
(* Reading. *)

Whole(line) == Len(line) = 1 /\ line[1] \notin {Torn, CutChar}

BadLines == {k \in DOMAIN lines : ~ Whole(lines[k])}

(* The bytes are UTF-8 text: `lines()` and read_to_string fail otherwise.   *)
Decodes == \A k \in DOMAIN lines : \A j \in DOMAIN lines[k] : lines[k][j] # CutChar

(* Faulty variants of Readable: no line may be bad; a bad last line is      *)
(* skipped in every file, finished or not.                                  *)
ReadableWithoutBadLines == BadLines = {}
ReadableButForTheLast   == BadLines \subseteq {Len(lines)}

(* Whether the file's reader accepts it.  read_log_records skips a bad last *)
(* line, parse_lines one without its newline, conflict_log::parse none.     *)
Readable ==
  /\ Decodes
  /\ kind = "conflicts" => BadLines = {}
  /\ BadLines \subseteq {Len(lines)}
  /\ kind \in {"pending", "rejected"} /\ BadLines # {} => open

(* The records its reader returns. *)
Read == {lines[k][1] : k \in DOMAIN lines \ BadLines}

-----------------------------------------------------------------------------
(* Appending. *)

FileInit ==
  /\ kind \in Kinds
  /\ lines = << >>
  /\ open = FALSE
  /\ at = "idle"
  /\ batch = << >>
  /\ done = 0
  /\ next = 1
  /\ acked = {}
  /\ stops = 0

(* What is written goes on an unfinished last line. *)
Put(piece) ==
  /\ lines' = IF open THEN [lines EXCEPT ![Len(lines)] = Append(@, piece)]
                      ELSE Append(lines, << piece >>)
  /\ open' = TRUE

(* An append of n records, under the exclusive lock.  append_rejected does  *)
(* not read its file first; the others do and fail when they cannot.  A     *)
(* conflict is appended alone.                                              *)
Begin(n) ==
  /\ at = "idle"
  /\ kind # "rejected" => Readable
  /\ kind = "conflicts" => n = 1
  /\ next + n - 1 <= MaxRecords
  /\ at' = "record"
  /\ batch' = [k \in 1..n |-> next + k - 1]
  /\ done' = 0
  /\ next' = next + n
  /\ UNCHANGED << kind, lines, open, acked, stops >>

WriteRecord ==
  /\ at = "record"
  /\ Put(batch[done + 1])
  /\ at' = "newline"
  /\ UNCHANGED << kind, batch, done, next, acked, stops >>

(* Faulty variant of WriteNewline: the batch is taken to be one longer.     *)
WriteNewlineOnceMore ==
  /\ at = "newline"
  /\ open' = FALSE
  /\ done' = done + 1
  /\ at' = IF done = Len(batch) THEN "sync" ELSE "record"
  /\ UNCHANGED << kind, lines, batch, next, acked, stops >>

WriteNewline ==
  /\ at = "newline"
  /\ open' = FALSE
  /\ done' = done + 1
  /\ at' = IF done + 1 = Len(batch) THEN "sync" ELSE "record"
  /\ UNCHANGED << kind, lines, batch, next, acked, stops >>

(* sync_all returned: the append is reported as durable.                    *)
Sync ==
  /\ at = "sync"
  /\ at' = "idle"
  /\ acked' = acked \cup {batch[k] : k \in DOMAIN batch}
  /\ batch' = << >>
  /\ done' = 0
  /\ UNCHANGED << kind, lines, open, next, stops >>

(* The write stops: the app or the machine does, or the disk is full.  What *)
(* was not synced may be lost from the end: that is a stop further back.    *)
Stop ==
  /\ at # "idle"
  /\ stops < MaxStops
  /\ stops' = stops + 1
  /\ at' = "idle"
  /\ batch' = << >>
  /\ done' = 0
  /\ \/ UNCHANGED << lines, open >>
     \/ at = "record" /\ \E piece \in {Torn, CutChar} : Put(piece)
  /\ UNCHANGED << kind, next, acked >>

FileNext ==
  \/ \E n \in 1..MaxBatch : Begin(n)
  \/ WriteRecord
  \/ WriteNewline
  \/ Sync
  \/ Stop

FileSpec == FileInit /\ [][FileNext]_fileVars

-----------------------------------------------------------------------------
(* Correctness. *)

(* Type invariant, with the writer's place in its batch.                    *)
FileTypeOK ==
  /\ kind \in Kinds
  /\ lines \in Seq(Seq(Nat \cup {Torn, CutChar}))
  /\ open => lines # << >>
  /\ at \in {"idle", "record", "newline", "sync"}
  /\ batch \in Seq(Nat)
  /\ done \in 0..Len(batch)
  /\ at \in {"record", "newline"} => done < Len(batch)
  /\ at = "newline" => open
  /\ next \in Nat \ {0}
  /\ acked \subseteq 1..(next - 1)
  /\ stops \in Nat

(* Something was appended to a line that a stopped write left unfinished.   *)
Glued == \E k \in DOMAIN lines : Len(lines[k]) > 1

(* As long as nothing was appended after a write that was cut short, the    *)
(* file can be read and every record reported as durable is read, wherever  *)
(* between two characters the write stopped.  (conflicts.jsonl promises no  *)
(* such thing.)                                                             *)
StoppedWriteIsHarmless ==
  kind # "conflicts" /\ ~ Glued /\ Decodes => Readable /\ acked \subseteq Read

(* The outbox's files and the conflicts never lose a durable record without *)
(* saying so: whenever they can be read, all of them are read.              *)
NoSilentLoss ==
  kind # "events" /\ Readable => acked \subseteq Read

(* A truncated last line is ignored: nothing else that a single write cut   *)
(* short leaves behind stops the file from being read.                      *)
TruncatedLastLineIsIgnored == ~ Glued => Readable

(* A log that can be read contains all events that were successfully        *)
(* written.                                                                 *)
WrittenEventsAreRead == Readable => acked \subseteq Read
=============================================================================
