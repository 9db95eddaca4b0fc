---------------------------- MODULE ReplicatedLog ----------------------------
(***************************************************************************)
(* What syncing promises, without outboxes, requests or crashes: one log    *)
(* that grows by one event at a time and holds an event once, and copies of *)
(* it that only ever show a beginning of it, and never less than before.    *)
(***************************************************************************)
EXTENDS Naturals, Sequences

CONSTANTS EventIds, Devices

VARIABLES
  log,    \* the server's log
  copy    \* each device's copy of it

vars == << log, copy >>

Init ==
  /\ log = << >>
  /\ copy = [d \in Devices |-> << >>]

Record(e) ==
  /\ \A k \in DOMAIN log : log[k] # e
  /\ log' = Append(log, e)
  /\ UNCHANGED copy

Advance(d, upto) ==
  /\ upto > Len(copy[d])
  /\ copy' = [copy EXCEPT ![d] = SubSeq(log, 1, upto)]
  /\ UNCHANGED log

Next ==
  \/ \E e \in EventIds : Record(e)
  \/ \E d \in Devices : \E upto \in 1..Len(log) : Advance(d, upto)

Spec == Init /\ [][Next]_vars
=============================================================================
