------------------------------- MODULE MCSync -------------------------------
(***************************************************************************)
(* Small instances of Sync for TLC.  The execution has one step with one    *)
(* scalar input, recorded by r1 and r2 and cleared by c: any two of them    *)
(* conflict in one order and apply in another.  a and b attach the same     *)
(* file to the step's other input: the second one is a conflict.            *)
(***************************************************************************)
EXTENDS Sync, TLC

CONSTANTS s1, i1, a1, v1, v2, f1, d1, d2, r1, r2, c, a, b

Content == [boxes |-> {}, ticked |-> {}, scalar |-> {i1}, attach |-> {a1}]

MCContents == {Content}

MCStarted == CHOOSE s \in StepAdded([New EXCEPT !.status = "Active"], s1, Content, None) : TRUE

MCWhat ==
  (r1 :> [type |-> "InputRecorded", step |-> s1, input |-> i1, value |-> v1]) @@
  (r2 :> [type |-> "InputRecorded", step |-> s1, input |-> i1, value |-> v2]) @@
  (c  :> [type |-> "InputCleared",  step |-> s1, input |-> i1]) @@
  (a  :> [type |-> "AttachmentsAdded", step |-> s1, input |-> a1, batch |-> << f1 >>]) @@
  (b  :> [type |-> "AttachmentsAdded", step |-> s1, input |-> a1, batch |-> << f1 >>])

(* The devices are alike, and so are r1 and r2: they record different       *)
(* values for the same input, and no state or property looks at the value.  *)
MCSymmetry == Permutations({d1, d2}) \cup Permutations({r1, r2})
=============================================================================
