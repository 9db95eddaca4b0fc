---------------------------- MODULE MCDropPoint ----------------------------
(***************************************************************************)
(* A small instance of DropPoint for TLC: an execution of one step with one *)
(* attachment input, two sessions one after the other, and a phone that     *)
(* drops a readable submission and one that cannot be decrypted.            *)
(***************************************************************************)
EXTENDS DropPoint

CONSTANTS step, input, d1, d2, u1, u2

Content == [boxes |-> {}, ticked |-> {}, scalar |-> {}, attach |-> {input}]

MCContents == {Content}

MCBegun == CHOOSE s \in StepAdded([New EXCEPT !.status = "Active"], step, Content, None) : TRUE
=============================================================================
