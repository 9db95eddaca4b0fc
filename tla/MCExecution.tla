----------------------------- MODULE MCExecution -----------------------------
(***************************************************************************)
(* A small instance of Execution, Report and Page for TLC: a template of    *)
(* one step with a checkbox, a scalar input in a table and one outside it,  *)
(* and an attachment input; a second step that may be added with the same   *)
(* content or with a ticked checkbox only; two files of different content.  *)
(***************************************************************************)
EXTENDS Page

CONSTANTS s1, s2, b1, i1, i2, a1, v1, f1, f2, n1, m1

Full   == [boxes |-> {b1}, ticked |-> {}, scalar |-> {i1, i2}, attach |-> {a1}]
Ticked == [boxes |-> {b1}, ticked |-> {b1}, scalar |-> {}, attach |-> {}]

MCContents  == {Full, Ticked}
MCTemplates == {<< [step |-> s1, content |-> Full] >>}
MCHash      == [f \in {f1, f2} |-> f]
MCBatches   == {<< f1 >>, << f1, f1 >>, << f1, f2 >>}

(* StartedFrom is what the starting events replay to: the state `create`    *)
(* returns is the state its log gives back.                                 *)
ASSUME StartReplays ==
  \A t \in Templates, name \in Names : Replay(StartEvents(t, name)) = {StartedFrom(t, name)}
=============================================================================
