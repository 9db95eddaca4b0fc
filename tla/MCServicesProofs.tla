-------------------------- MODULE MCServicesProofs --------------------------
(***************************************************************************)
(* MCServices as a whole, for every value of the constants: each part takes *)
(* its own steps and leaves the others alone, so every part keeps its       *)
(* invariant whichever is looked at.                                        *)
(***************************************************************************)
EXTENDS MCServices, BrowserProofs, ServicesProofs, TextProofs

ServicesInv ==
  /\ BrowserInv
  /\ TemplatesInv
  /\ TextInv
  /\ LiveInv
  /\ AccessInv
  /\ AttachmentsInv
  /\ BundleInv

(* A step of the instance is a step or a stutter of every part.             *)
LEMMA StepOfEveryPart ==
  ASSUME [Next]_vars
  PROVE  /\ [BrowserNext]_browserVars
         /\ [TemplatesNext]_templateVars
         /\ [TextNext]_textVars
         /\ [LiveNext]_liveVars
         /\ [AccessNext]_accessVars
         /\ [AttachmentsNext]_attachmentVars
         /\ [BundleNext]_bundleVars
<1>1. CASE UNCHANGED vars
  BY <1>1 DEF vars
<1>2. CASE Next
  BY <1>2 DEF Next, AccessNext
<1> QED
  BY <1>1, <1>2

(* Every part begins and goes on with its invariant.                        *)
LEMMA ServicesInvInit == Init => ServicesInv
BY BrowserInvInit, TemplatesInvInit, TextInvInit, LiveInvInit, AccessInvInit,
   AttachmentsInvInit, BundleInvInit DEF Init, ServicesInv

LEMMA ServicesInvStep == ServicesInv /\ [Next]_vars => ServicesInv'
<1> SUFFICES ASSUME ServicesInv, [Next]_vars
             PROVE  ServicesInv'
  OBVIOUS
<1>1. /\ BrowserInv /\ TemplatesInv /\ TextInv /\ LiveInv /\ AccessInv
      /\ AttachmentsInv /\ BundleInv
  BY DEF ServicesInv
<1>2. BrowserInv' /\ TemplatesInv' /\ TextInv' /\ LiveInv'
  BY <1>1, StepOfEveryPart, BrowserInvStep, TemplatesInvStep, TextInvStep, LiveInvStep
<1>3. AccessInv' /\ AttachmentsInv' /\ BundleInv'
  BY <1>1, StepOfEveryPart, AccessInvStep, AttachmentsInvStep, BundleInvStep
<1> QED
  BY <1>2, <1>3 DEF ServicesInv

(* Whatever is looked at has its type, for any number of tabs, executions,  *)
(* templates, blocks, sessions, tokens, files and bundles.                  *)
THEOREM ServicesTypeCorrect == Spec => []TypeOK
<1>1. ServicesInv => TypeOK
  BY TemplatesInvTypes
  DEF ServicesInv, TypeOK, BrowserInv, TextInv, LiveInv, AccessInv, AttachmentsInv, BundleInv
<1> QED
  BY <1>1, ServicesInvInit, ServicesInvStep, PTL DEF Spec
=============================================================================
