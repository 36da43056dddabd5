----------------------------- MODULE PageContent -----------------------------
(***************************************************************************)
(* What changes the content of a page besides typing: the project board and *)
(* the conflict window of the shell (MainWindow, Page), and the AI          *)
(* suggestions of the web editor.  They share no state, and only one of     *)
(* them is followed at a time.                                              *)
(***************************************************************************)
EXTENDS ProjectBoard, ConflictMerge, AiRelay

contentVars == <<boardVars, mergeVars, aiVars>>

\* What is not followed is at rest; where requests go matters to those only.
NoAi == NoRequests /\ transport = "local" /\ key = "missing"

ContentInit ==
  \/ NoTabs /\ NoAi /\ (NoMerge \/ ConflictRecorded)
  \/ NoTabs /\ NoMerge /\ AiInit

ContentNext ==
  \/ NoAi /\ page = Closed /\ MergeNext /\ UNCHANGED <<boardVars, aiVars>>
  \/ NoAi /\ NoMerge /\ BoardNext /\ UNCHANGED <<mergeVars, aiVars>>
  \/ page = Closed /\ NoMerge /\ AiNext /\ UNCHANGED <<boardVars, mergeVars>>

ContentSpec == ContentInit /\ [][ContentNext]_contentVars
=============================================================================
