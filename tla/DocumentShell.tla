---------------------------- MODULE DocumentShell ----------------------------
(***************************************************************************)
(* The pages of a desktop: which there are, in which tree and in which      *)
(* trash, with every error and every other desktop (PageTree), and how they *)
(* are shown and put in order (DocumentTree).  The second looks at numbers  *)
(* and rows the first leaves out, and the first at workspaces, trash and    *)
(* locks the second leaves out.  They are followed one at a time: either    *)
(* next to a tree shown that is empty, or to a repository as it begins.     *)
(***************************************************************************)
EXTENDS PageTree, DocumentTree

ShellInit == Init /\ TreeInit

TreeIdle == listed = NothingListed /\ seen = listed /\ menu = NoMenu /\ treeSteps = 0
PagesIdle == Init

ShellNext ==
  \/ TreeIdle /\ Next /\ UNCHANGED treeVars
  \/ PagesIdle /\ TreeNext /\ UNCHANGED vars
ShellSpec == ShellInit /\ [][ShellNext]_<<vars, treeVars>>
=============================================================================
