---------------------------- MODULE ProjectBoard ----------------------------
(***************************************************************************)
(* A project board page: the native widget with its Gantt, Kanban and      *)
(* table tabs (src/src/gui/project_board).  Each tab keeps a copy of the   *)
(* board in a form of its own; an edit in one of them is broadcast to the  *)
(* other two, and what the Gantt tab then holds is saved to the page       *)
(* (Page::HandleProjectBoardEdited).  The widget has one thread: an edit   *)
(* and its broadcast are one step.                                         *)
(*                                                                         *)
(* A task is its schedule in days, its kind, its parent and its column;    *)
(* texts, tags, priorities, progress and the order of tasks are left out.  *)
(* While a tab is loaded its own signals are ignored (loading_).           *)
(***************************************************************************)
EXTENDS Integers, FiniteSets, FiniteSetsExt

CONSTANTS
  Tasks,    \* task ids, those of tasks yet to be created included
  Columns,  \* ids of status columns
  Days,     \* days a task may start or end on
  Today,    \* the day on which a task without a start is first shown
  Boards,   \* boards the page may be opened with
  Plans,    \* boards that are opened and not edited
  None,     \* no parent, no date
  Closed,   \* the page shown is not a board
  MaxEdits  \* bound on edits

ASSUME ProjectBoardAssumption ==
  /\ IsFiniteSet(Tasks) /\ None \notin Tasks /\ None \notin Int
  /\ Days \subseteq Int /\ Today \in Days /\ MaxEdits \in Nat

VARIABLES
  page,    \* the content of the page in the repository, or Closed
  gantt,   \* ProjectBoardGanttModel: rows, constraints, critical tasks
  kanban,  \* KanbanBoardModel::document_
  table,   \* ProjectTaskTableWidget: tasks, columns and links
  links,   \* links_ of ProjectBoardNativeWidget
  highlight, \* critical_path_enabled_
  edits    \* edits so far

boardVars == <<page, gantt, kanban, table, links, highlight, edits>>

-----------------------------------------------------------------------------
(* What a board is made of.                                                 *)

\* The schedule of a task may lack its dates; a type left out is "none".
KanbanTask ==
  [start : Int \cup {None}, end : Int \cup {None}, duration : Int,
   type : {"none", "task", "summary", "milestone"},
   parent : Tasks \cup {None}, column : Columns \cup {None}]

LinkTypes == {"e2s", "s2s", "e2e", "s2e"}
Link == [source : Tasks, target : Tasks, type : LinkTypes, lag : Int]

-----------------------------------------------------------------------------
(* The critical path.                                                       *)

\* Mutant: start-to-finish links are read as finish-to-finish.
Required_WrongEnd(e, start, length, duration) ==
  e.lag +
    CASE e.type = "e2s" -> start + length
      [] e.type = "s2s" -> start
      [] e.type \in {"e2e", "s2e"} -> start + length - duration

\* A link bounds the start of its target below: start and length are those of
\* the link's source, duration that of its target.
Required(e, start, length, duration) ==
  e.lag +
    CASE e.type = "e2s" -> start + length
      [] e.type = "s2s" -> start
      [] e.type = "e2e" -> start + length - duration
      [] e.type = "s2e" -> start - duration

\* And the end of its source above: end and length are the latest end and the
\* duration of the target, duration is that of the source.
Allowed(e, end, length, duration) ==
  CASE e.type = "e2s" -> end - length - e.lag
    [] e.type = "s2s" -> end - length - e.lag + duration
    [] e.type = "e2e" -> end - e.lag
    [] e.type = "s2e" -> end - e.lag + duration

\* Kahn's algorithm: the tasks it has put out after n rounds.
TopoOrder(ids, edges) ==
  LET out[n \in 0..Cardinality(ids)] ==
        IF n = 0 THEN {}
        ELSE LET before == out[n - 1]
             IN {t \in ids : \A e \in edges : e.target = t => e.source \in before}
  IN out[Cardinality(ids)]

EarliestStart(b, edges, delay) ==
  LET d(t) == b.tasks[t].duration
      es[t \in DOMAIN b.tasks] ==
        Max({0} \cup {Required(e, es[e.source], d(e.source), d(t)) :
                        e \in {f \in edges : f.target = t}}) + delay[t]
  IN es

ProjectEnd(b, es) == Max({0} \cup {es[t] + b.tasks[t].duration : t \in DOMAIN b.tasks})

LatestFinish(b, edges, end) ==
  LET d(t) == b.tasks[t].duration
      lf[t \in DOMAIN b.tasks] ==
        Min({end} \cup {Allowed(e, lf[e.target], d(e.target), d(t)) :
                          e \in {f \in edges : f.source = t}})
  IN lf

NoDelay(b) == [t \in DOMAIN b.tasks |-> 0]
Edges(b) == {e \in b.links : e.source # e.target /\ {e.source, e.target} \subseteq DOMAIN b.tasks}

\* The tasks without slack; none when the links have a cycle.
ComputeCriticalPath(b) ==
  IF TopoOrder(DOMAIN b.tasks, Edges(b)) # DOMAIN b.tasks THEN {}
  ELSE LET es == EarliestStart(b, Edges(b), NoDelay(b))
           lf == LatestFinish(b, Edges(b), ProjectEnd(b, es))
       IN {t \in DOMAIN b.tasks : lf[t] - b.tasks[t].duration = es[t]}

-----------------------------------------------------------------------------
(* The Gantt tab.                                                           *)

\* The tasks that end up below the invisible root: a task whose parents form a
\* cycle is appended to a row that is never attached.
Rooted(ts) ==
  LET row[n \in 0..Cardinality(DOMAIN ts)] ==
        LET above == IF n = 0 THEN {} ELSE row[n - 1]
        IN {t \in DOMAIN ts : ts[t].parent \in above \/ ts[t].parent \notin DOMAIN ts}
  IN row[Cardinality(DOMAIN ts)]

Start(t) == IF t.start = None THEN Today ELSE t.start
End(t) == IF t.end = None THEN Start(t) + Max({1, t.duration}) ELSE t.end

\* Items without a type are tasks.
ItemType(t) == IF t.type \in {"summary", "milestone"} THEN t.type ELSE "task"

\* DurationInDays never answers less than a day, for a milestone neither.
DurationInDays(s, e) == Max({1, e - s})

\* ProjectBoardGanttModel::LoadFromJson.
GanttRows(b) ==
  [t \in Rooted(b.tasks) |->
     [start |-> Start(b.tasks[t]), end |-> End(b.tasks[t]), type |-> ItemType(b.tasks[t]),
      parent |-> IF b.tasks[t].parent \in DOMAIN b.tasks THEN b.tasks[t].parent ELSE None,
      column |-> b.tasks[t].column]]

GanttLinks(b) == {l \in b.links : {l.source, l.target} \subseteq Rooted(b.tasks)}

\* ProjectBoardGanttModel::ToJson.
GanttJson(g) ==
  [tasks |-> [t \in DOMAIN g.rows |->
                [start |-> g.rows[t].start, end |-> g.rows[t].end,
                 duration |-> DurationInDays(g.rows[t].start, g.rows[t].end),
                 type |-> g.rows[t].type, parent |-> g.rows[t].parent,
                 column |-> g.rows[t].column]],
   columns |-> g.columns,
   links |-> g.links]

\* LoadFromJson, EmitDataChanged and HandleCriticalPathToggled of the widget
\* compute the critical tasks again, if they are shown.
SetCriticalPathTaskIds(g, shown) ==
  [g EXCEPT !.critical = IF shown THEN ComputeCriticalPath(GanttJson(g)) ELSE {}]

GanttLoadFromJson(b) ==
  SetCriticalPathTaskIds(
    [rows |-> GanttRows(b), columns |-> b.columns, links |-> GanttLinks(b), critical |-> {}],
    highlight)

-----------------------------------------------------------------------------
(* The Kanban tab.                                                          *)

KanbanDocument(b) == [tasks |-> b.tasks, columns |-> b.columns]

IsEpic(t) == t.type = "summary"
Epics(k) == {t \in DOMAIN k.tasks : IsEpic(k.tasks[t])}

\* Mutant: an epic is a card as well.
Cards_Epics(k) == {t \in DOMAIN k.tasks : k.tasks[t].column \in k.columns}

\* rows(): epics head a swimlane, only the others are cards that can be dragged
\* and opened, and only in a column of the board.
Cards(k) == {t \in DOMAIN k.tasks : ~IsEpic(k.tasks[t]) /\ k.tasks[t].column \in k.columns}

\* lane is an epic, or None for the lane "No epic".
moveCard(k, t, column, lane) ==
  [k EXCEPT !.tasks[t].column = column, !.tasks[t].parent = lane]

addColumn(k, c) == [k EXCEPT !.columns = @ \cup {c}]

Type(epic) == IF epic THEN "summary" ELSE "none"

\* A task added here has no end and no parent.
addTask(k, t, form) ==
  [k EXCEPT !.tasks =
     [u \in DOMAIN @ \cup {t} |->
        IF u # t THEN @[u]
        ELSE [start |-> form.start, end |-> None, duration |-> form.duration,
              type |-> Type(form.epic), parent |-> None, column |-> form.column]]]

\* Parent and end keep the value they had.
updateTask(k, t, form) ==
  [k EXCEPT !.tasks[t] =
     [@ EXCEPT !.start = form.start, !.duration = form.duration,
               !.type = Type(form.epic), !.column = form.column]]

\* What the task dialog may answer: it offers the board's columns only, and
\* always has a start and a duration of at least a day.
Forms(k) ==
  [start : Days, duration : 1..2, epic : BOOLEAN,
   column : IF k.columns = {} THEN {None} ELSE k.columns]

-----------------------------------------------------------------------------
(* The table tab carries the links through.                                 *)

TableDocument(b) == [tasks |-> b.tasks, columns |-> b.columns, links |-> b.links]

-----------------------------------------------------------------------------
(* The boards a page may hold.                                              *)

\* Every task is a row of the Gantt tab, and lies below an epic or below none:
\* the tabs put a task nowhere else.  A link joins two tasks.
WellFormed(b) ==
  /\ DOMAIN b.tasks \subseteq Tasks /\ b.tasks \in [DOMAIN b.tasks -> KanbanTask]
  /\ b.columns \subseteq Columns
  /\ b.links \subseteq Link /\ IsFiniteSet(b.links)
  /\ \A t \in DOMAIN b.tasks : b.tasks[t].parent \in Epics(b) \cup {None}
  /\ Rooted(b.tasks) = DOMAIN b.tasks
  /\ \A l \in b.links : {l.source, l.target} \subseteq DOMAIN b.tasks

ASSUME BoardsAssumption == \A b \in Boards \cup Plans : WellFormed(b)

-----------------------------------------------------------------------------
(* The widget: which tab's edit is broadcast to which others.               *)

\* ProjectBoardNativeWidget::LoadFromJson.
LoadFromJson(b) ==
  /\ links' = b.links
  /\ gantt' = GanttLoadFromJson(b)
  /\ kanban' = KanbanDocument(b)
  /\ table' = TableDocument(b)

\* Page::HandleProjectBoardEdited: the bridge may refuse or fail to save.
HandleProjectBoardEdited ==
  /\ edits' = edits + 1
  /\ page' \in {page, GanttJson(gantt')}

HandleGanttEdited(g) ==
  LET shown == SetCriticalPathTaskIds(g, highlight)
      board == GanttJson(shown)
  IN /\ gantt' = shown
     /\ links' = board.links
     /\ kanban' = KanbanDocument(board)
     /\ table' = TableDocument(board)
     /\ HandleProjectBoardEdited

\* Mutant: they are forgotten.
KanbanBoard_NoLinks(k) == [tasks |-> k.tasks, columns |-> k.columns, links |-> {}]

\* Kanban knows no links: the widget puts its own back.
KanbanBoard(k) == [tasks |-> k.tasks, columns |-> k.columns, links |-> links]

HandleKanbanEdited(k) ==
  LET board == KanbanBoard(k)
  IN /\ kanban' = k
     /\ gantt' = GanttLoadFromJson(board)
     /\ table' = TableDocument(board)
     /\ HandleProjectBoardEdited /\ UNCHANGED links

HandleTableEdited(d) ==
  /\ table' = d
  /\ links' = d.links
  /\ gantt' = GanttLoadFromJson(d)
  /\ kanban' = KanbanDocument(d)
  /\ HandleProjectBoardEdited

-----------------------------------------------------------------------------
(* What the user does.                                                      *)

Open == page # Closed
Editing == Open /\ edits < MaxEdits

\* documentLoaded for a board: another page is opened, or this one was changed
\* by another desktop and is shown again.
OpenBoard(b, spent) ==
  /\ page' = b /\ LoadFromJson(b) /\ edits' = spent
  /\ UNCHANGED highlight

\* KDGantt's own mouse handling.
DragBar(t, s, e) ==
  /\ Editing /\ s < e /\ <<s, e>> # <<gantt.rows[t].start, gantt.rows[t].end>>
  /\ \/ e - s = gantt.rows[t].end - gantt.rows[t].start
     \/ s = gantt.rows[t].start \/ e = gantt.rows[t].end
  /\ HandleGanttEdited([gantt EXCEPT !.rows[t].start = s, !.rows[t].end = e])
  /\ UNCHANGED highlight

AddLink(s, t, type) ==
  /\ Editing /\ s # t /\ \A l \in gantt.links : <<l.source, l.target>> # <<s, t>>
  /\ HandleGanttEdited(
       [gantt EXCEPT !.links = @ \cup {[source |-> s, target |-> t, type |-> type, lag |-> 0]}])
  /\ UNCHANGED highlight

RemoveLink(l) ==
  /\ Editing /\ HandleGanttEdited([gantt EXCEPT !.links = @ \ {l}])
  /\ UNCHANGED highlight

HandleCriticalPathToggled ==
  /\ Open /\ highlight' = ~highlight
  /\ gantt' = SetCriticalPathTaskIds(gantt, ~highlight)
  /\ UNCHANGED <<page, kanban, table, links, edits>>

MoveCard(t, column, lane) ==
  /\ Editing /\ HandleKanbanEdited(moveCard(kanban, t, column, lane))
  /\ UNCHANGED highlight

AddColumn(c) ==
  /\ Editing /\ HandleKanbanEdited(addColumn(kanban, c))
  /\ UNCHANGED highlight

AddTask(t, form) ==
  /\ Editing /\ HandleKanbanEdited(addTask(kanban, t, form))
  /\ UNCHANGED highlight

EditTask(t, form) ==
  /\ Editing /\ HandleKanbanEdited(updateTask(kanban, t, form))
  /\ UNCHANGED highlight

\* ProjectTaskTableModel::setData.
SetStatus(t, column) ==
  /\ Editing /\ HandleTableEdited([table EXCEPT !.tasks[t].column = column])
  /\ UNCHANGED highlight

SetStart(t, s) ==
  /\ Editing /\ HandleTableEdited([table EXCEPT !.tasks[t].start = s])
  /\ UNCHANGED highlight

SetDuration(t, d) ==
  /\ Editing /\ HandleTableEdited([table EXCEPT !.tasks[t].duration = d])
  /\ UNCHANGED highlight

GanttEdit ==
  \/ \E t \in DOMAIN gantt.rows, s, e \in Days : DragBar(t, s, e)
  \/ \E s, t \in DOMAIN gantt.rows, type \in LinkTypes : AddLink(s, t, type)
  \/ \E l \in gantt.links : RemoveLink(l)

KanbanEdit ==
  \/ \E t \in Cards(kanban), c \in kanban.columns, lane \in Epics(kanban) \cup {None} :
       MoveCard(t, c, lane)
  \/ \E c \in Columns \ kanban.columns : AddColumn(c)
  \/ \E t \in Tasks \ DOMAIN kanban.tasks, form \in Forms(kanban) : AddTask(t, form)
  \/ \E t \in Cards(kanban), form \in Forms(kanban) : EditTask(t, form)

TableEdit ==
  \E t \in DOMAIN table.tasks :
    \/ \E c \in table.columns : SetStatus(t, c)
    \/ \E s \in Days : SetStart(t, s)
    \/ \E d \in 0..2 : SetDuration(t, d)

NoTabs ==
  /\ page = Closed /\ links = {} /\ highlight = FALSE /\ edits = 0
  /\ gantt = [rows |-> <<>>, columns |-> {}, links |-> {}, critical |-> {}]
  /\ kanban = [tasks |-> <<>>, columns |-> {}]
  /\ table = [tasks |-> <<>>, columns |-> {}, links |-> {}]

BoardNext ==
  \/ \E b \in Boards : OpenBoard(b, 0)
  \/ \E b \in (IF page = Closed THEN Plans ELSE {}) : OpenBoard(b, MaxEdits)
  \/ GanttEdit
  \/ KanbanEdit
  \/ TableEdit
  \/ HandleCriticalPathToggled

BoardSpec == NoTabs /\ [][BoardNext]_boardVars

-----------------------------------------------------------------------------
(* Properties.                                                              *)

\* The tabs keep well-formed boards, and the Gantt tab the rows they make.
BoardTypeOK ==
  /\ WellFormed(KanbanBoard(kanban)) /\ WellFormed(table)
  /\ gantt.rows = GanttRows(KanbanBoard(kanban)) /\ gantt.rows = GanttRows(table)
  /\ gantt.links = links /\ table.links = links
  /\ gantt.columns = kanban.columns /\ table.columns = kanban.columns
  /\ gantt.critical \subseteq DOMAIN gantt.rows
  /\ highlight \in BOOLEAN /\ edits \in 0..MaxEdits

\* All tabs show the same tasks, with the same kinds, parents and columns, and
\* the same links.
TabsAgree ==
  /\ DOMAIN gantt.rows = DOMAIN kanban.tasks /\ DOMAIN table.tasks = DOMAIN kanban.tasks
  /\ gantt.columns = kanban.columns /\ table.columns = kanban.columns
  /\ gantt.links = links /\ table.links = links
  /\ \A t \in DOMAIN kanban.tasks :
       /\ gantt.rows[t].type = ItemType(kanban.tasks[t])
       /\ ItemType(table.tasks[t]) = ItemType(kanban.tasks[t])
       /\ gantt.rows[t].parent = kanban.tasks[t].parent
       /\ table.tasks[t].parent = kanban.tasks[t].parent
       /\ gantt.rows[t].column = kanban.tasks[t].column
       /\ table.tasks[t].column = kanban.tasks[t].column

\* "whichever tab the user edits becomes the source of truth for that edit and
\* is immediately re-broadcast to the other two so they stay in sync" (the
\* widget's header): an edit, however it is converted on its way, changes one
\* task or one link, leaves every other one as it was, and shows in all tabs.
\* The Gantt tab, which is what gets saved, drops a task whose parents form a
\* cycle; no sequence of edits of a well-formed board makes one.
OneEditEverywhere ==
  [][/\ TabsAgree'
     /\ Open /\ edits' = edits + 1 =>
          LET changed == {t \in DOMAIN gantt.rows :
                            t \notin DOMAIN gantt'.rows \/ gantt'.rows[t] # gantt.rows[t]}
              relinked == (gantt.links \ gantt'.links) \cup (gantt'.links \ gantt.links)
          IN Cardinality(changed) + Cardinality(relinked) <= 1]_boardVars

\* "Task ids with zero slack/float -- the chain that determines the project's
\* overall duration. Delaying any of them delays the whole project" (the header
\* of the critical path): whatever tab was edited, the highlighted tasks are
\* those whose delay by a day makes the project end later, for all four kinds of
\* links and any lag, and none when the links have a cycle.
Cyclic(b) ==
  \E S \in (SUBSET DOMAIN b.tasks) \ {{}} :
    \A t \in S : \E e \in Edges(b) : e.target = t /\ e.source \in S

Delays(b, t) ==
  LET end(d) == ProjectEnd(b, EarliestStart(b, Edges(b), d))
  IN end([NoDelay(b) EXCEPT ![t] = 1]) > end(NoDelay(b))

CriticalIsTight ==
  highlight =>
    LET board == GanttJson(gantt)
    IN gantt.critical = IF Cyclic(board) THEN {} ELSE {t \in DOMAIN board.tasks : Delays(board, t)}
=============================================================================
