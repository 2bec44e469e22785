---------------------------- MODULE ProjectPages ----------------------------
(* Projects: what the window holds, the files it is saved in and the list  *)
(* of recent ones (gui/src/main_window_actions.cpp, project.cpp,           *)
(* project_registry.cpp, project_browser.cpp, welcome_screen.cpp); and the *)
(* comparison of two captures on disk (diff_panel.cpp).                    *)
EXTENDS Session

CONSTANTS
  MaxRecent,  \* entries of ProjectRegistry
  Offers      \* what scanCanIfaces may find: sets of interfaces and serial adapters

\* The interfaces: slcan0 is what a serial adapter that was set up becomes.
Adapters == {"slcan:tty"}
ProjectIfaces == {"vcan0", "can0", "slcan0"} \cup Adapters

\* scanCanIfaces returns vcan0 rather than nothing.
ASSUME RecentAssumption == MaxRecent \in Nat
ASSUME OffersAssumption == \A o \in Offers : o \subseteq ProjectIfaces /\ o # {}

VARIABLES
  project,  \* m_projectPath, the title, the settings in use, the two combos, the files, m_entries
  diff      \* the two paths, what was parsed of them, the boxes, the rows, what they compare

projectVars == <<project, diff>>

----------------------------------------------------------------------------
\* One setting of each kind: filter stands for the filter, the trigger and the aliases, dbc
\* also for the simulator's profile, log for the default log path.  One rate is not in the
\* list of the tool bar.
ProjectPaths == {"p", "q"}
NoProject == "none"
ListedRates == {250, 500}
BitRates == ListedRates \cup {333}
CustomRate == -1
NothingShown == 0
Blank == [filter |-> "all", dbc |-> "none", log |-> "none", iface |-> "vcan0", rate |-> 500]
Compared == {"filter", "dbc", "iface", "rate"}
NoProjectFile == [filter |-> "none"]

\* A project may be brought from elsewhere: q names a DBC, a log and an interface.
FirstFiles(rate) ==
  [f \in ProjectPaths |->
     IF f = "q" THEN [filter |-> "some", dbc |-> "d", log |-> "l", iface |-> "can0", rate |-> rate]
     ELSE NoProjectFile]

\* edited: what changed since the file of m_projectPath was read or written, by the user or
\* with the interfaces there are.  lost: what was asked for and did not come into use.
\* given: the rate can0 was last given, 0 for none.  The combo may show another interface
\* than the one in use from the start.
ProjectInit ==
  \E o \in Offers, rate \in BitRates \ {500} : \E c \in IF "vcan0" \in o THEN {"vcan0"} ELSE o :
    project =
      [path |-> NoProject, title |-> NoProject, now |-> Blank, dbcs |-> {"d"}, edited |-> {},
       lost |-> {}, recent |-> <<>>, offered |-> o, combo |-> c, index |-> 500, given |-> 0,
       disk |-> FirstFiles(rate)]

\* canIfaceApply: can0 is given the rate, or cannot be.
Given(p, ok) ==
  IF ok THEN [p EXCEPT !.given = p.now.rate, !.lost = @ \ {"rate"}]
        ELSE [p EXCEPT !.lost = @ \cup {"rate"}]

\* onIfaceChanged, from an interface combo that comes to show i.
IfaceShown(p, i, ok) ==
  LET shown == [p EXCEPT !.combo = i]
      used == [shown EXCEPT !.now.iface = IF i \in Adapters /\ ok THEN "slcan0" ELSE i] IN
  IF i = p.combo THEN p
  ELSE IF i = p.now.iface THEN shown
  ELSE IF i = "can0" THEN Given(used, ok) ELSE used

\* onBitrateChanged, from a bit-rate combo that comes to show index.
RateShown(p, index, rate, ok) ==
  LET used == [p EXCEPT !.index = index, !.now.rate = rate] IN
  IF index = p.index THEN p ELSE IF p.now.iface = "can0" THEN Given(used, ok) ELSE used

\* ProjectRegistry::add: the entry the project has moves to the front, or a new one comes;
\* the list is written each time.
Recent(list, f) ==
  LET rest == IF f \in Range(list) THEN RemoveAt(list, CHOOSE i \in DOMAIN list : list[i] = f) ELSE list
      l == <<f>> \o rest IN
  SubSeq(l, 1, IF Len(l) > MaxRecent THEN MaxRecent ELSE Len(l))

EditSettings ==
  /\ Input
  /\ \/ \E v \in {"all", "some"} \ {project.now.filter} :
          project' = [project EXCEPT !.now.filter = v, !.edited = @ \cup {"filter"}]
     \/ \E v \in project.dbcs \ {project.now.dbc} :
          project' = [project EXCEPT !.now.dbc = v, !.edited = @ \cup {"dbc"}]

\* An interface is chosen in the combo, or by onWelcomeQuickConnect.
PickIface ==
  /\ Input
  /\ \E i \in project.offered \ {project.combo}, ok \in BOOLEAN :
       project' = [IfaceShown(project, i, ok) EXCEPT !.edited = @ \cup {"iface"}]

\* A rate is chosen, or entered; the combo is disabled for a virtual interface.
PickRate ==
  /\ project.now.iface \notin {"vcan0"} \cup Adapters /\ Input
  /\ \E rate \in BitRates, ok \in BOOLEAN :
     \E index \in ({rate} \cap ListedRates) \cup {CustomRate} :
       /\ index # project.index
       /\ project' = [RateShown(project, index, rate, ok) EXCEPT !.edited = @ \cup {"rate"}]

\* The prompt for a rate is left: the combo goes back to what it finds of the rate.
LeaveRate ==
  /\ project.now.iface \notin {"vcan0"} \cup Adapters /\ project.index # CustomRate /\ Input
  /\ project' = [project EXCEPT !.index = IF project.now.rate \in ListedRates
                                          THEN project.now.rate ELSE NothingShown]

\* onNetChanged, or onRefreshIfaces alone: the combo keeps what it shows or falls back to its
\* first entry; the watcher then leaves vcan0 for an interface that is new.
AfterChange(o, i, watched, ok, up) ==
  LET p == IfaceShown([project EXCEPT !.offered = o], i, ok)
      new == o \ (project.offered \cup Adapters) IN
  IF watched /\ p.now.iface = "vcan0" /\ new # {} THEN {IfaceShown(p, n, up) : n \in new} ELSE {p}
IfacesChange ==
  /\ Input
  /\ \E o \in Offers, watched, ok, up \in BOOLEAN :
     \E i \in IF project.combo \in o THEN {project.combo} ELSE o :
     \E q \in AfterChange(o, i, watched, ok, up) :
       project' = [q EXCEPT !.edited = IF q.now.iface = project.now.iface THEN @ ELSE @ \cup {"iface"}]

\* applyProject: what a project does not name stays, a DBC that cannot be read too.  A combo
\* takes only what it lists, and does nothing for what it shows.
Missed(p, f) ==
  {s \in {"dbc"} : f.dbc \notin p.dbcs}
  \cup {s \in {"iface"} : f.iface # p.now.iface
                          /\ f.iface \notin p.offered \ ({p.combo} \cup Adapters)}
  \cup {s \in {"rate"} : f.rate # p.given /\ f.rate \notin ListedRates \ {p.index}}
Applied(p, f, ok, up) ==
  LET named == [p EXCEPT !.now = [f EXCEPT !.dbc = IF f.dbc \in p.dbcs THEN @ ELSE p.now.dbc,
                                           !.log = IF f.log = "none" THEN p.now.log ELSE @,
                                           !.iface = p.now.iface],
                         !.lost = Missed(p, f)]
      rated == IF f.rate \in ListedRates THEN RateShown(named, f.rate, f.rate, ok) ELSE named IN
  IF f.iface \in p.offered THEN IfaceShown(rated, f.iface, up) ELSE rated

\* onShowProjectBrowser, onWelcomeOpenProject; a file that cannot be read changes nothing.
OpenProjectFile ==
  /\ Input
  /\ \E f \in ProjectPaths, ok, up \in BOOLEAN :
       /\ project.disk[f] # NoProjectFile
       /\ project' = [Applied(project, project.disk[f], ok, up)
                        EXCEPT !.path = f, !.title = f, !.recent = Recent(@, f), !.edited = {}]

\* onNewProject.
NewProjectFile ==
  /\ Input
  /\ project' = [project EXCEPT !.path = NoProject, !.title = NoProject, !.now.filter = "all",
                                !.edited = {}]

\* collectProject, projectSave: there is no log path in it; the file is written, or only in
\* part, which nobody notices.
Collected == [project.now EXCEPT !.log = "none"]
WrittenTo(f, written) ==
  [project EXCEPT !.disk[f] = IF written THEN Collected ELSE NoProjectFile,
                  !.edited = {}, !.lost = @ \cap {"rate"}]

\* onSaveProject, to a file that can be opened.
SaveProject ==
  /\ project.path # NoProject /\ Input
  /\ \E written \in BOOLEAN : project' = WrittenTo(project.path, written)

\* onSaveProjectAs: when the file cannot be opened the project is that file all the same.
SaveProjectAs ==
  /\ Input
  /\ \E f \in ProjectPaths, written \in BOOLEAN :
     \E p \in {WrittenTo(f, written), [project EXCEPT !.edited = DOMAIN Blank]} :
       project' = [p EXCEPT !.path = f, !.title = f, !.recent = Recent(@, f)]

\* onRemoveSelected.
RemoveRecent ==
  /\ Input
  /\ \E i \in DOMAIN project.recent : project' = [project EXCEPT !.recent = RemoveAt(@, i)]

\* The DBC file goes away, or comes.
DbcMoves ==
  /\ Input
  /\ project' = [project EXCEPT !.dbcs = {"d"} \ @]

ProjectReacts == FALSE
ProjectNext ==
  \/ EditSettings \/ PickIface \/ PickRate \/ LeaveRate \/ IfacesChange \/ OpenProjectFile
  \/ NewProjectFile \/ SaveProject \/ SaveProjectAs \/ RemoveRecent \/ DbcMoves

\* What is in use and was not changed since is what the project's file says, through any
\* order of opening, changing, saving, starting anew and interfaces that come and go; and
\* can0 runs at the rate that is in use -- but for what opening could not put in use: a DBC
\* that could not be read, an interface or a rate that its combo does not list or shows
\* already, a rate can0 did not take; and but for a file that was not written to its end.
\* The title is that of the project; the list has each project once and no more than its
\* bound.
ProjectSound ==
  /\ project.title = project.path
  /\ Cardinality(Range(project.recent)) = Len(project.recent) /\ Len(project.recent) <= MaxRecent
  /\ project.path # NoProject =>
       LET file == project.disk[project.path] IN
       file # NoProjectFile =>
         /\ \A s \in Compared \ (project.edited \cup project.lost \cup {"rate"}) :
              file[s] = project.now[s]
         /\ "rate" \in project.edited \/ file.rate = project.now.rate
  /\ project.now.iface = "can0" /\ "rate" \notin project.lost => project.given = project.now.rate

----------------------------------------------------------------------------
\* A capture on disk has the last frame of each identifier; 0 where it has none.
Captures == [1..2 -> 0..2]
NoCapture == <<0, 0>>
DiffPaths == {"x", "y"}

DiffInit ==
  \E x \in {<<1, 0>>, <<1, 2>>}, y \in {<<0, 2>>, <<1, 1>>} :
    diff = [files |-> [f \in DiffPaths |-> IF f = "x" THEN x ELSE y], a |-> "none", b |-> "none",
            capA |-> NoCapture, capB |-> NoCapture, diffOnly |-> FALSE, commonOnly |-> FALSE,
            rows |-> {}, of |-> <<x, y>>, halved |-> FALSE]

Status(x, y) ==
  IF y = 0 THEN "A only" ELSE IF x = 0 THEN "B only" ELSE IF x # y THEN "Changed" ELSE "Same"

\* populateTable.
DiffRows(d) ==
  {<<i, Status(d.capA[i], d.capB[i])>> : i \in
     {j \in 1..2 : /\ d.capA[j] + d.capB[j] > 0
                   /\ ~(d.commonOnly /\ 0 \in {d.capA[j], d.capB[j]})
                   /\ ~(d.diffOnly /\ d.capA[j] = d.capB[j])}}

\* onOpenA, onOpenB: what was parsed of the other stays, and the rows.
OpenCapture ==
  /\ Input
  /\ \E f \in DiffPaths :
       \/ diff' = [diff EXCEPT !.a = f, !.capA = NoCapture]
       \/ diff' = [diff EXCEPT !.b = f, !.capB = NoCapture]

\* onCompare; the second file may not be readable.
Compare ==
  /\ "none" \notin {diff.a, diff.b} /\ Input
  /\ \E readable \in BOOLEAN :
       LET d == [diff EXCEPT !.capA = diff.files[diff.a], !.halved = FALSE, !.of = <<diff.files[diff.a], diff.files[diff.b]>>,
                             !.capB = IF readable THEN diff.files[diff.b] ELSE NoCapture] IN
       diff' = [d EXCEPT !.rows = IF readable THEN DiffRows(d) ELSE {}]

\* onFilterChanged: nothing is parsed for it.
DiffFilterChanged ==
  /\ Input
  /\ \E d \in {[diff EXCEPT !.diffOnly = ~@], [diff EXCEPT !.commonOnly = ~@]} :
       diff' = IF d.capA = NoCapture /\ d.capB = NoCapture THEN d
               ELSE [d EXCEPT !.rows = DiffRows(d), !.halved = NoCapture \in {d.capA, d.capB}]

DiffReacts == FALSE
DiffNext == OpenCapture \/ Compare \/ DiffFilterChanged

\* The rows judge each identifier by both captures that were compared, and as soon as both
\* are read are those the boxes ask for -- except that a box toggled after another file was
\* chosen, or after one could not be read, compares with nothing.
DiffSound ==
  LET x == diff.of[1]
      y == diff.of[2]
  IN /\ diff.halved \/ \A r \in diff.rows : r[2] = Status(x[r[1]], y[r[1]])
     /\ NoCapture \notin {diff.capA, diff.capB} =>
          {r[1] : r \in diff.rows} =
            {i \in 1..2 : /\ {x[i], y[i]} # {0}
                          /\ diff.commonOnly => 0 \notin {x[i], y[i]}
                          /\ diff.diffOnly => x[i] # y[i]}
=============================================================================
