------------------------------- MODULE Pages -------------------------------
(* The main window (gui/src/main_window.cpp, sidebar_nav.cpp): the bench   *)
(* around the capture thread and the pages of the sidebar.  Pages act on   *)
(* state of their own, so that a behaviour keeps to the page it started    *)
(* on; what pages share (a DBC, a project, the trigger) is an input of     *)
(* each of them.                                                           *)
EXTENDS Workbench, ScriptPage, UpdatePage, Elm327Page, DoipPage, XcpPage, SendPages, SimPage,
        EditPages, DetectPages, MonitorPage, Protocols, ProjectPages, BuilderPage, GraphPage

CONSTANT Used  \* the pages of interest

PageNames ==
  {"bench", "script", "update", "elm327", "doip", "xcp", "transmit", "fuzz", "bisect",
   "simulator", "tree", "ecus", "wiggle", "verify", "checked", "scan", "monitor", "bam", "sdo",
   "pdo", "project", "diff", "builder", "graph"}

ASSUME PagesAssumption == Used \subseteq PageNames

pagesVars ==
  <<sessionVars, benchVars, script, updateVars, elmVars, doipVars, xcpVars, sendVars, simVars,
    editVars, detectVars, monitor, protocolVars, projectVars, builder, graph>>

----------------------------------------------------------------------------
\* A page that is not in use has no state.
Shut == [page |-> "shut"]
BenchShut ==
  /\ capture = Shut /\ conns = Shut /\ queue = Shut /\ count = Shut /\ frames = Shut
  /\ gui = Shut /\ dialogs = Shut /\ panel = Shut /\ recorder = Shut /\ iface = Shut
  /\ status = Shut /\ clicks = Shut /\ ledger = Shut

On(p) == page = p

Init ==
  /\ page \in Used /\ inputs = 0
  /\ IF On("bench") THEN BenchInit ELSE BenchShut
  /\ IF On("script") THEN ScriptInit ELSE script = Shut
  /\ IF On("update") THEN UpdateInit ELSE updater = Shut /\ dialog = Shut /\ installed = Shut
  /\ IF On("elm327") THEN ElmInit ELSE elm = Shut /\ line = Shut
  /\ IF On("doip") THEN DoipInit ELSE doip = Shut /\ stream = Shut
  /\ IF On("xcp") THEN XcpInit ELSE xcp = Shut /\ slave = Shut
  /\ IF On("transmit") THEN TransmitInit ELSE transmit = Shut
  /\ IF On("fuzz") THEN FuzzInit ELSE fuzz = Shut
  /\ IF On("bisect") THEN BisectInit ELSE bisect = Shut
  /\ IF On("simulator") THEN SimInit ELSE sim = Shut /\ disk = Shut
  /\ IF On("tree") THEN TreeInit ELSE tree = Shut
  /\ IF On("ecus") THEN EcuInit ELSE ecus = Shut
  /\ IF On("wiggle") THEN WiggleInit ELSE wiggle = Shut
  /\ IF On("verify") THEN VerifyInit ELSE verify = Shut
  /\ IF On("checked") THEN CheckedInit ELSE checked = Shut
  /\ IF On("scan") THEN ScanInit ELSE scan = Shut
  /\ IF On("monitor") THEN MonitorInit ELSE monitor = Shut
  /\ IF On("bam") THEN BamInit ELSE bam = Shut
  /\ IF On("sdo") THEN SdoInit ELSE sdo = Shut
  /\ IF On("pdo") THEN PdoInit ELSE pdo = Shut
  /\ IF On("project") THEN ProjectInit ELSE project = Shut
  /\ IF On("diff") THEN DiffInit ELSE diff = Shut
  /\ IF On("builder") THEN BuilderInit ELSE builder = Shut
  /\ IF On("graph") THEN GraphInit ELSE graph = Shut

----------------------------------------------------------------------------
\* The other pages stay as they are.
Others ==
  /\ UNCHANGED page
  /\ IF On("bench") THEN UNCHANGED inputs ELSE UNCHANGED benchVars
  /\ IF On("script") THEN TRUE ELSE UNCHANGED script
  /\ IF On("update") THEN TRUE ELSE UNCHANGED updateVars
  /\ IF On("elm327") THEN TRUE ELSE UNCHANGED elmVars
  /\ IF On("doip") THEN TRUE ELSE UNCHANGED doipVars
  /\ IF On("xcp") THEN TRUE ELSE UNCHANGED xcpVars
  /\ IF On("transmit") THEN TRUE ELSE UNCHANGED transmit
  /\ IF On("fuzz") THEN TRUE ELSE UNCHANGED fuzz
  /\ IF On("bisect") THEN TRUE ELSE UNCHANGED bisect
  /\ IF On("simulator") THEN TRUE ELSE UNCHANGED simVars
  /\ IF On("tree") THEN TRUE ELSE UNCHANGED tree
  /\ IF On("ecus") THEN TRUE ELSE UNCHANGED ecus
  /\ IF On("wiggle") THEN TRUE ELSE UNCHANGED wiggle
  /\ IF On("verify") THEN TRUE ELSE UNCHANGED verify
  /\ IF On("checked") THEN TRUE ELSE UNCHANGED checked
  /\ IF On("scan") THEN TRUE ELSE UNCHANGED scan
  /\ IF On("monitor") THEN TRUE ELSE UNCHANGED monitor
  /\ IF On("bam") THEN TRUE ELSE UNCHANGED bam
  /\ IF On("sdo") THEN TRUE ELSE UNCHANGED sdo
  /\ IF On("pdo") THEN TRUE ELSE UNCHANGED pdo
  /\ IF On("project") THEN TRUE ELSE UNCHANGED project
  /\ IF On("diff") THEN TRUE ELSE UNCHANGED diff
  /\ IF On("builder") THEN TRUE ELSE UNCHANGED builder
  /\ IF On("graph") THEN TRUE ELSE UNCHANGED graph

Next ==
  \/ On("bench") /\ BenchNext /\ Others
  \/ On("script") /\ ScriptNext /\ Others
  \/ On("update") /\ UpdateNext /\ Others
  \/ On("elm327") /\ ElmNext /\ Others
  \/ On("doip") /\ DoipNext /\ Others
  \/ On("xcp") /\ XcpNext /\ Others
  \/ On("transmit") /\ TransmitNext /\ Others
  \/ On("fuzz") /\ FuzzNext /\ Others
  \/ On("bisect") /\ BisectNext /\ Others
  \/ On("simulator") /\ SimNext /\ Others
  \/ On("tree") /\ TreeNext /\ Others
  \/ On("ecus") /\ EcuNext /\ Others
  \/ On("wiggle") /\ WiggleNext /\ Others
  \/ On("verify") /\ VerifyNext /\ Others
  \/ On("checked") /\ CheckedNext /\ Others
  \/ On("scan") /\ ScanNext /\ Others
  \/ On("monitor") /\ MonitorNext /\ Others
  \/ On("bam") /\ BamNext /\ Others
  \/ On("sdo") /\ SdoNext /\ Others
  \/ On("pdo") /\ PdoNext /\ Others
  \/ On("project") /\ ProjectNext /\ Others
  \/ On("diff") /\ DiffNext /\ Others
  \/ On("builder") /\ BuilderNext /\ Others
  \/ On("graph") /\ GraphNext /\ Others

\* Timers fire, threads run, posted events are handled; a watchdog wakes after its time, and
\* a worker whose socket has a timeout ends.  Nothing of the user and nothing of the bus.
Fairness ==
  /\ WF_benchVars(On("bench") /\ CaptureSteps) /\ WF_benchVars(On("bench") /\ SetupCapture)
  /\ WF_benchVars(On("bench") /\ Handle) /\ WF_benchVars(On("bench") /\ FpsTick)
  /\ WF_benchVars(On("bench") /\ StatusTimeout)
  /\ WF_<<script, inputs>>(On("script") /\ ScriptReacts)
  /\ WF_<<xcpVars, inputs>>(On("xcp") /\ XcpReacts)
  /\ WF_<<elmVars, inputs>>(On("elm327") /\ ElmReacts)
  /\ WF_<<wiggle, inputs>>(On("wiggle") /\ WiggleReacts)
  /\ WF_<<verify, inputs>>(On("verify") /\ VerifyReacts)
  /\ WF_<<scan, inputs>>(On("scan") /\ ScanReacts)

Spec == Init /\ [][Next]_pagesVars /\ Fairness

----------------------------------------------------------------------------
(* Properties: those of the pages, each stated in the page's module.       *)

\* A log holds each frame once and in order (Workbench).
RecordingSound == On("bench") => LogInOrder

\* The trigger is armed as the panel shows it and fires once (Workbench).
TriggerSound == On("bench") => ArmedAsShown

\* When the bus falls silent LIVE goes off, whatever was recorded or reconfigured.
LiveFades == <>[](On("bench") => ~status.live)

\* A handler, thread or timer somebody waits for.
Waiting ==
  \/ On("bench") /\ gui.waits
  \/ On("script") /\ script.running
  \/ On("xcp") /\ xcp.busy
  \/ On("elm327") /\ elm.timer
  \/ On("wiggle") /\ wiggle.timers # {}
  \/ On("verify") /\ verify.active
  \/ On("scan") /\ ~scan.button

\* Every wait ends: the window's for the capture thread it restarts, the panel's for a
\* script that loops (the watchdog aborts it), the XCP buttons' for a silent slave, the
\* initialisation of the adapter, a window of the wiggle test, a verification that never
\* sees its signal, a scan.
JobsEnd == Waiting ~> ~Waiting

\* What runs in the background agrees with what asked for it (ScriptPage, UpdatePage).
JobsSound == /\ On("script") => ScriptSound
             /\ On("update") => UpdateSound

\* A link's bytes are never mixed with those of another link, message or exchange
\* (Elm327Page, DoipPage, XcpPage, Protocols).
WiresSound == /\ On("elm327") => ElmSound
              /\ On("doip") => DoipSound
              /\ On("xcp") => XcpSound
              /\ On("bam") => BamSound

\* What is sent is what the page shows, and the bisection keeps its frame (SendPages).
SendsSound == /\ On("transmit") => TransmitSound
              /\ On("fuzz") => FuzzSound
              /\ On("bisect") => BisectSound

\* Simulators, their profiles on disk and their editors agree (SimPage, EditPages).
SimulatorsSound == /\ On("simulator") => SimSound
                   /\ On("tree") => TreeSound
                   /\ On("ecus") => EcuSound

\* Verdicts are those of the frames that came, with the DBC they came under (DetectPages).
VerdictsSound == /\ On("verify") => VerifySound
                 /\ On("checked") => CheckedSound
                 /\ On("scan") => ScanSound

\* Tables, candidates, decoded fields and curves show what came (MonitorPage, DetectPages,
\* Protocols, ProjectPages, GraphPage).
ViewsSound == /\ On("monitor") => MonitorSound
              /\ On("wiggle") => WiggleSound
              /\ On("sdo") => SdoSound
              /\ On("pdo") => PdoSound
              /\ On("diff") => DiffSound
              /\ On("graph") => GraphSound

\* A project and a DBC under construction are what was edited (ProjectPages, BuilderPage).
DocumentsSound == /\ On("project") => ProjectSound
                  /\ On("builder") => BuilderSound
============================================================================
