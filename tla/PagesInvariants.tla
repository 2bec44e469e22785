--------------------------- MODULE PagesInvariants ---------------------------
(***************************************************************************)
(* The inductive invariants of the pages, with the types of their states:  *)
(* what PagesProofs shows of every step.                                   *)
(***************************************************************************)
EXTENDS Pages

-------------------------------------------------------------------------------
(* The trigger *)

\* The names an interface can have: a serial adapter that was set up is slcan0.
Names == Ifaces \cup {"slcan0"}

ThreadType ==
  [at : {"opening", "reading", "armed", "snapped", "ended"}, stop : BOOLEAN, iface : Names,
   armed : BOOLEAN, trigger : BOOLEAN, snap : BOOLEAN]

LedgerType == [fires : Nat, kept : BOOLEAN, doubled : BOOLEAN]
PanelType  == [armed : BOOLEAN, action : Actions]
GuiType    == [waits : BOOLEAN, apply : Config \cup {Nothing}]

TriggerTypes ==
  /\ capture \in ThreadType
  /\ gui \in GuiType
  /\ panel \in PanelType
  /\ iface \in Names
  /\ ledger \in LedgerType

\* The thread compares a frame only while the present arming has not fired: it does so
\* after it saw the flag, and setTrigger counts anew.
MatchingUnfired ==
  capture.armed \/ capture.at \in {"armed", "snapped"} => ledger.fires = 0

TriggerInv == TriggerTypes /\ ArmedAsShown /\ MatchingUnfired

-------------------------------------------------------------------------------
(* The log *)

PostedType == [event : {"frame", "fired"}, n : Nat, iface : Names, writes : Nat]

RecorderType ==
  [open : BOOLEAN, log : Seq(Nat), shown : BOOLEAN, record : BOOLEAN, stop : BOOLEAN]

LogTypes ==
  /\ conns \in [recorder : Nat, counter : BOOLEAN]
  /\ queue \in Seq(PostedType)
  /\ frames \in Nat
  /\ recorder \in RecorderType
  /\ dialogs \in Seq({"button", "trigger"})

\* The recorder is connected at most once, and only while its file is open.
ConnectedOnce ==
  /\ conns.recorder <= 1
  /\ conns.recorder = 1 => recorder.open
  /\ \A k \in 1..Len(queue) : queue[k].writes <= 1

\* The lines of the log, the queued frames and those to come are in the order of the bus.
LineInOrder ==
  /\ \A i, j \in 1..Len(recorder.log) : i < j => recorder.log[i] < recorder.log[j]
  /\ \A i \in 1..Len(recorder.log) : recorder.log[i] <= frames
  /\ \A k \in 1..Len(queue) : queue[k].event = "frame" =>
       /\ queue[k].n <= frames
       /\ \A i \in 1..Len(recorder.log) : recorder.log[i] < queue[k].n
  /\ \A k, l \in 1..Len(queue) :
       k < l /\ queue[k].event = "frame" /\ queue[l].event = "frame"
         => queue[k].n < queue[l].n

LogInv == LogTypes /\ (~ledger.doubled => ConnectedOnce /\ LineInOrder)

-------------------------------------------------------------------------------
(* Jobs *)

ScriptType ==
  [running : BOOLEAN, engine : BOOLEAN,
   worker : {"none", "starting", "running", "joining", "posted", "ended"}, abort : BOOLEAN,
   flag : BOOLEAN, watchdog : {"none", "sleeping", "ended"}, closing : BOOLEAN,
   heard : BOOLEAN]

\* A worker that has not been heard to the end has its engine, and Run is not offered; the
\* watchdog lives while run() does; no Stop was heard before run() has begun.
ScriptInv ==
  /\ script \in ScriptType
  /\ Going({"starting", "running", "joining", "posted"}) => script.running /\ script.engine
  /\ script.watchdog # "none" => Going({"running", "joining"})
  /\ Going({"starting"}) => ~script.heard
  /\ script.heard /\ Going({"running"}) => script.abort

UpdateStates == {"Idle", "FetchManifest", "FetchSig", "Downloading"}

\* A dialog offers a release only while the updater is idle and has its manifest; what is
\* downloaded is a release; a version that is stored was verified.
UpdateInv ==
  /\ updater \in [state : UpdateStates, manifest : Manifests, version : Manifests \ {Damaged}]
  /\ dialog \in Phases
  /\ installed \in [version : Releases \cup {1}, appImage : BOOLEAN]
  /\ dialog \in {"Checking", "Downloading"} => updater.state # "Idle"
  /\ dialog = "Available" => updater.state = "Idle"
  /\ dialog = "Available" \/ updater.state = "Downloading" => updater.version # 0

-------------------------------------------------------------------------------
(* Sending *)

Statuses == {"none", "sent", "error", "running", "stopped"}

\* The fields are locked and the timer runs exactly while the box is checked.
TransmitInv ==
  /\ transmit \in [fields : SendFrames \cup {BadFrame}, locked : BOOLEAN, checked : BOOLEAN,
                   timer : BOOLEAN, count : Nat, status : Statuses, sent : SUBSET SendFrames]
  /\ transmit.timer = transmit.checked /\ transmit.locked = transmit.checked
  /\ transmit.checked => transmit.sent \subseteq {transmit.fields} /\ transmit.fields # BadFrame

FuzzBytes == {0, 1} \X {0, 1}
FuzzPatterns == FuzzBytes \cup [1..2 -> {0, 1}]

FuzzTypes ==
  fuzz \in [mode : {"random", "increment", "flip"}, on : BOOLEAN, timer : BOOLEAN, count : Nat,
            bytes : FuzzBytes, sent : Seq(FuzzPatterns)]

\* In increment mode the counter bytes follow the last frame sent.
FuzzInv ==
  /\ FuzzTypes
  /\ fuzz.timer = fuzz.on /\ fuzz.count = Len(fuzz.sent)
  /\ fuzz.mode = "increment" /\ fuzz.on =>
       /\ \A i \in 2..Len(fuzz.sent) : fuzz.sent[i] = Incremented(fuzz.sent[i - 1])
       /\ fuzz.sent # << >> => fuzz.bytes = Incremented(fuzz.sent[Len(fuzz.sent)])

\* Bounds of the window; enabled tells that it can be halved.
BisectInv ==
  /\ bisect \in [frames : Nat, lo : Nat, hi : Nat, enabled : BOOLEAN, reset : BOOLEAN,
                 culprit : Nat, emptied : BOOLEAN]
  /\ ~bisect.emptied =>
       /\ bisect.enabled <=> bisect.hi - bisect.lo > 1
       /\ bisect.hi <= bisect.frames
       /\ bisect.frames > 0 => bisect.lo <= bisect.culprit /\ bisect.culprit < bisect.hi
       /\ bisect.reset \/ bisect.enabled => bisect.frames > 0

-------------------------------------------------------------------------------
(* Links *)

ElmType ==
  [state : {"Closed", "Initializing", "Monitoring"}, step : Nat, timer : BOOLEAN,
   link : {"none", "bluetooth", "serial"}, io : BOOLEAN, connected : BOOLEAN, sync : BOOLEAN]

LineType ==
  [buffer : Seq([what : {"answer", "frame"}, link : Nat]),
   reported : {<< >>} \cup {<<n, n>> : n \in Nat}, links : Nat]

\* What is held of a line came over the present link; a socket that failed at once is none.
ElmInv ==
  /\ elm \in ElmType /\ line \in LineType
  /\ elm.sync => elm.link = "none"
  /\ ~elm.sync => (elm.connected <=> elm.link # "none")
  /\ elm.timer <=> elm.state = "Initializing"
  /\ elm.state # "Closed" => elm.io /\ elm.link # "none"
  /\ line.buffer # << >> => Head(line.buffer).link = line.links

Commands == XcpCmds \cup {"Upload", "none"}

\* Until one was given up, the slave owes an answer only to the command that is waiting.
XcpTypes ==
  /\ xcp \in [busy : BOOLEAN, at : {"none", "opening", "sent", "listening", "posted"},
              cmd : Commands, result : [asked : Commands, of : Commands]]
  /\ slave \in [pending : Seq(Commands), late : BOOLEAN]
XcpOwed ==
  slave.pending = << >> \/ (xcp.at \in {"sent", "listening"} /\ slave.pending = <<xcp.cmd>>)
XcpInv ==
  /\ XcpTypes
  /\ xcp.busy <=> xcp.at # "none"
  /\ slave.late \/ (xcp.result.of \in {"none", xcp.result.asked} /\ XcpOwed)

PieceType ==
  [what : {"granted", "refused", "response"}, part : {"header", "payload"}, n : Nat,
   session : Nat]

\* The k-th piece that the ECU sent over the connection that d is about.
IsPiece(p, k, d) ==
  /\ p.part = IF k % 2 = 1 THEN "header" ELSE "payload"
  /\ p.n = (k + 1) \div 2 /\ p.session = d.session
  /\ p.what = "granted" => d.granted

\* The pieces of s are those from the k-th.
InLine(s, k, d) == \A i \in 1..Len(s) : IsPiece(s[i], k + i, d)

DoipType ==
  [socket : {"idle", "connecting", "connected", "closing"}, connect : BOOLEAN,
   disconnect : BOOLEAN, uds : BOOLEAN, active : BOOLEAN, granted : BOOLEAN, session : Nat]
StreamType ==
  [wire : Seq(PieceType), rx : Seq(PieceType), handled : Seq(PieceType), sent : Nat]

\* What was handled, what is held and what is on its way is what the ECU sent, in order; a
\* connection starts with nothing held, and Connect is only offered when nothing more comes.
StreamInLine ==
  /\ InLine(stream.handled, 0, doip)
  /\ InLine(stream.rx, Len(stream.handled), doip)
  /\ InLine(stream.wire, Len(stream.handled) + Len(stream.rx), doip)
  /\ Len(stream.handled) % 2 = 0
SocketFollows ==
  /\ doip.socket \in {"idle", "connecting"} => stream.rx = << >>
  /\ doip.socket = "connected" =>
       Len(stream.handled) + Len(stream.rx) + Len(stream.wire) = 2 * stream.sent
  /\ doip.connect => doip.socket \in {"idle", "closing"} /\ stream.wire = << >>
ButtonsFollowSocket ==
  /\ doip.uds => doip.active /\ doip.granted /\ doip.socket \in {"connected", "closing"}
  /\ doip.connect \/ doip.disconnect \/ doip.socket = "connecting"
DoipInv ==
  doip \in DoipType /\ stream \in StreamType /\ StreamInLine /\ SocketFollows /\ ButtonsFollowSocket

BamFrames == [sa : Sources, msg : Nat, seq : 0..Packets]
BamPacket == Nat \X Nat
SessionType ==
  [open : BOOLEAN, msg : Nat, buf : [1..Packets -> BamPacket], received : Nat, age : {0, 1},
   fed : Seq(BamPacket)]

\* Packets are counted as they are fed; if all are of the session's message each is in its
\* place.
SessionOK(s) ==
  /\ s.received = Len(s.fed)
  /\ \A k \in 1..Len(s.fed) : s.fed[k][2] \in 1..Packets
  /\ (\A k \in 1..Len(s.fed) : s.fed[k][1] = s.msg)
       => \A k \in 1..Len(s.fed) : s.buf[s.fed[k][2]] = s.fed[k]

BamTypes ==
  bam \in [way : Seq(BamFrames), sent : [Sources -> Nat], next : [Sources -> Nat],
           sessions : [Sources -> SessionType], heard : [Sources -> Nat], delivered : SessionType]

SessionsOK ==
  \A s \in Sources : bam.sessions[s].open =>
    /\ SessionOK(bam.sessions[s])
    /\ bam.sessions[s].received < Packets /\ bam.sessions[s].msg = bam.heard[s]

DeliveredOK ==
  bam.delivered.open => SessionOK(bam.delivered) /\ Len(bam.delivered.fed) = Packets

BamInv == BamTypes /\ SessionsOK /\ DeliveredOK

-------------------------------------------------------------------------------
(* Verdicts *)

Rows == [name : Signals \cup {"none"}, asked : Signals, result : {"refused", "timeout", "pass"}]
HeardFrames == [carries : SUBSET Signals, value : 0..1]

\* A frame says what is asked of a signal; some frame of h does; they reach the verdict.
Says(f, name) == name \in f.carries /\ f.value = 1
SaidIn(h, name) == \E i \in 1..Len(h) : Says(h[i], name)
ReachedIn(h, name, cond) ==
  \E j \in 1..Len(h) : Says(h[j], name) /\ (cond # "none" => \E i \in 1..j : Says(h[i], cond))

RunType ==
  [name : Signals \cup {"none"}, cond : Signals \cup {"none"}, at : 0..2, condAt : 0..2, met : BOOLEAN]
VerifyType ==
  [dbc : Dbcs \cup {NoDbc}, active : BOOLEAN, timer : BOOLEAN, run : RunType, history : Seq(Rows),
   started : Nat, emitted : Nat, heard : Seq(HeardFrames), switched : BOOLEAN]

VerifyTypes ==
  /\ verify \in VerifyType
  /\ \A i \in 1..Len(verify.history) :
       verify.history[i].result # "refused" => verify.history[i].name = verify.history[i].asked

AnsweredOnce ==
  /\ verify.active => verify.started = verify.emitted + 1
  /\ ~verify.active => verify.started = verify.emitted
  /\ verify.timer <=> verify.active

\* Of the run in flight: the condition is met if a frame said so and, while the DBC is the one
\* the places were resolved in, only if; and then the verdict is not reached yet.
RunInFlight ==
  verify.active =>
    /\ verify.run.name \in Signals
    /\ verify.run.cond = "none" => verify.run.met /\ verify.run.condAt = 0
    /\ verify.run.met => verify.run.cond = "none" \/ SaidIn(verify.heard, verify.run.cond)
    /\ ~verify.switched =>
         /\ verify.dbc[verify.run.name] = verify.run.at
         /\ verify.run.cond # "none" => verify.dbc[verify.run.cond] = verify.run.condAt
         /\ verify.run.cond # "none" /\ SaidIn(verify.heard, verify.run.cond) => verify.run.met
         /\ ~ReachedIn(verify.heard, verify.run.name, verify.run.cond)

VerdictOf(result) ==
  /\ result = "pass" => ReachedIn(verify.heard, verify.run.name, verify.run.cond)
  /\ result = "timeout" /\ ~verify.switched =>
       ~ReachedIn(verify.heard, verify.run.name, verify.run.cond)

LastVerdict ==
  Len(verify.history) # 0 /\ ~verify.active => VerdictOf(verify.history[Len(verify.history)].result)

VerifyInv == VerifyTypes /\ AnsweredOnce /\ RunInFlight /\ LastVerdict

Issues == {"undocumented", "dlc", "range"} \X (1..2)

CheckedType ==
  [dbc : SUBSET (1..2), paused : BOOLEAN, findings : [Issues -> Nat], seen : Nat, ok : Nat,
   bad : Nat, dirty : BOOLEAN, table : [Issues -> Nat]]

CheckedFindings ==
  \A i \in Issues :
    checked.findings[i] > 0 => (i[1] = "undocumented" <=> i[2] \notin checked.dbc)

CheckedInv ==
  /\ checked \in CheckedType /\ CheckedFindings
  /\ ~checked.dirty => checked.table = checked.findings
  /\ checked.seen = checked.ok + checked.bad
  /\ (\E i \in Issues : checked.findings[i] > 0) <=> checked.bad > 0

ScanJobs == {<< >>} \cup (Nat \X Nat)
ScanType ==
  [frames : [1..2 -> Nat], id : 0..2, button : BOOLEAN, workers : Seq(ScanJobs),
   asked : ScanJobs, shown : ScanJobs]

\* At most one worker, and its job is what was asked.
ScanInv ==
  /\ scan \in ScanType
  /\ Len(scan.workers) <= 1
  /\ scan.button <=> Len(scan.workers) = 0
  /\ Len(scan.workers) = 1 => scan.workers[1] = scan.asked
  /\ scan.shown # << >> => scan.shown = scan.asked

-------------------------------------------------------------------------------
(* Simulators *)

EcuRow == [dids : Nat, dtcs : Nat]
EcuType ==
  [sims : Seq(EcuRow), row : Nat, open : BOOLEAN, target : Nat, dids : Nat, dtcs : Nat,
   touched : BOOLEAN, refilled : BOOLEAN]

\* The dialog on an ECU whose tables nobody touched shows them, refilled.
DialogShows ==
  ecus.open /\ ecus.target > 0 /\ ~ecus.touched =>
    /\ ecus.dids = Refilled(ecus.sims[ecus.target].dids)
    /\ ecus.dtcs = Refilled(ecus.sims[ecus.target].dtcs)

EcuInv ==
  /\ ecus \in EcuType
  /\ ecus.row <= Len(ecus.sims)
  /\ ecus.open => ecus.target \in {0, ecus.row}
  /\ ~ecus.refilled
  /\ DialogShows

\* What a profile is; its identifier is whatever the file says.
IsProfile(p) ==
  /\ p = [id |-> p.id, wave |-> p.wave, points |-> p.points, text |-> p.text]
  /\ p.wave \in SimWaves /\ p.points \in BOOLEAN

\* p and q differ in the identifier alone, if at all.
SameButId(p, q) ==
  /\ p.wave = q.wave /\ p.points = q.points /\ p.text = q.text
  /\ q.id < 10 => p.id = q.id

SimShape ==
  sim = [path |-> sim.path, current |-> sim.current, live |-> sim.live, animated |-> sim.animated,
         value |-> sim.value, shown |-> sim.shown, reshaped |-> sim.reshaped,
         running |-> sim.running, start |-> sim.start, timers |-> sim.timers]

SimTypes ==
  /\ SimShape
  /\ sim.path \in Profiles /\ IsProfile(sim.current) /\ IsProfile(sim.live)
  /\ sim.animated \in BOOLEAN /\ sim.reshaped \in BOOLEAN /\ sim.start \in BOOLEAN
  /\ sim.running \in BOOLEAN /\ sim.timers \in {0, 2}
  /\ disk = [f \in Profiles |-> disk[f]]
  /\ \A f \in Profiles : disk[f] = NoFile \/ IsProfile(disk[f])

\* The simulation in the panel: a value that is shown as manual and stored without a
\* waveform is not played from points.
SimFollows ==
  /\ (sim.running <=> sim.start) /\ (sim.timers > 0 <=> sim.running)
  /\ sim.live.id = sim.current.id /\ sim.live.wave = sim.current.wave
  /\ ~sim.reshaped =>
       /\ sim.animated <=> sim.current.points
       /\ sim.live.points <=> sim.current.points \/ sim.current.wave # "none"
  /\ ~sim.animated /\ ~sim.reshaped /\ sim.current.wave = "none" => sim.shown = sim.value

FileFollows ==
  /\ disk["plant"] = Plant /\ IsProfile(disk[sim.path])
  /\ sim.path \in Custom => SameButId(disk[sim.path], sim.current)

SimInv == SimTypes /\ SimFollows /\ FileFollows

ItemKinds == {"node", "message", "signal"}
AllTexts == IdTexts \cup RowTexts
\* What the two fields of an item can hold, and what can be entered in them.
FieldValues == [1..2 -> Int]
Entries == {e \in [1..2 -> (0..1) \cup AllTexts] : e[1] \in 0..1 /\ e[2] \in AllTexts}
Item == [kind : ItemKinds, fields : FieldValues, entered : Entries]
TreeType ==
  [items : Seq(Item), current : Nat, page : ItemKinds \cup {"none"},
   buttons : SUBSET {"remove", "message", "signal"}, form : [ItemKinds -> Entries],
   saved : BOOLEAN]

\* The items hold what was entered, below a node.
ItemsHold(items) ==
  /\ items \in Seq(Item)
  /\ \A i \in 1..Len(items) : items[i].fields = Parsed(items[i].kind, items[i].entered)
  /\ items # <<>> => items[1].kind = "node"

FormShows ==
  tree.page # "none" =>
    /\ tree.current > 0 /\ tree.page = tree.items[tree.current].kind
    /\ Parsed(tree.page, tree.form[tree.page]) = tree.items[tree.current].fields

TreeInv ==
  /\ tree \in TreeType /\ ItemsHold(tree.items)
  /\ tree.current <= Len(tree.items)
  /\ tree.buttons # {} => tree.page # "none"
  /\ FormShows

-------------------------------------------------------------------------------
(* Documents *)

\* A sequence in which nothing comes twice.
Distinct(s) == \A i, j \in 1..Len(s) : s[i] = s[j] => i = j

Settings == [filter : {"all", "some"}, dbc : {"d", "none"}, log : {"none", "l"},
             iface : ProjectIfaces, rate : BitRates]
SettingNames == {"filter", "dbc", "log", "iface", "rate"}
ProjectType ==
  [path : ProjectPaths \cup {NoProject}, title : ProjectPaths \cup {NoProject}, now : Settings,
   dbcs : SUBSET {"d"}, edited : SUBSET SettingNames, lost : SUBSET SettingNames,
   recent : Seq(ProjectPaths), offered : SUBSET ProjectIfaces, combo : ProjectIfaces,
   index : ListedRates \cup {CustomRate, NothingShown}, given : BitRates \cup {0},
   disk : [ProjectPaths -> Settings \cup {NoProjectFile}]]

\* What is in use and was neither changed nor lost is what a file says.
Agrees(p, file) ==
  /\ "filter" \in p.edited \cup p.lost \/ file.filter = p.now.filter
  /\ "dbc" \in p.edited \cup p.lost \/ file.dbc = p.now.dbc
  /\ "iface" \in p.edited \cup p.lost \/ file.iface = p.now.iface
  /\ "rate" \in p.edited \/ file.rate = p.now.rate
UsesFile(p) ==
  p.path # NoProject /\ p.disk[p.path] # NoProjectFile => Agrees(p, p.disk[p.path])
RateRuns(p) == p.now.iface = "can0" /\ "rate" \notin p.lost => p.given = p.now.rate

ListedOnce(list) == Distinct(list) /\ Len(list) <= MaxRecent

ProjectGood(p) ==
  /\ p \in ProjectType /\ p.title = p.path /\ ListedOnce(p.recent) /\ UsesFile(p) /\ RateRuns(p)
ProjectInv == ProjectGood(project)

\* Two states of the window that agree but for the combos and what they put in use.
SameFiles(p, q) ==
  /\ q.path = p.path /\ q.title = p.title /\ q.recent = p.recent /\ q.disk = p.disk
  /\ q.dbcs = p.dbcs /\ q.edited = p.edited
SameLosses(p, q) == q.lost \ {"rate"} = p.lost \ {"rate"}

\* The DBC builder.
Labels == {NoName, "default", "mine", "given"}
Sig == [name : SignalNames \cup {NoName}, start : Starts, len : Lengths, order : {"le", "be"}]
Message == [label : Labels, sigs : Seq(Sig)]
Db == [BuildIds -> Message]

IsBuilder(b) ==
  b = [list |-> b.list, sel |-> b.sel, dlc |-> b.dlc, db |-> b.db, others |-> b.others,
       form |-> b.form, field |-> b.field, chosen |-> b.chosen, editing |-> b.editing,
       table |-> b.table, pending |-> b.pending, preview |-> b.preview, opened |-> b.opened,
       moved |-> b.moved, stale |-> b.stale]

BuilderTypes(b) ==
  /\ IsBuilder(b)
  /\ b.list \subseteq BuildIds /\ b.sel \in {0} \cup BuildIds
  /\ b.dlc \in [BuildIds -> {0, 1, 8}] /\ b.db \in Db
  /\ b.form \in Sig /\ b.field \in Labels /\ b.editing \in Nat

EditsOpened(b) ==
  b.editing # 0 /\ b.sel # 0 /\ ~b.moved =>
    /\ b.editing \in 1..Len(b.db[b.sel].sigs)
    /\ b.db[b.sel].sigs[b.editing].name = b.opened

NamedOnce(db) ==
  \A id \in BuildIds : \A i, j \in 1..Len(db[id].sigs) :
    db[id].sigs[i].name = db[id].sigs[j].name => i = j

OthersHave(b) ==
  \A id \in BuildIds :
    /\ b.db[id].sigs = b.others.told[id].sigs
    /\ b.others.since = "load" => b.db[id].sigs = b.others.protocols[id].sigs
TableFollows(b) == b.pending \/ b.table = TableOf(b)
RowsNamed(b) ==
  [i \in DOMAIN b.table |-> b.table[i].name] = [i \in DOMAIN SigsOf(b) |-> SigsOf(b)[i].name]
BitsMarked(b) == b.chosen = {} \/ ~InRange(b.form) \/ b.chosen = BitsOf(b.form)
PreviewFollows(b) == b.stale \/ b.preview = PreviewOf(b)

BuilderGood(b) ==
  /\ BuilderTypes(b) /\ EditsOpened(b) /\ NamedOnce(b.db) /\ OthersHave(b)
  /\ TableFollows(b) /\ RowsNamed(b) /\ BitsMarked(b) /\ PreviewFollows(b)
BuilderInv == BuilderGood(builder)

\* Two states of the builder that agree but for the form, the edit and the preview; but for
\* the table; but for the document and the table.
SameDocument(b, c) ==
  /\ c.list = b.list /\ c.sel = b.sel /\ c.dlc = b.dlc /\ c.db = b.db /\ c.others = b.others
  /\ c.field = b.field
SameTable(b, c) == c.table = b.table /\ c.pending = b.pending
SameForm(b, c) ==
  /\ c.form = b.form /\ c.chosen = b.chosen /\ c.preview = b.preview /\ c.stale = b.stale
SameEdit(b, c) == c.editing = b.editing /\ c.opened = b.opened /\ c.moved = b.moved

NamesOnce(sigs) == \A i, j \in 1..Len(sigs) : sigs[i].name = sigs[j].name => i = j

\* The comparison of two captures.
Verdicts == {"A only", "B only", "Changed", "Same"}
Read(d) == NoCapture \notin {d.capA, d.capB}
DiffType ==
  [files : [DiffPaths -> Captures], a : DiffPaths \cup {"none"}, b : DiffPaths \cup {"none"},
   capA : Captures, capB : Captures, diffOnly : BOOLEAN, commonOnly : BOOLEAN,
   rows : SUBSET ((1..2) \X Verdicts), of : Captures \X Captures, halved : BOOLEAN]

\* What was parsed of both is what the rows were compared from; rows that were filled when
\* only one was parsed are marked.
Judged(d) == d.halved \/ \A r \in d.rows : r[2] = Status(d.of[1][r[1]], d.of[2][r[1]])
FilledAsAsked(d) == Read(d) => d.of = <<d.capA, d.capB>> /\ d.rows = DiffRows(d)

DiffInv == diff \in DiffType /\ Judged(diff) /\ FilledAsAsked(diff)

-------------------------------------------------------------------------------
(* Induction and recursion over the indices of a sequence *)

\* A function that is defined by its value at 0 and from each value for the next exists.
Follows(f, e, n, G) == f[0] = e /\ \A k \in 1..n : f[k] = G[<<f[k - 1], k>>]

-------------------------------------------------------------------------------
(* Views *)

\* The fields of a PDO.
FieldLengths == 0..255
PdoState == [at : 0..255, dlc : 0..8, done : BOOLEAN, out : Seq(Nat \X Nat)]

\* The fields among the first k that lie within the frame.
FieldsUpTo(dlc, lengths, k) ==
  {j \in 1..k : lengths[j] > 0 /\ FieldEnds(lengths)[j] <= 8 * dlc}

\* No field that starts within the frame ends where a byte cannot say.
EndsFit(dlc, lengths) ==
  \A k \in 1..Len(lengths) :
    FieldEnds(lengths)[k - 1] <= 8 * dlc => FieldEnds(lengths)[k] < 256

\* What decode_pdo has after k objects of the mapping.
PdoGood(dlc, lengths, k, state) ==
  /\ state \in PdoState /\ state.dlc = dlc
  /\ ~state.done => state.at = FieldEnds(lengths)[k] /\ FieldEnds(lengths)[k] <= 8 * dlc
  /\ state.done => FieldEnds(lengths)[k] > 8 * dlc
  /\ Len(state.out) = Cardinality(FieldsUpTo(dlc, lengths, k))
  /\ \A i \in FieldsUpTo(dlc, lengths, k) :
       state.out[Cardinality(FieldsUpTo(dlc, lengths, i))] = <<FieldEnds(lengths)[i - 1], lengths[i]>>

\* The page has a frame as it was decoded.
PdoInv ==
  /\ pdo.dlc \in 0..8 /\ pdo.lengths \in Seq(FieldLengths)
  /\ pdo.out = PdoDecoded(pdo.dlc, pdo.lengths)

SdoRead(cs, type, len, toggle, last) ==
  [cs |-> cs, type |-> type, len |-> len, toggle |-> toggle, last |-> last, copied |-> Min({len, 4})]
SdoOf(cs, type, len, toggle, last) ==
  [cs |-> cs, type |-> type, len |-> len, toggle |-> toggle, last |-> last]

SdoInv ==
  \/ sdo = [cs |-> 0, type |-> "none", len |-> 0, toggle |-> 0, last |-> 0, copied |-> 0]
  \/ \E cs \in 0..255 : sdo = SdoDecoded(cs)

\* The windows of the wiggle test.
Bytes == 0..255
WiggleStates == {"idle", "baseline", "waiting", "after", "results"}
Windows == {"baseline", "after"}
StatsType == [dlc : 0..2, seen : [1..2 -> SUBSET Bytes], frames : 0..EnoughFrames]
WiggleType ==
  [state : WiggleStates, before : Seq(Payloads), after : Seq(Payloads),
   collecting : SUBSET {"before", "after"}, timers : SUBSET Windows, count : Nat, start : BOOLEAN,
   done : BOOLEAN, stats : StatsType, candidates : SUBSET (1..2), rows : Nat,
   came : [Windows -> Seq(Payloads)]]

\* What comes is kept where it is counted: in the window that is open.
WindowsKept(w) == w.before = LastFew(w.came["baseline"]) /\ w.after = LastFew(w.came["after"])
ButtonsShown(w) ==
  /\ w.start <=> w.state \in {"idle", "results"}
  /\ w.done <=> w.state = "waiting"
  /\ w.timers = {w.state} \cap Windows
  /\ "before" \in w.collecting <=> w.state = "baseline"
  /\ "after" \in w.collecting <=> w.state = "after"
\* A byte that the first frame had was seen.
StatsKept(w) == \A b \in 1..w.stats.dlc : w.stats.seen[b] # {}

\* A byte has one value in all the frames of a window; how far its values are apart.
Steady(window, b, x) ==
  window # <<>> /\ \A k \in 1..Len(window) : b <= Len(window[k]) /\ window[k][b] = x
Spread(S) == Max({1, Max(S) - Min(S)})
SpreadOf(stats, b) == IF b <= stats.dlc THEN Spread(stats.seen[b]) ELSE 1
ByteFound(w, b, x, y) ==
  IF x = y THEN b \notin w.candidates
  ELSE b \in w.candidates \/ 20 * Abs(x - y) <= SpreadOf(w.stats, b) \/ w.rows = MaxResults
ResultsKept(w) ==
  w.state = "results" =>
    \A b \in 1..2 : \A x, y \in Bytes :
      Steady(w.before, b, x) /\ Steady(w.after, b, y) => ByteFound(w, b, x, y)

WiggleInv ==
  /\ wiggle \in WiggleType /\ WindowsKept(wiggle) /\ ButtonsShown(wiggle) /\ StatsKept(wiggle)
  /\ ResultsKept(wiggle)

\* The monitor's table.
MonRow == [id : MonIds, data : MonData, hidden : BOOLEAN]
MonFrame == MonIds \X MonData
MonEntry == [last : MonData \cup {NoData}, ever : BOOLEAN, row : Nat]
MonitorType ==
  [rows : Seq(MonRow), tracked : [MonIds -> MonEntry], pinned : SUBSET MonIds,
   lastSeen : [MonIds -> MonData \cup {NoData}], baseline : [MonIds -> MonData \cup {NoData}],
   track : BOOLEAN, pause : BOOLEAN, noise : BOOLEAN, changedOnly : BOOLEAN, dlc : 0..1,
   search : 0..2, came : Seq(MonFrame), lapsed : BOOLEAN]

\* The k-th frame is the last of its identifier up to the n-th.
LastOf(came, k, n) == k <= n /\ \A i \in (k + 1)..n : came[i][1] # came[k][1]

\* The log: the latest frames, and what appendLogRow compares with.
RowsLogged(rows, came) ==
  /\ Len(rows) <= MaxRows /\ Len(rows) <= Len(came)
  /\ \A r \in 1..Len(rows) : <<rows[r].id, rows[r].data>> = came[Len(came) - Len(rows) + r]
SeenLogged(came, lastSeen) ==
  \A k \in 1..Len(came) : LastOf(came, k, Len(came)) => lastSeen[came[k][1]] = came[k][2]
Changing(came) ==
  \A j, k \in 1..Len(came) : j < k /\ LastOf(came, j, k - 1) => came[j] # came[k]
LogHidden(m) == \A r \in 1..Len(m.rows) : m.rows[r].hidden <=> ~Found(m, m.rows[r].id)
LogGood(m) ==
  /\ RowsLogged(m.rows, m.came) /\ LogHidden(m)
  /\ ~m.lapsed => SeenLogged(m.came, m.lastSeen) /\ Changing(m.came)

\* Tracking: an identifier's entry and its row.
EntryGood(e, rows, came, id) ==
  IF e.row = 0 THEN \A k \in 1..Len(came) : came[k][1] # id
  ELSE /\ e.row \in 1..Len(rows) /\ rows[e.row].id = id /\ rows[e.row].data = e.last
       /\ \E k \in 1..Len(came) : /\ came[k] = <<id, e.last>>
                                  /\ \A i \in (k + 1)..Len(came) : came[i][1] # id
       /\ ~e.ever <=> \A k \in 1..Len(came) : came[k][1] = id => came[k][2] = e.last
RowsTracked(rows, tracked) == \A r \in 1..Len(rows) : tracked[rows[r].id].row = r
TrackHidden(m) == \A r \in 1..Len(m.rows) : m.rows[r].hidden <=> Hidden(m, m.rows[r].id)
EntriesGood(m) ==
  /\ RowsTracked(m.rows, m.tracked)
  /\ \A id \in MonIds : EntryGood(m.tracked[id], m.rows, m.came, id)
TrackGood(m) == EntriesGood(m) /\ TrackHidden(m)

MonitorGood(m) == m \in MonitorType /\ (IF m.track THEN TrackGood(m) ELSE LogGood(m))
MonitorInv == MonitorGood(monitor)

\* The rows of the log that stay when one more comes.
RowsKept(rows) == IF Len(rows) >= MaxRows THEN Tail(rows) ELSE rows
RowsFrom(more, rows, row) ==
  \A r \in 1..Len(more) : more[r] = row \/ \E s \in 1..Len(rows) : more[r] = rows[s]

\* updateTrackingRow: the entry of the identifier.
NextEntry(old, data, l) ==
  IF old.row = 0 THEN [last |-> data, ever |-> FALSE, row |-> l + 1]
  ELSE [old EXCEPT !.last = data, !.ever = old.ever \/ data # old.last]
EntryFollows(entry, old, data, l) ==
  /\ entry \in MonEntry /\ entry.last = data /\ entry.row # 0
  /\ old.row = 0 => entry.row = l + 1 /\ ~entry.ever
  /\ old.row # 0 => entry.row = old.row /\ (entry.ever <=> old.ever \/ data # old.last)

\* Its row, and the others'.
RowPut(more, rows, at, row) ==
  /\ more \in Seq(MonRow) /\ Len(rows) <= Len(more) /\ at \in 1..Len(more) /\ more[at] = row
  /\ \A r \in 1..Len(rows) : r # at => more[r] = rows[r]
  /\ \A r \in 1..Len(more) : r = at \/ r \in 1..Len(rows)

\* The rows are those that were there, but for what is hidden.
SameRows(more, rows) ==
  /\ more \in Seq(MonRow) /\ Len(more) = Len(rows)
  /\ \A r \in 1..Len(rows) : more[r].id = rows[r].id /\ more[r].data = rows[r].data
HidesThose(more, ids) == \A r \in 1..Len(more) : more[r].hidden <=> more[r].id \in ids

\* What else the controls change leaves the table good.
SameMonitor(m, then) ==
  /\ then \in MonitorType /\ then.rows = m.rows /\ then.tracked = m.tracked /\ then.came = m.came
  /\ then.lastSeen = m.lastSeen /\ then.lapsed = m.lapsed /\ then.track = m.track

\* onSearchChanged in the log: every row is found or hidden.
Searched(m) == [m EXCEPT !.rows = WithHidden(m.rows, {id \in MonIds : ~Found(m, id)})]

-------------------------------------------------------------------------------
(* The signal graph *)

TraceNames == {<<1, "s">>, <<1, "t">>, <<2, "s">>, <<1, "byte">>, <<2, "byte">>, <<3, "byte">>}
AliasNames == {<<0, "s">>, <<0, "t">>, <<1, "byte">>, <<2, "byte">>, <<3, "byte">>}
GraphLabels == {NoLabel, "x", "y"}
GraphTrace == [of : TraceNames, label : GraphLabels, points : Seq((-2)..2)]
GraphMark == [time : Int, at : Int, early : BOOLEAN]
SavedTrace == [of : TraceNames, label : GraphLabels]
GraphSaved == [list : Seq(SavedTrace), aliases : [AliasNames -> GraphLabels], dbc : BOOLEAN]
GraphType ==
  [traces : Seq(GraphTrace), markers : Seq(GraphMark), dbc : BOOLEAN, first : BOOLEAN,
   start : GraphTimes, maxT : (-2)..2, timer : BOOLEAN, aliases : [AliasNames -> GraphLabels],
   saved : GraphSaved, missed : BOOLEAN]

\* A trace, drawn or saved, has no label, that of its signal, or shares the signal's name.
LabelGood(list, aliases, i) ==
  \/ list[i].label = NoLabel
  \/ list[i].label = aliases[Canonical(list[i].of)]
  \/ \E j \in 1..Len(list) : j # i /\ Canonical(list[j].of) = Canonical(list[i].of)
LabelsGood(list, aliases) == \A i \in 1..Len(list) : LabelGood(list, aliases, i)
TracesGood(list) ==
  /\ Len(list) <= MaxTraces
  /\ \A i, j \in 1..Len(list) : list[i].of = list[j].of => i = j
  /\ \A i \in 1..Len(list) : Len(list[i].points) <= MaxPoints
\* Only what was marked before a frame is away from its points: the origin came later.
MarkersGood(markers, first, start) ==
  \A k \in 1..Len(markers) :
    markers[k].early \/ (~first /\ markers[k].time - start = markers[k].at)
GraphGood(g) ==
  /\ g \in GraphType
  /\ TracesGood(g.traces)
  /\ g.timer <=> Len(g.traces) # 0
  /\ MarkersGood(g.markers, g.first, g.start)
  /\ ~g.missed => LabelsGood(g.traces, g.aliases) /\ LabelsGood(g.saved.list, g.saved.aliases)
GraphInv == GraphGood(graph)

\* What drawing a trace leaves alone.
SameGraph(g, next) ==
  /\ next.markers = g.markers /\ next.dbc = g.dbc /\ next.first = g.first /\ next.start = g.start
  /\ next.maxT = g.maxT /\ next.aliases = g.aliases /\ next.saved = g.saved
  /\ next.missed = g.missed

\* The traces of a list, with one more.
OneLonger(list, trace, next) ==
  /\ Len(next) = Len(list) + 1 /\ next[Len(list) + 1] = trace
  /\ \A i \in 1..Len(list) : next[i] = list[i]

\* addTrace draws one more or nothing, and keeps the graph good.
OneDrawn(g, of, next) ==
  \/ next = g
  \/ /\ Len(next.traces) = Len(g.traces) + 1
     /\ next.traces[Len(g.traces) + 1].of = of
     /\ \A i \in 1..Len(g.traces) : next.traces[i] = g.traces[i]

\* Traces drawn one after the other: a graph that had none has at most as many as were asked
\* for, and if as many, those.
DrawnUpTo(g, list, k, x) ==
  /\ GraphGood(x) /\ SameGraph(g, x)
  /\ Len(g.traces) = 0 =>
       /\ Len(x.traces) <= k
       /\ Len(x.traces) = k => \A i \in 1..k : x.traces[i].of = list[i]

\* The label a restored trace gets: of its signal, or else of its place in the list.
LabelOf(list, aliases, of, i) ==
  IF aliases[Canonical(of)] # NoLabel THEN aliases[Canonical(of)] ELSE list[i].label

Relabelled(list, aliases, traces, next) ==
  /\ Len(next) = Len(traces)
  /\ \A i \in 1..Len(traces) : /\ next[i].of = traces[i].of
                               /\ next[i].label = LabelOf(list, aliases, traces[i].of, i)

\* Traces that got new points are the same traces.
SameNames(list, next) ==
  /\ Len(next) = Len(list)
  /\ \A i \in 1..Len(list) : next[i].of = list[i].of /\ next[i].label = list[i].label

\* renameTrace names the trace and, in the window, its signal.
Renamed(list, aliases, i, l, next, given) ==
  /\ next = [list EXCEPT ![i] = [list[i] EXCEPT !.label = l]]
  /\ given = [aliases EXCEPT ![Canonical(list[i].of)] = l]

-------------------------------------------------------------------------------
(* Views *)

ViewsInv ==
  /\ On("monitor") => MonitorInv
  /\ On("wiggle") => WiggleInv
  /\ On("sdo") => SdoInv
  /\ On("pdo") => PdoInv
  /\ On("diff") => DiffInv
  /\ On("graph") => GraphInv
==============================================================================
