# SocketSpy: formal models, checks and proofs

TLA+ models of SocketSpy's concurrent and protocol-bearing parts and of the pages of
its main window, the TLC runs that check them on small instances, and machine-checked
proofs about the lock-free frame ring, on which the rest stands, the capture thread that
fills it, the UDS transport, its clients, the ECU simulator and the replay panels. Every
action names the function it models;
`PROJECT.json` maps every definition to its lines.

How to run: `tlc -workers 2 -config MCX.cfg MODULE.tla` for a run (`PROJECT.json` names its
module, `MCX` or, where no constant needs a definition, `X`), `tlapm XProofs.tla` for the
proofs about `X`.

## The system

SocketSpy is a CAN bus tool for Linux: a core that talks SocketCAN, protocol
libraries, a Qt GUI in which most of the logic lives, a Lua engine, a DBC parser, an
MCP server. Three kinds of concurrency occur: threads (capture, decode, replay,
script and its watchdog), the GUI event loop (handlers run to their end, but
frames, timers and queued signals interleave, and a signal calls its slots inside
the handler that emits it), and other nodes on the bus.

| component | state | operations | talks to | hard behaviour |
|---|---|---|---|---|
| core ring buffer | slots, head, tail | push, pop, size | capture thread, decode thread | lock-free, stale loads, index wrap |
| core io_uring capture | socket, ring, thread, two flags, counters, posted contexts | start, stop, run, destructor | kernel, ring buffer | ownership of contexts, stop against start, teardown |
| core socket | descriptor, filters | open, send, receive, filter | kernel | failures |
| ISO-TP library | reassembly buffer, next sequence number | feed, reset, encode | UDS | loss, repetition, wrap |
| UDS transport (gui) | reception, transmission, block, three timers, capture thread | sendRequest, frame received, timeouts, setInterface | panel, scanner, security, capture thread | flow control, late answers, reentrant requests |
| UDS panel, SecurityAccess | pending label, buttons, seed and key | buttons, response, error | transport | routing of answers among clients |
| UDS scanner | SID, rows, two timers | Scan, Stop, step | transport | shares it with the panel |
| ECU simulator | session, seed, reassembly, answer in progress, timer | frame, timer, setConfig | bus | interrupted answers, replayed keys |
| capture thread and trigger (gui) | socket, trigger, pre-trigger buffer | run, stop, setTrigger | GUI thread | trigger re-armed while it fires |
| replay, timed replay | frames, worker, position, speed | play, pause, stop, seek | worker thread, bus | lost wake-up, stale finished signal |
| Lua engine, script panel | Lua state, abort flag, watchdog | run, abort, reset | script thread, bus | abort lost, watchdog of an earlier run |
| main window, recorder | interface, capture, recording, status line | record, stop, change interface or bitrate, open a project | capture thread, every panel | handlers that wait for the capture thread, dialogs that run the event loop |
| ELM327 bridge | link, initialisation step, half a line | connect, disconnect, timer, bytes received | serial line, Bluetooth | a link that fails inside the call that opens it |
| updater, dialog | version, reply, file | check, download, apply, close the dialog | network, file system | a dialog that goes before its reply comes |
| J1939, NMEA 2000, CANopen | sessions by source | feed, upload, download, tick | bus | duplicates, interleaved sessions, 8-bit sums |
| DBC, DBC builder | syntax tree; form, grid, table, signal edited | parse, decode, validate, write; drag, add, edit, delete, load | files, other panels | bit extraction; a row index kept over a deletion |
| MCP server and tools | tool table | one request at a time | stdio, socket | errors in requests |
| DoIP, XCP | connection, command | connect, request, response | TCP, bus | timeouts |
| transmit, fuzzer, bisect | fields, timers, interval | start, stop, tick, load, halve | bus | fields edited while a timer sends; search bounds |
| CAN simulator, profiles, editors | profile, its file, waveforms, timers; tree, ECU list | start, stop, edit, save, delete, animate | bus, files | a file, an editor and a running simulation of one profile |
| signal detective, verification, validator, range scan | snapshots, run in flight, findings, worker | start, timer, frame, DBC loaded | frame stream, worker thread | runs superseded, DBC replaced meanwhile |
| monitor, graph, comparison | rows, traces, markers, filters | frame, filter, pin, rename, restore | frame stream, DBC, project | views kept up to date from two sides |
| project, registry | path, settings, recent list | new, open, save, save as | files, every panel | a step of several that fails |
| other panels (statistics, bus load, errors, heat map, temporal, protocols, MCP) | tables | frame, timer, clear | frame stream | display |

What makes each correct:

- ring: what push accepted pop returns once, whole, in order; no slot is written
  while it is read.
- io_uring capture: a context belongs to the kernel, to a completion or to run(),
  never to two of them; no frame is lost uncounted; stop returns and leaves nothing.
- transport: a message is handed over whole or not at all, never spliced; every
  request gets a response or an error; no wait without a timer.
- panel and scanner: what is shown answers what was asked; a scan ends and covers
  every SID; buttons come back.
- ECU simulator: serves whole requests only; answers are heard whole; a key needs a
  fresh seed.
- replay: stop always ends the worker, each frame is heard once and in order, the
  buttons follow the playback.
- Lua engine: every run ends, a Stop heard by a running script is not lost, threads
  never outlive their engine.
- main window: the log holds the frames of the bus in order; the trigger is armed when
  it is shown armed and fires once; no handler waits for ever.
- links (ELM327, DoIP, XCP, J1939, CANopen): what is reported comes whole from one link,
  one message, one exchange.
- senders and simulators: what is sent is what the page shows; a profile, its file and
  the simulation of it agree.
- verdicts, views and documents: an answer is the one the frames support, a table or a
  curve shows what came, a project or a DBC is what was edited.

## Modules

| module | models | role |
|---|---|---|
| `FrameQueue` | what the ring promises | abstract specification: a bounded queue |
| `RingBuffer` | `core/src/ring_buffer.cpp` | implements `FrameQueue` (`Fifo == INSTANCE FrameQueue WITH queue <- Unread`) |
| `RingBufferProofs` | | theorems of `RingBuffer` |
| `IoUringCapture` | `core/src/io_uring_capture.cpp` | the capture thread, its owner, the kernel; uses `FrameQueue` for the ring |
| `IoUringCaptureProofs` | | theorems of `IoUringCapture` |
| `IsoTp` | `protocols/isotp/src/isotp.cpp` | frames by PCI type, and the library's receiver |
| `IsoTpProofs` | | lemmas about pieces of messages and frames on their way, used by the two below |
| `UdsTransport` | `gui/src/uds_transport.cpp` | the transport's handlers as operators from a record of members to an outcome |
| `UdsTester` | transport + client + ECU + bus | composition |
| `UdsTesterProofs` | | theorems of `UdsTester` |
| `UdsPanel`, `UdsScanner` | `gui/src/uds_panel.cpp`, `uds_security.cpp`, `uds_scanner.cpp` | the clients' handlers |
| `UdsBench` | one transport, its three clients, an ECU | composition, through `T == INSTANCE UdsTransport` |
| `UdsBenchProofs` | | theorems of `UdsBench` |
| `UdsEcuSim` | `gui/src/uds_ecu_sim.cpp` | the simulated ECU, heard by `IsoTp`'s receiver |
| `UdsEcuSimProofs` | | theorems of `UdsEcuSim` |
| `Playback` | what a player of a trace promises its listeners | abstract specification |
| `Replay` | `gui/src/replay_panel.cpp` | panel and worker thread; implements `Playback` (`Heard`) |
| `TimedReplay` | `gui/src/timed_replay_panel.cpp` | timer-driven replay; implements `Playback` (`TimedHeard`) |
| `Replays` | both panels on one GUI thread | composition |
| `ReplayProofs` | | theorems of `Replays` |
| `CanCapture` | `gui/src/can_capture.cpp`, `trigger_config.h` | the capture thread and its trigger |
| `Workbench` | `gui/src/main_window.cpp`, `main_window_actions.cpp`, `trigger_panel.cpp`, `log_recorder.cpp` | the window around `CanCapture` |
| `Session` | | the page in use and its inputs; extended by all pages |
| `ScriptPage` | `scripting/src/lua_engine.cpp`, `scripting_panel.cpp` | script, watchdog, panel |
| `UpdatePage` | `gui/src/updater.cpp`, `update_dialog.cpp` | updater and dialogs |
| `Elm327Page`, `DoipPage`, `XcpPage` | `elm327_bridge.cpp`, `elm327_panel.cpp`; `doip_panel.cpp`; `xcp_panel.cpp` | links |
| `Protocols` | `j1939_transport.cpp`, `canopen_sdo.cpp`, `canopen_pdo.cpp` | reassembly and decoding, against what the standards mean |
| `SendPages` | `transmit_panel.cpp`, `fuzzer_panel.cpp`, `bisect_panel.cpp` | senders |
| `SimPage` | `can_simulator.cpp`, `simulator_panel*.cpp`, `sim_profile.cpp` | simulator, profiles, files |
| `EditPages` | `sim_profile_editor.cpp`, `simulator_panel_ecu.cpp` | editors of profiles and ECUs |
| `DetectPages` | `signal_detective_panel.cpp`, `verify_signal_panel.cpp`, `signal_validator_panel.cpp`, `range_state_panel.cpp` | verdicts |
| `MonitorPage`, `GraphPage` | `monitor_panel*.cpp`; `signal_graph.cpp` | views |
| `ProjectPages` | `project.cpp`, `project_registry.cpp`, `main_window_actions.cpp`, `diff_panel.cpp` | projects; comparison of captures |
| `BuilderPage` | `dbc_builder_panel*.cpp`, `dbc_signal.cpp` | the DBC under construction |
| `Pages` | `main_window.cpp` | composition of `Workbench` and all pages |
| `PagesInvariants` | | the inductive invariants of `Pages` |
| `PagesProofs` | | theorems of `Pages`: the bench and every page |

`MC*` modules give the constants of a run that a `.cfg` cannot write. Operators named after
a plausible bug ("A plausible bug: ...") are mutants: each property is known to fail when
the operator they precede is replaced by them, so none holds by the shape of the model.

### How the state corresponds to the code

**RingBuffer.** `head`, `tail`, `storage` are the members. `push` is three steps,
because another thread may run between them: load both indices and start writing the
slot (`PushBegin`, or `PushRefused`), finish writing it (`PushWrite`; until then the
slot holds `Torn`, since the 80 bytes of a frame are not written atomically), store
head (`PushPublish`); `pop` likewise. Acquire and release are modelled by what they
allow: a load of the other thread's index may return any value that index has had
since this thread's last load (`Loads`, `tailSeen`, `headSeen`), and what was written
before a release store is seen after the load that returns it. Indices have
`IndexBits` bits and wrap.

**IoUringCapture.** `thread` says where `run()` is; each value is a place where the code may
be interrupted. `process` becomes `terminated` where C++ calls `std::terminate` (a joinable
thread assigned to or destroyed). A frame is its position on the bus; `content` is what the
kernel last wrote into a context, so that a context posted too early would show as a frame
overwritten. `KernelCompletesEmpty` is a receive that completes without data. `StartFails`
is a start() that opens no capture, also while the thread runs, which then goes on without
the socket; one in which `io_uring_queue_init` fails under a running thread is left out.
`Decode` is the thread that pops from the ring. `inHand` is the completion between
`io_uring_cqe_seen` and the repost.

**UdsTransport.** `tp` is the record of the members (`m_waitingResp`, `m_expectedLen`,
`m_rxBuf`, `m_waitingFc`, `m_txPayload`, `m_txOffset`, `m_bsRemaining`, ...), and three
timers that are running or not. Bytes are abstracted to pieces: a message that takes n
consecutive frames has the pieces 0..n, and `rxBuf` is the sequence of pieces
received. This keeps what the properties tell apart (whose piece, in which order) and
drops lengths and padding. `can_open` or `can_send` may fail at any frame of a burst (`FailsAt`).
Handlers are operators that return the members they leave,
the frames they sent, the errors and the responses they emitted. `sendNextCf` calls
itself while nothing separates the frames; `Burst` is how many frames that sends.
`AssembleAndEmit` runs the client's slot between the two halves of the function, as
the direct signal connection does.

**UdsTester.** `wire` holds frames to the ECU, `inbox` frames the capture thread has
queued to the GUI thread (they stay queued when the interface changes). The ECU is
any that follows ISO 15765-2: it grants blocks of any size in `BlockSizes`, asks to
wait, overflows, answers at any time or never.

**UdsBench.** `panel` and `scan` are the members of the clients. A signal of the
transport runs the slots in the order they were connected, the panel's first.
Requests and responses take single frames here (`CfCount` is 0 for all), because what
is checked is who hears which answer; `UdsTester` checks the rest. SIDs are numbers,
since `sid | 0x40` is arithmetic on them. Two services that `Clear DTC` and `Read DTC`
ask for differ in nothing the clients look at: one request stands for both.

**UdsEcuSim.** `sim` holds the members; the table of DTCs is one `testFailed` bit,
the table of identifiers one value. Each frame the simulator sends is fed to an
`IsoTpReceiver` (`rx`), in the step that sends it. `ledger` keeps what the properties
need: the requests dispatched by the last step, seeds issued and keys accepted.

**Replay.** `worker.at` says where `run()` is, `worker.state` is `m_state`. Testing
`m_state` and entering `wait()` are two steps (`HeldGoes`, `Parks`): a wake-up that
comes between them finds nobody waiting (`Woken`), because `stop()` and `play()` do not
take the mutex. A handler that joins the worker is two steps as well, up to `wait()`
(`StopBegins`, `SeekBegins`, ...) and after it (`JoinReturns`); in between the GUI
thread handles nothing (`gui.doing`). `events` is the GUI thread's queue; signals stay
in it when their worker is deleted. Frames are positions in the trace; `ledger` keeps
what the listeners heard of the last playback and whether one of the two races below
happened.

**TimedReplay.** `timed` is the record of the members, `timer` whether the single-shot
timer is armed. The handlers are operators from the members to the members they leave
(`Scheduled` is `scheduleNext`, `Shown` is `updateButtons`). Frames are their
timestamps, because a tick emits all frames that share one (`Due`).

**CanCapture, Workbench.** `capture.at` is the place in `run()`: it copies the trigger's
configuration under the mutex, matches without it and clears the flag without it
(`can_capture.cpp:97`), and `setTrigger` may come in between. `queue` holds what the thread
posted to the GUI thread, with `writes` the number of recorder connections at the time:
onStartRecording connects once more each time. A handler that stops the capture waits
(`gui.waits`) and handles nothing meanwhile; what it does afterwards is `SetupCapture`. A
file dialog runs the event loop in the middle of a handler: `dialogs` is the stack of
handlers that are inside one. `status.fps` is the smoothed rate in units of 0.3, which is
what decides LIVE. `ledger` notes whether the trigger is still that of the panel (`kept`)
and whether a recording was opened over a running one (`doubled`).

**Pages.** The pages of the sidebar share the frame stream, the DBC and the project, which
each gets as inputs; they never call each other. A behaviour of `Pages` therefore keeps to
one page (`page`), and the others are `Shut`. Most actions are a widget's handler or
the slot of a frame (`Input`, bounded by `MaxInputs`), the others are timers, threads and
posted events (`Step`). Each page's record holds the members that decide anything and,
beside them, what the properties need to know of the past; these fields are named in the
module. In particular:
- `ScriptPage`: `worker` and `watchdog` are the places of the two threads; a script runs
  through its hook any number of times and ends when it pleases, unless aborted. A script
  that catches the hook's error with `pcall` can go on for ever: it is left out.
- `UpdatePage`: a manifest is the version it names; a damaged one never has a signature
  that verifies, which is what the cryptography promises.
- `Elm327Page`, `DoipPage`: bytes carry the connection they came over; a message or line is
  two pieces, which may come apart.
- `XcpPage`: a command is sent before the receiving socket is opened; answers may fall
  between.
- `Protocols`: a J1939 message has two packets of two sources; SDO command bytes range over
  all 256 values and are compared with the set of what a server can mean (`SdoMeant`); a PDO
  mapping is the sequence of its bit lengths, each 0 to 255 (`Mappings`), added up in a byte
  as the code does.
- `SimPage`: `sim.current` is the profile in the panel, `sim.live` the one in the simulator,
  `disk` the files.
- `EditPages`: an item holds what the form makes of its texts (`Parsed`: an ID is read with
  base 0, or is 0; a row of a scenario that is not numbers is left out), and the form shows
  what it makes of the item (`FormOf`). `entered` is the text the user last put in each field.
- `DetectPages`: the frames of the wiggle test are byte sequences (`Payloads`), of which a
  window keeps the last `MaxSnapshot`; a byte needs a score above 5 %, and the best
  `MaxResults` rows are shown, those of other identifiers among them. `came`, `heard` and `asked` record what the world said, apart from what the
  page collected.
- `MonitorPage`: `came` is every frame that passed the gates. `GraphPage`: points carry the
  frame's time; `MaxPoints` stands for `kMaxSeriesPts`.
- `GraphPage`: a DBC may lack a frame's message (`DbcMsgs`), which is then traced by its bytes.
- `ProjectPages`: the settings are a filter (which stands for trigger and aliases too), the
  DBC, the log path, the interface and the bit rate. The last two are put in use by combos,
  and a combo that does not list a value, or shows it already, does nothing. Interfaces come
  and go (`Offers`), can0 may refuse a rate, a file may be written in part. `edited` is what
  changed since the file was read or written, `lost` what opening could not put in use.
- `BuilderPage`: `others.told` is the copy of the panels that `dbcUpdated` reaches,
  `others.protocols` that of the Protocols page, which hears of a file only; `since` is
  which of the two came last.

## Runs

| run | shows | states | bounds |
|---|---|---|---|
| `ring_buffer` | queue refinement, no race, the proofs' invariant | 24 301 | capacity 3 rounded to 4, 3-bit indices: they wrap every 8 pushes; two frames |
| `io_uring` | ownership, accounting, order, teardown, stop returns | 72 325 | 2 contexts, ring of 2, 4 frames, 2 starts: both contexts in flight, a full ring, a restart |
| `uring_stop` | violation: stop() does not always block until the thread exits | | as above |
| `uds_tester` | nothing spliced, no endless wait | 314 564 | 3 requests, 1 configuration, 1 trouble; messages of 0, 1, 2 consecutive frames; sequence numbers modulo 2, so that a stale piece can have the number expected; a second configuration takes longer than is reasonable with 3 requests (with 2 requests, 2 configurations and 2 troubles `TesterInv` was checked too), and the theorems are for any number |
| `uds_answered` | violation: a chained request gets no answer | | 2 requests |
| `uds_bench` | shared transport: scan, buttons, what rows say | 86 631 | 3 clicks, 1 trouble, 2 SIDs (0x19, which the panel also sends, and 0x59, which `sid \| 0x40` leaves alone), 2 identifiers |
| `uds_unlocked` | violation: Unlocked shown without an accepted key | | as above |
| `ecu_sim` | whole requests, whole answers, one key per seed | 495 925 | 4 requests, 2 reconfigurations, 1 lost or repeated frame |
| `replays` | frames in order, buttons, joins return, timer and playback | 312 924 | traces of 3 frames and 5 clicks in both panels together: play, pause, resume, seek and stop of one playback, or two seeks; timed traces with a burst in the middle and at the end |
| `pages` | logs, trigger, jobs, links, senders, simulators, verdicts, views, documents; every wait ends | 407 320 | bench: 2 frames, 3 clicks, a physical and a serial interface; each page 1 to 6 inputs (`MCInputs`), 2 identifiers, 2 signals, 2 items of what it keeps |
| `recording_stops` | violation: stopping a recording disconnects the frame counter | | the bench alone, 2 clicks |
| `profile_persists` | violation: a saved profile has another identifier | | the simulator's page alone |

Why the bounds are enough: for the pages, a hazard needs one thing going on (a run, a
recording, an edit, a half-received message), one that interferes and one that shows it,
which is three inputs; pages where a frame or a DBC must come first have four to six. For
the rest, the interesting cases need two messages of one actor and one
of another (a new request in the middle of the old one's transmission, a late answer
in the middle of the next), sequence numbers that wrap within one message, one block
that ends before the message, and one failure at any point. The runs contain all of
these; each mutant is found within them. A sequence number modulo 2 rather than 16
only makes confusion likelier.

`CHECK_DEADLOCK FALSE` stands where the system really may stop: the object destroyed
(`io_uring`), the user's clicks used up and everything at rest (`uds_tester`,
`uds_bench`, `replays`, `pages`). The other two passing runs check for deadlock.

`MaxFrames`, `MaxStarts`, `MaxRequests`, `MaxConfigs`, `MaxClicks`, `MaxReplayClicks`,
`MaxTimedClicks`, `MaxTroubles`, `MaxInputs`, `MaxCapture`, `MaxItems` bound what the
environment does, never what the code does; `MaxRows`, `MaxTraces`, `MaxRecent` and
`MaxPoints`, `MaxSnapshot` and `MaxResults` stand for limits of the code (2000 rows, 8 traces,
200 frames of a window, 30 results and so on) and are reached; `Payloads` (constant bytes, steps of
1 and of 250, so that a move of 1 is below 5 % of the range once 250 was seen), `Mappings` (one to
three fields of 0, 1, 8, 32 or 255 bits, which wrap the position) and `Offers` (three sets of
interfaces, the last with a serial adapter) are what the world may bring; `Backlog` bounds the ECU of
`UdsBench`, which forgets the oldest requests. A trouble is a lost or repeated frame, an
FC.Wait, a response pending or a failure of can_open.

### Fairness

- `IoUringCapture`: weak fairness of `Run` (the operating system schedules the
  thread; `io_uring_wait_cqe_timeout` returns after 5 ms at the latest, so some step
  is always enabled) and of `StopJoins` (join returns once the thread has exited).
  None of the kernel, the decode thread or the owner.
- `UdsTester`, `UdsBench`: weak fairness of `Loop`, the event loop as a whole: while a
  frame is queued or a timer is due, Qt handles something. Not of the user, the ECU
  or the capture thread. Nothing says which handler is served first, so a timer and a
  queued frame race.
- `UdsEcuSim`: weak fairness of the repeating 1 ms timer.
- `Replays`: weak fairness of the worker thread (`WorkerRuns`: its sleeps are bounded by
  the trace), of the join (`JoinReturns`) and of the timed replay's timer (`Tick`), which
  fires when the GUI thread is not blocked. None of the user, and none of the queued
  signals: they may be late.
- `Pages`: weak fairness of the capture thread, of the handler that waits for it, of the
  event loop's posted events and of the two status timers (the bench); of the script's two
  threads while something remains for them to do, not of the script itself; of the XCP
  worker, whose socket has a receive timeout; of the timers of the ELM327 bridge, the wiggle
  test and a verification; of the scan's worker. None of the user, the bus, the network.

## Proofs

`RingBufferProofs` proves, for every capacity that is a power of two, every index
width, every set of frames (the assumptions `CapacityAssumption`, `FrameAssumption`
of `RingBuffer`; TLC evaluates them on every run):

- `TypeCorrect`: `Spec => []TypeOK`
- `InvariantHolds`: `Spec => []IInv`
- `RaceFreedom`: `Spec => []NoSlotRace`
- `RingImplementsQueue`: `Spec => ImplementsFrameQueue`

`NoSlotRace` is not inductive: it says nothing of why the two threads' slots differ.
The strengthening `IInv` is
  - `IndicesInOrder`: going round the index range one meets the producer's view of
    tail, tail, the consumer's view of head, and head, in this order and within one
    capacity. It is why `head - tail == capacity` and `head == tail` are exact tests
    although the views are stale and the indices wrap;
  - `InFlight`: what push and pop know between their accesses;
  - `PublishedWhole`: slots between tail and head hold whole frames.

The arithmetic of wrapping indices is proved first, as lemmas on `Distance`, `Plus`
and `SlotOf` (two indices less than a capacity apart lie in different slots). The proof
that a step preserves `IInv` has one step per action; race freedom follows from
`IInv` because during a write the distance from tail to head is below the capacity
and during a read it is not zero. The refinement maps `queue` to the slots between tail
and head: `PushPublish` is `Enqueue`, `PopRelease` is `Dequeue`, every other step
stutters, for which `IInv` must show that writing an unpublished slot changes no
published one.

`ReplayProofs` proves of `Replays`, for traces of every length, every set of timed
traces and any number of clicks (`ReplayAssumption`, `TimedAssumption`):

- `TypesCorrect`: `Spec => []TypeOK`
- `PlayingShown`: `Spec => []PlayingIsShown`
- `TimerCorrect`: `Spec => []TimerDrivesPlayback`
- `TimedImplementsPlayback`: `Spec => TimedReplayIsPlayback`
- `ReplayImplementsPlayback`: `Spec => ReplayIsPlayback`

Neither invariant is inductive. For the buttons, `ReplayInv` adds `FinishedLast` (no
`finished` of the present playback is queued while its worker is in the loop, and no queued
signal is of a later playback) and `ButtonsFollow` (what the buttons are when the worker is
paused, too, and that only a handler that waits has told it to stop). For the types,
`WithinTrace`: the loop's head alone tests for the end of the trace. For the timer,
`TimedButtons`: Play is offered only with a trace, a paused trace has a frame to come. The
refinement by the Replay panel needs `OrderInv`: the last frame heard, the queued signals
and the worker are one line, in which each follows the one before it (`Follows`: the next
frame of the same playback, or its end, and nothing of it after that, or a later playback).
A signal handled is taken from one end of the line and one sent added at the other; a
`finished` in between may be dropped, because what follows it is of a later playback. The
refinement by the timed replay needs `HeardSoFar`: what was heard ends just before the next
frame, or, at the first frame, the session was not heard yet or heard to its end; and that a
tick emits between one frame and those that are left (`DueIsWithinTrace`).

`IoUringCaptureProofs` proves of `IoUringCapture`, for any number of contexts, frames and
starts and any capacity of the ring:

- `OneOwnerPerContext`: `Spec => []ContextsOwnedOnce`
- `NoFrameUncounted`: `Spec => []FramesAccounted`
- `FramesStayInOrder`: `Spec => []FramesInOrder`
- `JoinLeavesNothing`: `Spec => []JoinedLeavesNothing`
- `DestinationIsQueue`: what the thread pushes and the decoder pops is a behaviour of
  `FrameQueue`

The strengthening `CaptureInv` adds `HandFollowsThread` (the completion in hand is there
exactly between seeing it and reposting its context, and nothing is posted before the
thread submits), ownership told of the posted set, the completion queue and the hand apart
(`Owned`), and for the order that the frames of the completions, in the order of the
queue, are all later than those delivered and dropped (`QueueOrdered`, `HandOrdered`): a
context may be posted and completed again while others wait. Counting needs lemmas on how
the number of completions with data changes when one is added or taken.

`UdsTesterProofs` proves of `UdsTester`, for any messages with any numbers of consecutive
frames, any modulus of the sequence numbers, any block sizes and any number of requests,
configurations and troubles (`MessageAssumption`, `TransportAssumption`,
`TesterAssumption`):

- `TesterInvariant`: `Spec => []TesterInv`
- `EveryWaitTimed`: `Spec => []NoUntimedWait`
- `OnlyWholeResponses`: `Spec => []ResponsesWhole`
- `OnlyWholeRequests`: `Spec => []RequestsWhole`

The argument is not about sequence numbers, which repeat, but about streams. What a
receiver has of a message, followed by the frames on their way to it, is one sequence
(`Stream`); frames leave it at the front, may vanish anywhere, and are appended by the
sender. `InStep` says that in this sequence whatever follows a first frame, up to the next
first frame, is of its message and of ever later pieces (`Ordered`), and that its last first
frame is of the message the other end is sending, with no piece beyond those sent (`Upto`).
Losing a frame keeps this unless it is a first frame with another one before it, which is
what `headless` excludes, and nothing weaker would do. A receiver that has as many
pieces as the message has, in rising order and none beyond the last, has them all
(`RisingFull`). `IsoTpProofs` has these lemmas once for both directions; the other half of
the proof is one lemma per handler of `uds_transport.cpp`, which says which frames it sends
and which of five things becomes of the reception (`Receives`). `Timed` is `NoUntimedWait`
as it holds of every record a handler leaves; `ReceptionOK` says that a reception that has
begun is waited for and lacks its last piece, so that the test `size >= expected` is met
by equality.

`UdsBenchProofs` proves of `UdsBench`, for every sequence of SIDs and identifiers, any
answers and any number of clicks and troubles (`SidsAssumption`, `DidsAssumption`,
`TransportAssumption`):

- `ScanGoesOn`: `Spec => []ScanNeverStuck`
- `EverySidHasRow`: `Spec => []NoSidSkipped`
- `SupportedRowsTrue`: `Spec => []SupportedIsTrue`

`BenchInv` adds what holds of the scanner between its handlers (`ScanKept`: a step is due
only in a scan, and only when the current SID has its row) and that no queued response
says of a service what is not so (`InboxTrue`): a response to anybody may end the wait of
the scanner, but none makes it call a service supported that is not.

`UdsEcuSimProofs` proves of `UdsEcuSim`, for all requests, answers and seeds, messages of
any number of frames, any number of requests, configurations and troubles
(`AnswersAssumption`: `Responses` holds whatever the services answer, what is written is a
value, a seed is not what answers a key):

- `SimInvariant`: `Spec => []SimInv`
- `OnlyWholeRequestsServed`: `Spec => []ServedWhole`
- `OnlyWholeAnswersHeard`: `Spec => []HeardWhole`
- `SeedUsedOnce`: `Spec => []KeyOncePerSeed`

`SimInv` adds `Follows` (a reception is of the request that is being sent, with no piece not
sent yet, or with the next one delivered twice, whose repetition is out of sequence),
`AnswerFollowed` (the listener is in reception exactly as far as the simulator has sent)
and `SeedsKept` (a seed asked for and not used has had no key).

`PagesProofs` proves of `Pages`, for any interfaces, releases and frames and any number of
frames, clicks and inputs of every page (`CaptureAssumption`, `WorkbenchAssumption`,
`ReleasesAssumption`: versions are positive; `SendAssumption`: some frame can be sent and
the one that does not parse is not among them; `RecentAssumption`, `RowsAssumption`,
`TracesAssumption`: `MaxRecent`, `MaxRows`, which is not zero, and `MaxTraces` are numbers;
`WiggleAssumption`: payloads are one or two bytes and a window has room; `MappingAssumption`:
a mapping is a sequence of lengths that are bytes; `OffersAssumption`: some interface is
always found):

- `TriggerAsShown`: `Spec => []TriggerSound`
- `LogsInOrder`: `Spec => []RecordingSound`
- `JobsAgree`: `Spec => []JobsSound`
- `SendsAsShown`: `Spec => []SendsSound`
- `WiresNotMixed`: `Spec => []WiresSound`
- `VerdictsAreOfFrames`: `Spec => []VerdictsSound`
- `SimulatorsAgree`: `Spec => []SimulatorsSound`
- `DocumentsFollow`: `Spec => []DocumentsSound`
- `ViewsShowWhatCame`: `Spec => []ViewsSound`

The invariant of a page is claimed while the page is in use (`On(p) => ...Inv`); `PageSteps`
says that `page` never changes and that a step of a page is one of its module, so that each
proof is about one module at a time. What each invariant adds to its property:

- `TriggerInv`: while a frame is compared with the copied configuration, or the thread is
  armed, the present arming has not fired (`MatchingUnfired`). The handlers of the window
  all keep the trigger but for those that arm, disarm or restart (`TriggerChanges`).
- `LogInv`: the frames of the log, those posted and those the bus still has are one rising
  line (`LineInOrder`), and the recorder is connected at most once and only while its file
  is open (`ConnectedOnce`): a second connection is what would write a frame twice.
- `ScriptInv`, `UpdateInv`: a worker that has not been heard to the end has its engine, the
  watchdog lives within `run()`, and no Stop was heard before `run()` began; a dialog
  offers a release only while the updater is idle and has its manifest.
- `FuzzInv`, `BisectInv`: the next pattern follows the last one sent; the frame looked for
  lies in the interval that is halved (`NarrowedKeeps`).
- `ElmInv`: what waits in the line buffer is of the present link. `XcpInv`: the worker owes
  the answer to the command that is shown (`XcpOwed`). `DoipInv`: the pieces handled, those
  buffered and those on their way are the ECU's stream, in order and from its beginning
  (`StreamInLine`), wherever TCP cuts it. `BamInv`: an open session has counted the packets
  it was fed, and when all of them are of its message each is in its place (`SessionsOK`);
  a message of two packets that was fed two different ones of its own is whole.
- `VerifyInv`: the condition of the run in flight is met only if a frame said so and, while
  the DBC is the one the places were resolved in, whenever one did; the verdict is then not
  reached yet (`RunInFlight`). That a pass is right needs no such exclusion, because a frame
  is decoded with the DBC of its time. `CheckedInv` is `CheckedSound` and types; `ScanInv`
  has at most one worker, whose job is what was asked for last.
- `SimInv`: unless its waveform was just chosen, the simulation plays points exactly when
  the profile has some or a waveform (`SimFollows`), which is why a value shown as manual is
  the one that is sent; the file is the profile but for the identifier (`FileFollows`,
  `SavedKeeps`). `TreeInv`: `TreeSound`, by items and form, and Remove is offered only with an item
  in the form; that one field's change leaves the other is that what the form shows of an item
  reads as the item again (`Parsed` of `FormOf`), although the text may differ;
  that the list still begins with a node when its first item goes rests on
  `SubtreeEnds`: what follows a subtree is not deeper than its root. `EcuInv`: until a table of the
  dialog is touched, it shows those of the ECU with the empty ones refilled (`DialogShows`).
- `ProjectInv`: `ProjectSound` by settings, the recent projects being distinct by position
  (`ListedOnce`, from which `DistinctCounted` has their number); what moves to the front or
  goes is taken out by its index, as `ProjectRegistry` does. What a combo changes is said once for
  both (`SameFiles`, `SameLosses`), and what opening adds to `lost` is what makes the rest agree
  with the file (`Agrees`, `RateRuns`). `BuilderInv`: `BuilderSound` and the shape of the
  panel's record; the lemmas say of each helper (`Previewed`, `TableRefreshed`, `Published`) what it
  leaves alone, and of the sequence of signals that an update, an append and a removal keep
  names unique. `DiffInv`: when both files are read, the captures are those the rows were
  compared from and the rows are `DiffRows` of them (`FilledAsAsked`).
- `MonitorInv`: in the log, the rows are the last frames that came, hidden unless they are
  found (`LogGood`), and what an identifier had last is what its last frame says
  (`SeenLogged`), which is why no frame is there twice in a row; in tracking mode, the table of
  identifiers and the rows point at each other, an entry has the payload of the last frame of
  its identifier and knows whether another one came before (`EntryGood`, `RowsTracked`).
  `WiggleInv`: the frames of a window are the last that came while it was open (`WindowsKept`),
  each button and timer belongs to its phase (`ButtonsShown`), and a byte that every
  statistic counts was seen (`StatsKept`), without which its range would be undefined;
  what a byte that was constant in both windows scores is computed for any number of frames,
  so that it is found when it moved by more than 5 % of its range or was of a binary
  identifier, unless the results are full (`ByteFound`). `SdoInv`, `PdoInv`: what is shown is decoded from what
  came; all 256 command bytes are split by their fields (`SdoRead`), and after k fields of
  a PDO the decoder is at the end of the k-th, or past the first that does not fit
  (`PdoGood`), for every mapping in which no field starts within the frame and ends at bit 256 or
  later (`EndsFit`): the position is a byte, and such an end is cut. `GraphInv`: a
  trace, drawn or saved, has no label, that of its signal, or shares its signal's name, and a
  marker that was not set early is beside its points (`GraphGood`); a project whose traces
  can all be drawn draws them at the places it lists them, which is why the labels
  may be given by position (`DrawnUpTo`, `RestoredLabels`).

Three of the views are computed step by step over a sequence: the decoder of a PDO, the sum of
a byte over a window, the traces of a project. The models write these as recursive
functions, and the proofs do induction without the library's induction theorems:
`NatSetInduction` is induction for a set of numbers, from the fact that `<` on the naturals is
well founded, `RangeInduction` the same for the indices of a sequence, and
`RecursionExists` says that the function such a definition chooses exists.

What the proofs found wrong in the models, where TLC had found nothing within its bounds:
`UdsEcuSim` and `UdsTester` excluded too much and too little. A first frame that comes while
the simulator is disabled, or before the capture thread listens, is missed like a lost
one; and one that is lost while no message is begun does no harm. `headless` now says
exactly this, and `ecu_sim` has two reconfigurations, which it takes to disable the
simulator and enable it again in the middle of a request.

Every safety property the passing runs check is proved. The inductive invariants were checked by
TLC before they were proved. Only model-checked is liveness (`StopReturns`, `ComesToRest`,
`ScanFinishes`, `ButtonsReleased`, `BurstEnds`, `WaitReturns`, `TimedReplayEnds`, `LiveFades`,
`JobsEnd`), which rests on fairness and is beyond the prover.

## Where code and documentation differ

Each of the five violation runs checks one sentence of the repository.

1. `StopBlocksUntilExit`: `io_uring_capture.h:30` "Signal the capture thread to stop
   and block until it exits." `stop()` returns at once when `running_flag` is false,
   and the new thread itself sets it (`io_uring_capture.cpp:106`, `:182`).
2. `EveryRequestAnswered`: `uds_transport.h:26` "Emits responseReceived() or
   errorOccurred()." `assembleAndEmit` resets the reception after the slot that may
   have sent the next request (`uds_transport.cpp:255-256`): Read ECU Info never hears
   the answer to its second identifier and its buttons stay disabled.
3. `UnlockedIsTrue`: `uds_security.cpp:139` "Positive response: 0x67 <level+1>" but
   only 0x67 is looked at.
4. `OnlyRecorderDisconnected`: `main_window_actions.cpp:141` "Disconnect only the recorder
   lambda"; line 145 disconnects every receiver in the window, so that the status line counts
   no frames until the capture is restarted.
5. `ProfilePersists`: `simulator_panel_waveform.cpp:161` "Persist waveform changes for custom
   (non-built-in) profiles"; `sim_profile.cpp:104` writes the identifier as 0x and its decimal
   digits, so that 16 comes back as 22.

Other divergences met while modelling, which no run checks: `sid | 0x40` where the
comment (`uds_scanner.cpp:158`) says SID + 0x40, so the answer 0x59 to 0x19 marks SID
0x59 supported (`SupportedIsTrue` is stated of SIDs with bit 6 clear);
`m_p2Ms` of the scanner "mirrors UdsTransport P2 timeout" (`uds_scanner.h:54`) but is
never updated; `uds_transport.h:69` says 0 is an unlimited block where the code uses
-1; `io_uring_capture.h:36` counts "since start()" but `start` resets nothing;
answers the simulator sends reach the panels and never the bus
(`main_window.cpp:198-203`); `onSeekRequested` takes an enabled Pause button for
"play is active" (`replay_panel.cpp:363`), but after every seek while playing the old
worker's queued `finished` disables it.

Met on the pages: the profile editor labels a field "ID (hex) :"
(`sim_profile_editor.cpp:121`) and reads it with base 0, so that 100 is decimal 100, and
1A0, which does not parse, is 0; "Check that the bits are within the received data"
(`canopen_pdo.cpp:19`) compares an end that was cut to 8 bits, so that a field of 255 bits
that starts at bit 1 passes in any frame; `canopen_sdo.h:36` "valid bytes in data[]" where a
segment copies four of up to seven; `collectProject` never saves `log_path`; a project
without a readable DBC leaves the previous one in place, and one with an interface or a bit
rate that its combo does not list, or shows already, the one in use; `projectSave` does not
look whether the file was written to its end; "Apply per-signal labels from config"
(`signal_graph.cpp:244`) goes by position after traces that need the DBC were dropped,
because `applyProject` restores the graph before it loads the DBC; the DBC builder refuses
big-endian signals that fit and accepts some that do not (`start + len > 64`), does not tell
the other panels of a renamed message, and never tells the protocol panel of anything
(`main_window.cpp:208`); the row of a refused verification names the signal of the one
before.

Exclusions the properties state: `ResponsesWhole`, `RequestsWhole` and `ServedWhole` are
claimed only while no first frame was missed in the middle of another reception
(`headless`): lost on the bus, sent before the capture thread had opened its socket, or come
while the simulator was disabled. Its consecutive frames can then complete the earlier
message: ISO 15765-2 tells them apart by the sequence number only. A first frame missed by a
receiver that has no other message begun is not excluded. `PlayingIsShown` is claimed of
playbacks whose buttons no `finished` of an earlier worker has reset since they began
(`ledger.overtaken`), `WaitReturns` of the stops whose wake-up was not lost between the
worker's test and its wait (`ledger.lost`): the code allows both, and nothing in it repairs
them. On the pages: a log is claimed to be in order unless a recording was started while one
was connected (`ledger.doubled`), the trigger to be armed as shown until the capture is
restarted (`ledger.kept`), a connection to be shown as it is unless Bluetooth failed inside
`openBluetooth` (`elm.sync`), an XCP answer to belong to its command unless one was given up
(`slave.late`), a broadcast to be whole unless a packet was repeated or an announcement
lost, a bisection to keep its frame unless a file without frames was loaded
(`bisect.emptied`), an accepted ECU configuration to be the one shown unless a table of it
was empty, a verdict to be supported unless the DBC was replaced under it
(`verify.switched`), "only changes" to hold unless it was off meanwhile (`monitor.lapsed`),
a comparison to be of two captures unless one was chosen and not yet compared
(`diff.halved`), labels to be right unless traces were dropped (`graph.missed`), the
settings in use to be the project's unless opening it could not put them in use
(`project.lost`: a DBC that cannot be read, an interface or rate its combo does not take, a
rate can0 refused) or its file was not written to its end, the Protocols page to have the
builder's signals until one is changed (`others.since`), a PDO field to be where its mapping
has it unless one starts within the frame and ends at bit 256 or later, a byte of the wiggle
test to be found unless it moved by no more than 5 % of its range or the results are full,
the signal edited to be the one opened unless a row was deleted under it (`builder.moved`).
Each exclusion is reached in the run.

## Not modelled

Widgets, layout, translation, file formats, name tables of services and NRCs, byte
contents of frames, parsing of what is displayed. `PROJECT.json` gives a reason for each
component. System calls are choices of the models that make them. No part of
`UdsTester`'s ECU or of the bus is code of this repository.

Left out on purpose where the code is modelled: a J1939 announcement whose packets exceed its
size and DoIP lengths that overflow an `int` (both leave the bytes the models abstract away); a
script that catches the abort; `sendFrame` of the ELM327 bridge, which nothing calls.

## Plan

Still to model, in this order: the second bus of the main window (a second capture and its
deferred deletion) and its exports and imports; statistics, bus load, error and temporal
panels (counters and timers over the stream); the protocol panel over the J1939 and CANopen
libraries, with NMEA 2000 fast packets and heartbeats; the DBC parser's recovery and the
round trip with the writer; the MCP server.

Theorems are to follow what is modelled: each of these pages comes with the inductive
invariant that `PageSteps` lets be proved on its own.
