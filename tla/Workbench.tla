----------------------------- MODULE Workbench -----------------------------
(* The main window around the capture thread: recording, trigger panel,    *)
(* choice of interface, status line (gui/src/main_window.cpp,              *)
(* main_window_actions.cpp, trigger_panel.cpp, log_recorder.cpp).          *)
(* A file dialog runs the event loop inside the handler that opened it:    *)
(* frames, triggers and timers go on, other widgets are blocked.           *)
EXTENDS CanCapture, SequencesExt

CONSTANTS
  Ifaces,     \* interfaces the toolbar offers
  Serial,     \* those of them that need slcand first
  Physical,   \* those of them that have a bitrate to be set
  MaxClicks   \* bounds what the user does

ASSUME WorkbenchAssumption ==
  Ifaces \subseteq STRING /\ Serial \subseteq Ifaces /\ Physical \subseteq Ifaces /\ MaxClicks \in Nat

VARIABLES
  gui,       \* which handler waits for the capture thread, and what it does next
  dialogs,   \* open file dialogs of onStartRecording, by who called it, innermost last
  panel,     \* trigger panel: shown armed; action of the window's m_lastTriggerCfg
  recorder,  \* log file, its lines, the REC label, the two buttons
  iface,     \* m_iface
  status,    \* m_smoothFps in units of 0.3, m_statusTimer, LIVE shown
  clicks,
  ledger     \* history for the properties

guiVars == <<gui, dialogs, panel, recorder, iface, status, clicks, ledger>>
benchVars == <<captureVars, guiVars>>

Nothing == [enabled |-> "none"]

BenchInit ==
  /\ iface \in Ifaces \ Serial
  /\ capture = NewCapture(iface)
  /\ conns = [recorder |-> 0, counter |-> TRUE]
  /\ queue = <<>> /\ count = 0 /\ frames = 0
  /\ gui = [waits |-> FALSE, apply |-> Nothing]
  /\ dialogs = <<>>
  /\ panel = [armed |-> FALSE, action |-> DefaultConfig.action]
  /\ recorder = [open |-> FALSE, log |-> <<>>, shown |-> FALSE, record |-> TRUE, stop |-> FALSE]
  /\ status = [fps |-> 0, timer |-> FALSE, live |-> FALSE]
  /\ clicks = 0
  /\ ledger = [fires |-> 0, kept |-> TRUE, doubled |-> FALSE]

----------------------------------------------------------------------------
\* The GUI thread handles something when it does not wait for the capture thread; the
\* user reaches the window's widgets when no dialog is open.
Idle == ~gui.waits
Free == Idle /\ dialogs = <<>> /\ clicks < MaxClicks
Click == clicks' = clicks + 1

\* TriggerPanel::triggerConfigChanged: setTrigger of the present capture, m_lastTriggerCfg.
ConfigChanged(cfg) ==
  /\ capture' = WithTrigger(capture, cfg)
  /\ panel' = [armed |-> cfg.enabled, action |-> cfg.action]
  /\ ledger' = [ledger EXCEPT !.fires = IF cfg.enabled THEN 0 ELSE @, !.kept = TRUE]

Arm ==
  /\ Free /\ ~panel.armed /\ Click
  /\ \E a \in Actions : ConfigChanged([enabled |-> TRUE, action |-> a])
  /\ UNCHANGED <<conns, queue, count, frames, gui, dialogs, recorder, iface, status>>

Disarm ==
  /\ Free /\ panel.armed /\ Click
  /\ \E a \in Actions : ConfigChanged([enabled |-> FALSE, action |-> a])
  /\ UNCHANGED <<conns, queue, count, frames, gui, dialogs, recorder, iface, status>>

\* Opening a project applies its trigger, armed or not; a new project the default one.
ApplyConfig ==
  /\ Free /\ Click
  /\ \E c \in Config : ConfigChanged(c)
  /\ UNCHANGED <<conns, queue, count, frames, gui, dialogs, recorder, iface, status>>

----------------------------------------------------------------------------
\* setupCapture up to wait(), and after it.
Restart(next) ==
  /\ capture' = [capture EXCEPT !.stop = TRUE]
  /\ gui' = [waits |-> TRUE, apply |-> next]

SetupCapture ==
  /\ gui.waits /\ capture.at = "ended"
  /\ LET new == NewCapture(iface) IN
       IF gui.apply = Nothing
       THEN /\ capture' = new
            /\ ledger' = [ledger EXCEPT !.kept = FALSE]
            /\ UNCHANGED panel
       ELSE /\ capture' = WithTrigger(new, gui.apply)
            /\ panel' = [armed |-> gui.apply.enabled, action |-> gui.apply.action]
            /\ ledger' = [ledger EXCEPT !.fires = IF gui.apply.enabled THEN 0 ELSE @, !.kept = TRUE]
  /\ conns' = [recorder |-> 0, counter |-> TRUE]
  /\ gui' = [waits |-> FALSE, apply |-> Nothing]
  /\ UNCHANGED <<queue, count, frames, dialogs, recorder, iface, status, clicks>>

\* onIfaceChanged of another interface: status starts anew, the capture is restarted; a
\* serial adapter that cannot be set up leaves the old capture running under the new name.
ChangeTo(i, next) ==
  /\ i # iface
  /\ count' = 0
  /\ status' = [status EXCEPT !.fps = 0, !.live = FALSE]
  /\ \/ /\ iface' = IF i \in Serial THEN "slcan0" ELSE i
        /\ Restart(next)
     \/ /\ i \in Serial
        /\ iface' = i
        /\ next = Nothing
        /\ UNCHANGED <<capture, gui>>

IfaceChanged ==
  /\ Free /\ Click
  /\ \E i \in Ifaces : ChangeTo(i, Nothing)
  /\ UNCHANGED <<conns, queue, frames, dialogs, panel, recorder, ledger>>

\* onNetChanged, also while a dialog is open: an interface that appears is chosen by itself;
\* when the one in use goes away the combo falls back to its first entry, whatever that is.
NetChanged ==
  /\ Idle /\ clicks < MaxClicks /\ Click
  /\ \E i \in Ifaces : ChangeTo(i, Nothing)
  /\ UNCHANGED <<conns, queue, frames, dialogs, panel, recorder, ledger>>

\* applyProject: the interface first, the trigger after it.
OpenProject ==
  /\ Free /\ Click
  /\ \E i \in Ifaces \ Serial, c \in Config : ChangeTo(i, c)
  /\ UNCHANGED <<conns, queue, frames, dialogs, panel, recorder, ledger>>

\* onBitrateChanged on a real interface that takes the bitrate.
BitrateChanged ==
  /\ Free /\ Click
  /\ iface \in Physical \cup {"slcan0"}
  /\ Restart(Nothing)
  /\ UNCHANGED <<conns, queue, count, frames, dialogs, panel, recorder, iface, status, ledger>>

----------------------------------------------------------------------------
\* onStartRecording up to its file dialog.
ClickRecord ==
  /\ Free /\ Click
  /\ recorder.record
  /\ dialogs' = Append(dialogs, "button")
  /\ UNCHANGED <<captureVars, gui, panel, recorder, iface, status, ledger>>

\* What the Record button's handler does after onStartRecording has returned.
AfterRecord(by, r) ==
  IF by = "button" /\ r.open THEN [r EXCEPT !.record = FALSE, !.stop = TRUE] ELSE r

DialogCancelled ==
  /\ Idle /\ dialogs # <<>>
  /\ dialogs' = Front(dialogs)
  /\ recorder' = AfterRecord(Last(dialogs), recorder)
  /\ UNCHANGED <<captureVars, gui, panel, iface, status, clicks, ledger>>

\* A file was asked for while the recording before it still ran.
OpenedOver == [ledger EXCEPT !.doubled = @ \/ (recorder.open /\ conns.recorder > 0)]

\* The file opens: an earlier log is closed, the recorder connected once more.
RecordingStarts ==
  /\ Idle /\ dialogs # <<>>
  /\ dialogs' = Front(dialogs)
  /\ recorder' = AfterRecord(Last(dialogs), [recorder EXCEPT !.open = TRUE, !.log = <<>>, !.shown = TRUE])
  /\ conns' = [conns EXCEPT !.recorder = @ + 1]
  /\ ledger' = OpenedOver
  /\ UNCHANGED <<capture, queue, count, frames, gui, panel, iface, status, clicks>>

RecordingFails ==
  /\ Idle /\ dialogs # <<>>
  /\ dialogs' = Front(dialogs)
  /\ recorder' = AfterRecord(Last(dialogs), [recorder EXCEPT !.open = FALSE])
  /\ ledger' = OpenedOver
  /\ UNCHANGED <<captureVars, gui, panel, iface, status, clicks>>

Stopped(r) == [r EXCEPT !.open = FALSE, !.shown = FALSE]

\* A plausible bug: closing the file leaves the recorder connected.
StopRecordingConnected(r) ==
  /\ recorder' = Stopped(r)
  /\ conns' = [conns EXCEPT !.counter = FALSE]

\* onStopRecording: every connection of frameReceived to the window is cut.
StopRecording(r) ==
  /\ recorder' = Stopped(r)
  /\ conns' = [recorder |-> 0, counter |-> FALSE]

ClickStop ==
  /\ Free /\ Click
  /\ recorder.stop
  /\ StopRecording([recorder EXCEPT !.record = TRUE, !.stop = FALSE])
  /\ UNCHANGED <<capture, queue, count, frames, gui, dialogs, panel, iface, status, ledger>>

----------------------------------------------------------------------------
\* The events of the capture thread, in the order they were posted.
Handled == queue' = Tail(queue) /\ UNCHANGED <<capture, count, frames, gui, panel, iface, status, clicks, ledger>>

\* One line per connection the frame was emitted to, under the name the interface has now.
HandleFrame ==
  /\ Idle /\ queue # <<>> /\ Head(queue).event = "frame"
  /\ Handled
  /\ recorder' = IF recorder.open
                 THEN [recorder EXCEPT !.log = @ \o [i \in 1..Head(queue).writes |-> Head(queue).n]]
                 ELSE recorder
  /\ UNCHANGED <<conns, dialogs>>

\* onTriggerFired acts on the last configuration, not on the one that matched.
HandleFired ==
  /\ Idle /\ queue # <<>> /\ Head(queue).event = "fired"
  /\ Handled
  /\ CASE panel.action = "StartRecord" ->
            dialogs' = Append(dialogs, "trigger") /\ UNCHANGED <<recorder, conns>>
       [] panel.action = "StopRecord" -> StopRecording(recorder) /\ UNCHANGED dialogs
       [] OTHER -> UNCHANGED <<recorder, conns, dialogs>>

----------------------------------------------------------------------------
\* An average with weight 0.3.
Smoothed == count + (7 * status.fps) \div 10

\* A plausible bug: the timer is left alone when traffic fades.
FpsTickNoTimer ==
  /\ Idle
  /\ count' = 0
  /\ status' = IF Smoothed > 1
               THEN [fps |-> Smoothed, timer |-> FALSE, live |-> TRUE]
               ELSE [status EXCEPT !.fps = Smoothed]
  /\ UNCHANGED <<capture, conns, queue, frames, gui, dialogs, panel, recorder, iface, clicks, ledger>>

\* onFpsTick, each second: LIVE above half a frame.
FpsTick ==
  /\ Idle
  /\ count' = 0
  /\ status' = IF Smoothed > 1
               THEN [fps |-> Smoothed, timer |-> FALSE, live |-> TRUE]
               ELSE [status EXCEPT !.fps = Smoothed, !.timer = TRUE]
  /\ UNCHANGED <<capture, conns, queue, frames, gui, dialogs, panel, recorder, iface, clicks, ledger>>

\* onStatusTimeout, two seconds after traffic faded.
StatusTimeout ==
  /\ Idle /\ status.timer
  /\ status' = [status EXCEPT !.timer = FALSE, !.live = FALSE]
  /\ UNCHANGED <<captureVars, gui, dialogs, panel, recorder, iface, clicks, ledger>>

----------------------------------------------------------------------------
CaptureSteps ==
  /\ CaptureRuns
  /\ ledger' = [ledger EXCEPT !.fires = IF Fires THEN @ + 1 ELSE @, !.kept = @ /\ ~Fires]
  /\ UNCHANGED <<gui, dialogs, panel, recorder, iface, status, clicks>>

Handle == HandleFrame \/ HandleFired
User ==
  \/ Arm \/ Disarm \/ ApplyConfig \/ IfaceChanged \/ OpenProject \/ BitrateChanged
  \/ ClickRecord \/ ClickStop
Dialog == DialogCancelled \/ RecordingStarts \/ RecordingFails

BenchNext ==
  \/ CaptureSteps \/ SetupCapture \/ User \/ NetChanged \/ Dialog
  \/ Handle \/ FpsTick \/ StatusTimeout

\* The operating system schedules the thread, read() returns within 100 ms, and the event
\* loop serves posted events and timers.  Nothing of the user.
BenchFairness ==
  /\ WF_benchVars(CaptureSteps) /\ WF_benchVars(SetupCapture)
  /\ WF_benchVars(Handle) /\ WF_benchVars(FpsTick) /\ WF_benchVars(StatusTimeout)

BenchSpec == BenchInit /\ [][BenchNext]_benchVars /\ BenchFairness

----------------------------------------------------------------------------
(* Properties *)

\* The log holds each frame once, in the order of the bus, whatever starts, stops,
\* restarts and triggers surround it -- unless a recording was started while the one
\* before was still connected: onStartRecording connects again without asking.
LogInOrder ==
  ~ledger.doubled => \A i, j \in 1..Len(recorder.log) : i < j => recorder.log[i] < recorder.log[j]

\* A trigger the panel shows armed is armed in the capture thread until it fires, even
\* when it is armed again while the thread matches a frame (run() clears the flag long
\* after it copied the configuration); it fires at most once per arming.  A
\* restart of the capture forgets the trigger: the panel goes on showing it armed.
ArmedAsShown ==
  /\ panel.armed /\ ledger.kept => capture.armed
  /\ capture.armed => panel.armed
  /\ ledger.fires <= 1

\* "Disconnect only the recorder lambda" (main_window_actions.cpp:141): what stops the
\* recording leaves the frame counter of the status line connected.
OnlyRecorderDisconnected ==
  [][recorder.open /\ ~recorder'.open /\ conns.counter => conns'.counter]_benchVars
============================================================================
