---------------------------- MODULE CanCapture ----------------------------
(* The capture thread of the GUI and its trigger                           *)
(* (gui/src/can_capture.cpp, gui/include/trigger_config.h).  run() tests   *)
(* the atomic m_triggerArmed, copies m_trigger under the mutex, matches    *)
(* the copy, and clears m_triggerArmed: setTrigger, called by the GUI      *)
(* thread, may come between any two of these.  A frame is its position on  *)
(* the bus; whether it matches a pattern is a choice.                      *)
EXTENDS Integers, Sequences

CONSTANT MaxFrames  \* bounds the frames on the bus

ASSUME CaptureAssumption == MaxFrames \in Nat

VARIABLES
  capture,  \* the CanCapture object: its thread, its trigger
  conns,    \* who is connected to its frameReceived
  queue,    \* events the capture thread posted to the GUI thread
  count,    \* m_fpsCount of the window, incremented by the capture thread
  frames    \* frames received so far

captureVars == <<capture, conns, queue, count, frames>>

Actions == {"StartRecord", "StopRecord", "Bookmark"}
Config == [enabled: BOOLEAN, action: Actions]
DefaultConfig == [enabled |-> FALSE, action |-> "StartRecord"]

CaptureType ==
  [at: {"opening", "reading", "armed", "snapped", "ended"}, stop: BOOLEAN, iface: STRING,
   armed: BOOLEAN, trigger: BOOLEAN, snap: BOOLEAN]

\* A new object: nothing armed, whatever the panel shows.  Of m_trigger the thread uses
\* whether it is enabled (the action is the window's).
NewCapture(iface) ==
  [at |-> "opening", stop |-> FALSE, iface |-> iface, armed |-> FALSE,
   trigger |-> FALSE, snap |-> FALSE]

\* What frameReceived and triggerFired post.  The recorder's connections are those at
\* the time of the emission; disconnecting removes no event already posted.
FrameEvent(n) == [event |-> "frame", n |-> n, iface |-> capture.iface, writes |-> conns.recorder]
FiredEvent == [event |-> "fired", n |-> 0, iface |-> capture.iface, writes |-> 0]

OpenFails ==
  /\ capture.at = "opening"
  /\ capture' = [capture EXCEPT !.at = "ended"]
  /\ UNCHANGED <<conns, queue, count, frames>>

Opens ==
  /\ capture.at = "opening"
  /\ capture' = [capture EXCEPT !.at = "reading"]
  /\ UNCHANGED <<conns, queue, count, frames>>

\* A frame is read and emitted; the window's counter is a direct connection.
Receives ==
  /\ capture.at = "reading" /\ ~capture.stop
  /\ frames < MaxFrames
  /\ frames' = frames + 1
  /\ queue' = Append(queue, FrameEvent(frames + 1))
  /\ count' = IF conns.counter THEN count + 1 ELSE count
  /\ capture' = [capture EXCEPT !.at = IF capture.armed THEN "armed" ELSE "reading"]
  /\ UNCHANGED conns

TakesSnapshot ==
  /\ capture.at = "armed"
  /\ capture' = [capture EXCEPT !.at = "snapped", !.snap = capture.trigger]
  /\ UNCHANGED <<conns, queue, count, frames>>

\* TriggerConfig::match: the frame may match any copy that is enabled.
MayMatch == capture.snap

Fires ==
  /\ capture.at = "snapped" /\ MayMatch
  /\ capture' = [capture EXCEPT !.at = "reading", !.snap = FALSE, !.armed = FALSE]
  /\ queue' = Append(queue, FiredEvent)
  /\ UNCHANGED <<conns, count, frames>>

\* A plausible bug: the trigger is taken off before the pattern is compared.
PassesDisarmed ==
  /\ capture.at = "snapped"
  /\ capture' = [capture EXCEPT !.at = "reading", !.snap = FALSE, !.armed = FALSE]
  /\ UNCHANGED <<conns, queue, count, frames>>

Passes ==
  /\ capture.at = "snapped"
  /\ capture' = [capture EXCEPT !.at = "reading", !.snap = FALSE]
  /\ UNCHANGED <<conns, queue, count, frames>>

\* m_stop is read once per frame or 100 ms.
Ends ==
  /\ capture.at = "reading" /\ capture.stop
  /\ capture' = [capture EXCEPT !.at = "ended"]
  /\ UNCHANGED <<conns, queue, count, frames>>

CaptureRuns == OpenFails \/ Opens \/ Receives \/ TakesSnapshot \/ Fires \/ Passes \/ Ends

\* setTrigger, on the GUI thread.
WithTrigger(c, cfg) == [c EXCEPT !.trigger = cfg.enabled, !.armed = cfg.enabled]

===========================================================================
