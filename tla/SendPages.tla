----------------------------- MODULE SendPages -----------------------------
(* Pages that send: the transmit panel, the fuzzer, and the bisection of a *)
(* capture (gui/src/transmit_panel.cpp, fuzzer_panel.cpp,                  *)
(* bisect_panel.cpp).  A frame the user entered is a model value; sending  *)
(* may fail at any time.                                                   *)
EXTENDS Session

CONSTANTS
  SendFrames,  \* what may be entered
  BadFrame,    \* stands for text that validate() refuses
  MaxCapture   \* bounds a capture to bisect

ASSUME SendAssumption == SendFrames # {} /\ BadFrame \notin SendFrames /\ MaxCapture \in Nat

VARIABLES
  transmit,  \* the fields, the periodic check box, its timer and count, the last status
  fuzz,      \* mode, Start/Stop, timer, count, counter bytes, the last frame
  bisect     \* frames loaded, m_lo, m_hi, the buttons; the frame the user looks for

sendVars == <<transmit, fuzz, bisect>>

TransmitInit == transmit =
  [fields |-> CHOOSE f \in SendFrames : TRUE, locked |-> FALSE, checked |-> FALSE, timer |-> FALSE,
   count |-> 0, status |-> "none", sent |-> {}]

TransmitEdits ==
  /\ ~transmit.locked /\ Input
  /\ \E f \in SendFrames \cup {BadFrame} : transmit' = [transmit EXCEPT !.fields = f]

SendOnce ==
  /\ ~transmit.locked /\ Input
  /\ \E ok \in BOOLEAN :
       transmit' = [transmit EXCEPT !.status = IF ok /\ transmit.fields # BadFrame THEN "sent" ELSE "error"]

\* onTogglePeriodic(false), also when the check box is cleared by the program.
Unchecked(t) == [t EXCEPT !.checked = FALSE, !.timer = FALSE, !.locked = FALSE, !.status = "stopped"]

\* onTogglePeriodic(true).  The error of a refused frame is overwritten by the nested call.
TogglePeriodic ==
  /\ Input
  /\ transmit' = IF transmit.checked \/ transmit.fields = BadFrame
                 THEN Unchecked(transmit)
                 ELSE [transmit EXCEPT !.checked = TRUE, !.timer = TRUE, !.locked = TRUE,
                                       !.count = 0, !.status = "running", !.sent = {}]

\* A plausible bug: a send that fails stops the timer alone.
PeriodicTickUnchecked ==
  /\ transmit.timer /\ Input
  /\ \/ transmit' = [transmit EXCEPT !.count = @ + 1, !.sent = @ \cup {transmit.fields}]
     \/ transmit' = [transmit EXCEPT !.timer = FALSE, !.status = "error"]

PeriodicTick ==
  /\ transmit.timer /\ Input
  /\ \/ transmit' = [transmit EXCEPT !.count = @ + 1, !.sent = @ \cup {transmit.fields}]
     \/ transmit' = [Unchecked(transmit) EXCEPT !.status = "error"]

TransmitNext == TransmitEdits \/ SendOnce \/ TogglePeriodic \/ PeriodicTick
TransmitReacts == FALSE

----------------------------------------------------------------------------
\* A frame has two bytes of two values: the counter wraps after four.
FuzzInit == fuzz =
  [mode |-> "increment", on |-> FALSE, timer |-> FALSE, count |-> 0, bytes |-> <<0, 0>>, sent |-> <<>>]

FuzzMode ==
  /\ ~fuzz.on /\ Input
  /\ \E m \in {"random", "increment", "flip"} : fuzz' = [fuzz EXCEPT !.mode = m]

FuzzStopped == [fuzz EXCEPT !.on = FALSE, !.timer = FALSE]

\* onToggleFuzz; a bad identifier leaves the button as it was.
ToggleFuzz ==
  /\ Input
  /\ fuzz' = IF fuzz.on THEN FuzzStopped
             ELSE [fuzz EXCEPT !.on = TRUE, !.timer = TRUE, !.count = 0, !.bytes = <<0, 0>>, !.sent = <<>>]

\* Increment with carry from the last byte.
Incremented(b) == <<(b[1] + (IF b[2] = 1 THEN 1 ELSE 0)) % 2, (b[2] + 1) % 2>>
FuzzFrames ==
  CASE fuzz.mode = "random"    -> {0, 1} \X {0, 1}
    [] fuzz.mode = "increment" -> {fuzz.bytes}
    [] OTHER                   -> {[i \in 1..2 |-> IF i = (fuzz.count % 2) + 1 THEN 1 ELSE 0]}

\* onFuzzTick: the counter advances when the frame is built, the count when it is sent.
FuzzTick ==
  /\ fuzz.timer /\ Input
  /\ \E f \in FuzzFrames :
       LET built == [fuzz EXCEPT !.bytes = IF fuzz.mode = "increment" THEN Incremented(@) ELSE @] IN
       \/ fuzz' = [built EXCEPT !.count = @ + 1, !.sent = Append(@, f)]
       \/ fuzz' = [built EXCEPT !.on = FALSE, !.timer = FALSE]

FuzzNext == FuzzMode \/ ToggleFuzz \/ FuzzTick
FuzzReacts == FALSE

----------------------------------------------------------------------------
BisectInit == bisect =
  [frames |-> 0, lo |-> 0, hi |-> 0, enabled |-> FALSE, reset |-> FALSE, culprit |-> 0, emptied |-> FALSE]

\* updateDisplay.
Narrowed(lo, hi) == [bisect EXCEPT !.lo = lo, !.hi = hi, !.enabled = hi - lo > 1]
Mid == (bisect.lo + bisect.hi) \div 2

\* onLoadCapture.  A file without a frame empties the capture and leaves the window as it was.
LoadCapture ==
  /\ Input
  /\ \/ \E n \in 1..MaxCapture, c \in 0..(MaxCapture - 1) :
          /\ c < n
          /\ bisect' = [frames |-> n, lo |-> 0, hi |-> n, enabled |-> n > 1, reset |-> TRUE,
                        culprit |-> c, emptied |-> FALSE]
     \/ bisect' = [bisect EXCEPT !.frames = 0, !.emptied = TRUE]

\* The user has seen the event while a half was replayed, [lo, mid) or [mid, hi).
EventInFirstHalf ==
  /\ bisect.enabled /\ bisect.culprit < Mid /\ Input
  /\ bisect' = Narrowed(bisect.lo, Mid)

EventInSecondHalf ==
  /\ bisect.enabled /\ bisect.culprit >= Mid /\ Input
  /\ bisect' = Narrowed(Mid, bisect.hi)

BisectReset ==
  /\ bisect.reset /\ Input
  /\ bisect' = Narrowed(0, bisect.frames)

BisectNext == LoadCapture \/ EventInFirstHalf \/ EventInSecondHalf \/ BisectReset
BisectReacts == FALSE

----------------------------------------------------------------------------
\* Periodic frames are the ones the user confirmed, sent only while the box is checked,
\* with the fields locked under it.
TransmitSound ==
  /\ transmit.timer = transmit.checked /\ transmit.locked = transmit.checked
  /\ transmit.checked => transmit.sent \subseteq {transmit.fields} /\ transmit.fields # BadFrame

\* The fuzzer sends only while its button is down, counts what it sent, and in increment
\* mode skips no pattern, whatever was clicked between two ticks.
FuzzSound ==
  /\ fuzz.timer = fuzz.on /\ fuzz.count = Len(fuzz.sent)
  /\ fuzz.mode = "increment" /\ fuzz.on =>
       \A i \in 2..Len(fuzz.sent) : fuzz.sent[i] = Incremented(fuzz.sent[i - 1])

\* The bisection never loses the frame the user looks for, and replays only frames it has
\* -- unless a file without frames was chosen after a capture (bisect_panel.cpp:130).
BisectSound ==
  ~bisect.emptied =>
    /\ bisect.hi <= bisect.frames
    /\ bisect.enabled => bisect.culprit \in bisect.lo..(bisect.hi - 1) /\ bisect.lo < Mid /\ Mid < bisect.hi
    /\ bisect.frames > 0 /\ ~bisect.enabled => bisect.lo..(bisect.hi - 1) = {bisect.culprit}
============================================================================
