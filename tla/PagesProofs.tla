----------------------------- MODULE PagesProofs -----------------------------
(***************************************************************************)
(* Pages, proved for any number of frames, clicks and inputs, any          *)
(* interfaces and any bounds: the trigger and the log of the bench, then   *)
(* the pages with background jobs, with senders, with links, with verdicts,*)
(* with simulators, with documents and with views of what came.            *)
(***************************************************************************)
EXTENDS PagesInvariants, TLAPS, SequenceTheorems, FiniteSetTheorems, WellFoundedInduction

-------------------------------------------------------------------------------
(* The trigger *)

LEMMA CaptureObjects ==
  ASSUME NEW c \in ThreadType, NEW cfg \in Config, NEW i \in Names
  PROVE  /\ NewCapture(i) \in ThreadType /\ ~NewCapture(i).armed
         /\ NewCapture(i).at = "opening"
         /\ WithTrigger(c, cfg) \in ThreadType
         /\ WithTrigger(c, cfg).armed = cfg.enabled /\ WithTrigger(c, cfg).at = c.at
<1>1. cfg.enabled \in BOOLEAN
  BY DEF Config
<1>2. QED
  BY <1>1 DEF NewCapture, WithTrigger, ThreadType

\* A configuration that is given to a capture and shown by the panel at once.
LEMMA ConfigKeepsTrigger ==
  ASSUME TriggerInv, NEW c \in ThreadType, NEW cfg \in Config,
         c.at \in {"armed", "snapped"} => ledger.fires = 0,
         capture' = WithTrigger(c, cfg),
         panel' = [armed |-> cfg.enabled, action |-> cfg.action],
         ledger' = [ledger EXCEPT !.fires = IF cfg.enabled THEN 0 ELSE @, !.kept = TRUE],
         gui' \in GuiType, iface' = iface
  PROVE  TriggerInv'
<1>1. ledger \in LedgerType /\ iface \in Names
  BY DEF TriggerInv, TriggerTypes
<1>2. cfg.enabled \in BOOLEAN /\ cfg.action \in Actions
  BY DEF Config
<1>3. /\ ledger' \in LedgerType /\ ledger'.kept
      /\ ledger'.fires = IF cfg.enabled THEN 0 ELSE ledger.fires
  BY <1>1 DEF LedgerType
<1>4. /\ capture' \in ThreadType /\ capture'.armed = cfg.enabled /\ capture'.at = c.at
  BY <1>1, CaptureObjects
<1>5. panel' \in PanelType /\ panel'.armed = cfg.enabled
  BY <1>2 DEF PanelType
<1>6. ledger.fires <= 1 /\ ledger.fires \in Nat
  BY <1>1 DEF TriggerInv, ArmedAsShown, LedgerType
<1>7. ArmedAsShown'
  BY <1>3, <1>4, <1>5, <1>6 DEF ArmedAsShown
<1>8. MatchingUnfired'
  BY <1>2, <1>3, <1>4 DEF MatchingUnfired
<1>9. QED
  BY <1>1, <1>3, <1>4, <1>5, <1>7, <1>8 DEF TriggerInv, TriggerTypes

\* What leaves the flag, the panel and what was counted alone.
LEMMA SameTrigger ==
  ASSUME TriggerInv, capture' \in ThreadType, capture'.armed = capture.armed,
         capture'.at \in {"armed", "snapped"}
           => capture.at \in {"armed", "snapped"} \/ capture.armed,
         gui' \in GuiType, panel' = panel, iface' \in Names,
         ledger' \in LedgerType, ledger'.fires = ledger.fires, ledger'.kept = ledger.kept
  PROVE  TriggerInv'
<1>1. ArmedAsShown'
  BY DEF TriggerInv, ArmedAsShown
<1>2. MatchingUnfired'
  BY DEF TriggerInv, MatchingUnfired
<1>3. QED
  BY <1>1, <1>2 DEF TriggerInv, TriggerTypes

\* The capture thread; it may fire.
LEMMA CaptureKeepsTrigger ==
  ASSUME TriggerInv, CaptureSteps
  PROVE  TriggerInv'
<1>1. capture \in ThreadType /\ ledger \in LedgerType /\ panel \in PanelType
  BY DEF TriggerInv, TriggerTypes
<1>2. CaptureRuns /\ gui' = gui /\ panel' = panel /\ iface' = iface
      /\ ledger' = [ledger EXCEPT !.fires = IF Fires THEN @ + 1 ELSE @, !.kept = @ /\ ~Fires]
  BY DEF CaptureSteps
<1>3. CASE Fires
  <2>1. ledger' = [ledger EXCEPT !.fires = ledger.fires + 1, !.kept = FALSE]
    BY <1>1, <1>2, <1>3 DEF LedgerType
  <2>2. /\ ledger' \in LedgerType /\ ledger'.fires = ledger.fires + 1 /\ ~ledger'.kept
    <3>1. ledger.fires + 1 \in Nat /\ FALSE \in BOOLEAN
      BY <1>1 DEF LedgerType
    <3>2. QED
      BY <1>1, <2>1, <3>1 DEF LedgerType
  <2>3. /\ capture' \in ThreadType /\ ~capture'.armed /\ capture'.at = "reading"
        /\ capture.at = "snapped"
    BY <1>1, <1>3 DEF Fires, ThreadType
  <2>4. ledger.fires = 0
    BY <2>3 DEF TriggerInv, MatchingUnfired
  <2>5. ArmedAsShown' /\ MatchingUnfired'
    BY <2>2, <2>3, <2>4 DEF ArmedAsShown, MatchingUnfired
  <2>6. QED
    BY <1>1, <1>2, <2>2, <2>3, <2>5 DEF TriggerInv, TriggerTypes
<1>4. CASE ~Fires
  <2>1. ledger' \in LedgerType /\ ledger'.fires = ledger.fires /\ ledger'.kept = ledger.kept
    BY <1>1, <1>2, <1>4 DEF LedgerType
  <2>2. /\ capture' \in ThreadType /\ capture'.armed = capture.armed
        /\ capture'.at \in {"armed", "snapped"}
             => capture.at \in {"armed", "snapped"} \/ capture.armed
    BY <1>1, <1>2, <1>4 DEF OpenFails, Opens, Ends, ThreadType, Receives, TakesSnapshot, Passes,
       CaptureRuns
  <2>3. gui' \in GuiType /\ iface' \in Names
    BY <1>2 DEF TriggerInv, TriggerTypes
  <2>4. QED
    BY <1>2, <2>1, <2>2, <2>3, SameTrigger
<1>5. QED
  BY <1>3, <1>4

\* The restart of the capture: the trigger is forgotten, or a project's is applied.
LEMMA SetupKeepsTrigger ==
  ASSUME TriggerInv, SetupCapture
  PROVE  TriggerInv'
<1>1. /\ ledger \in LedgerType /\ panel \in PanelType /\ iface \in Names
      /\ gui.apply \in Config \cup {Nothing} /\ iface' = iface
  BY DEF TriggerInv, TriggerTypes, SetupCapture, GuiType
<1>2. gui' \in GuiType
  BY DEF SetupCapture, GuiType
<1>3. CASE gui.apply = Nothing
  <2>1. capture' = NewCapture(iface) /\ panel' = panel
        /\ ledger' = [ledger EXCEPT !.kept = FALSE]
    BY <1>3 DEF SetupCapture
  <2>2. capture' \in ThreadType /\ ~capture'.armed /\ capture'.at = "opening"
    BY <1>1, <2>1 DEF NewCapture, ThreadType
  <2>3. ledger' \in LedgerType /\ ~ledger'.kept /\ ledger'.fires = ledger.fires
    BY <1>1, <2>1 DEF LedgerType
  <2>4. ArmedAsShown' /\ MatchingUnfired'
    BY <2>2, <2>3 DEF TriggerInv, ArmedAsShown, MatchingUnfired
  <2>5. QED
    BY <1>1, <1>2, <2>1, <2>2, <2>3, <2>4 DEF TriggerInv, TriggerTypes
<1>4. CASE gui.apply # Nothing
  <2> DEFINE c   == NewCapture(iface)
             cfg == gui.apply
  <2>1. cfg \in Config
    BY <1>1, <1>4
  <2>2. c \in ThreadType /\ c.at = "opening"
    BY <1>1 DEF NewCapture, ThreadType
  <2>3. /\ capture' = WithTrigger(c, cfg)
        /\ panel' = [armed |-> cfg.enabled, action |-> cfg.action]
        /\ ledger' = [ledger EXCEPT !.fires = IF cfg.enabled THEN 0 ELSE @, !.kept = TRUE]
    BY <1>4 DEF SetupCapture
  <2> HIDE DEF c, cfg
  <2>4. QED
    BY <1>1, <1>2, <2>1, <2>2, <2>3, ConfigKeepsTrigger
<1>5. QED
  BY <1>3, <1>4

\* Arming, disarming and opening a project.
LEMMA TriggerChanges ==
  ASSUME TriggerInv, Arm \/ Disarm \/ ApplyConfig
  PROVE  TriggerInv'
<1>1. PICK cfg \in Config : ConfigChanged(cfg)
  BY DEF Config, Arm, Disarm, ApplyConfig
<1>2. gui' = gui /\ iface' = iface
  BY DEF Arm, Disarm, ApplyConfig
<1>3. capture \in ThreadType /\ gui' \in GuiType
      /\ (capture.at \in {"armed", "snapped"} => ledger.fires = 0)
  BY <1>2 DEF TriggerInv, TriggerTypes, MatchingUnfired
<1>4. QED
  BY <1>1, <1>2, <1>3, ConfigKeepsTrigger DEF ConfigChanged

\* A change of interface tells the thread to stop and waits for it, or does not.
LEMMA ChangesKeepTrigger ==
  ASSUME TriggerInv, IfaceChanged \/ NetChanged \/ OpenProject \/ BitrateChanged
  PROVE  TriggerInv'
<1>1. capture \in ThreadType /\ gui \in GuiType /\ iface \in Names
      /\ panel' = panel /\ ledger' = ledger /\ ledger \in LedgerType
  BY DEF TriggerInv, TriggerTypes, IfaceChanged, NetChanged, OpenProject, BitrateChanged
<1>2. ASSUME NEW next \in Config \cup {Nothing}, Restart(next)
      PROVE  /\ capture' \in ThreadType /\ capture'.armed = capture.armed
             /\ capture'.at = capture.at /\ gui' \in GuiType
  BY <1>1, <1>2 DEF Restart, ThreadType, GuiType
<1>3. ASSUME NEW i \in Ifaces, NEW next \in Config \cup {Nothing}, ChangeTo(i, next)
      PROVE  /\ capture' \in ThreadType /\ capture'.armed = capture.armed
             /\ capture'.at = capture.at /\ gui' \in GuiType /\ iface' \in Names
  BY <1>3, <1>1, <1>2 DEF ChangeTo, Names
<1>4. /\ capture' \in ThreadType /\ capture'.armed = capture.armed
      /\ capture'.at = capture.at /\ gui' \in GuiType /\ iface' \in Names
  BY <1>1, <1>2, <1>3 DEF BitrateChanged, IfaceChanged, NetChanged, OpenProject
<1>5. QED
  BY <1>1, <1>4, SameTrigger

LEMMA BenchKeepsTrigger ==
  ASSUME TriggerInv, BenchNext
  PROVE  TriggerInv'
<1>1. capture \in ThreadType /\ gui \in GuiType /\ iface \in Names /\ ledger \in LedgerType
  BY DEF TriggerInv, TriggerTypes
<1>2. CASE \/ ClickRecord \/ ClickStop \/ Dialog \/ Handle \/ FpsTick \/ StatusTimeout
  <2>1. capture' = capture /\ gui' = gui /\ panel' = panel /\ iface' = iface
    BY <1>2 DEF ClickRecord, ClickStop, Dialog, DialogCancelled, RecordingStarts,
                RecordingFails, Handle, HandleFrame, HandleFired, Handled, FpsTick,
                StatusTimeout, captureVars
  <2>2. ledger' \in LedgerType /\ ledger'.fires = ledger.fires /\ ledger'.kept = ledger.kept
    <3>1. ledger' \in {ledger, OpenedOver}
      BY <1>2 DEF ClickRecord, ClickStop, Dialog, DialogCancelled, RecordingStarts,
                  RecordingFails, Handle, HandleFrame, HandleFired, Handled, FpsTick,
                  StatusTimeout
    <3>2. (ledger.doubled \/ (recorder.open /\ conns.recorder > 0)) \in BOOLEAN
      BY <1>1 DEF LedgerType
    <3>3. QED
      BY <1>1, <3>1, <3>2 DEF OpenedOver, LedgerType
  <2>3. QED
    BY <1>1, <2>1, <2>2, SameTrigger
<1>3. QED
  BY <1>2, CaptureKeepsTrigger, SetupKeepsTrigger, TriggerChanges, ChangesKeepTrigger
  DEF BenchNext, User

LEMMA BenchInitTrigger ==
  ASSUME BenchInit PROVE TriggerInv
<1>1. iface \in Names
  BY DEF BenchInit, Names
<1>2. capture \in ThreadType /\ ~capture.armed /\ capture.at = "opening"
  BY <1>1 DEF BenchInit, NewCapture, ThreadType
<1>3. /\ gui \in GuiType /\ panel \in PanelType /\ ledger \in LedgerType
      /\ ledger.fires = 0 /\ ~panel.armed
  BY DEF BenchInit, GuiType, PanelType, LedgerType, DefaultConfig, Actions
<1>4. QED
  BY <1>1, <1>2, <1>3 DEF TriggerInv, TriggerTypes, ArmedAsShown, MatchingUnfired

\* The trigger panel of the bench shows armed what is armed, and an arming fires at most
\* once, whatever is armed, disarmed or restarted while the thread compares a frame.
THEOREM TriggerAsShown == Spec => []TriggerSound
<1>1. Init => (On("bench") => TriggerInv)
  BY BenchInitTrigger DEF Init, On
<1>2. (On("bench") => TriggerInv) /\ [Next]_pagesVars => (On("bench") => TriggerInv)'
  <2>1. CASE UNCHANGED pagesVars
    BY <2>1
    DEF pagesVars, sessionVars, benchVars, captureVars, guiVars, On, TriggerInv,
        TriggerTypes, ArmedAsShown, MatchingUnfired
  <2>2. CASE On("bench") /\ BenchNext
    BY <2>2, BenchKeepsTrigger
  <2>3. CASE ~On("bench") /\ page' = page
    BY <2>3 DEF On
  <2>4. ASSUME Next PROVE \/ On("bench") /\ BenchNext
                          \/ ~On("bench") /\ page' = page
    BY <2>4 DEF Next, Others, On
  <2>5. QED
    BY <2>1, <2>2, <2>3, <2>4
<1>3. (On("bench") => TriggerInv) => TriggerSound
  BY DEF TriggerSound, TriggerInv
<1>4. QED
  BY <1>1, <1>2, <1>3, PTL DEF Spec
-------------------------------------------------------------------------------
(* The log *)

\* What leaves the queue and the recording alone.
LEMMA SameLog ==
  ASSUME LogInv, queue' = queue, frames' = frames,
         conns'.recorder = conns.recorder \/ conns'.recorder = 0,
         conns' \in [recorder : Nat, counter : BOOLEAN],
         recorder'.open = recorder.open \/ conns'.recorder = 0,
         recorder'.log = recorder.log,
         recorder' \in RecorderType,
         dialogs' \in Seq({"button", "trigger"}),
         ledger.doubled => ledger'.doubled
  PROVE  LogInv'
<1>1. LogTypes'
  BY DEF LogInv, LogTypes
<1>2. ASSUME ConnectedOnce PROVE ConnectedOnce'
  BY <1>2 DEF ConnectedOnce
<1>3. ASSUME LineInOrder PROVE LineInOrder'
  BY <1>3 DEF LineInOrder
<1>4. QED
  BY <1>1, <1>2, <1>3 DEF LogInv

\* An event more, and a frame more if it is one.
LEMMA PostKeepsLog ==
  ASSUME LogInv, NEW e \in PostedType, queue' = Append(queue, e),
         \/ e.event = "frame" /\ e.n = frames + 1 /\ frames' = frames + 1
         \/ e.event = "fired" /\ frames' = frames,
         e.writes <= conns.recorder,
         UNCHANGED <<conns, recorder, dialogs>>, ledger'.doubled = ledger.doubled
  PROVE  LogInv'
<1>1. /\ queue \in Seq(PostedType) /\ frames \in Nat /\ frames' \in Nat
      /\ frames <= frames' /\ conns.recorder \in Nat
      /\ recorder.log \in Seq(Nat)
  BY DEF LogInv, LogTypes, RecorderType
<1>2. /\ Len(queue) \in Nat /\ queue' \in Seq(PostedType) /\ Len(queue') = Len(queue) + 1
      /\ \A k \in 1..Len(queue) : queue'[k] = queue[k]
      /\ queue'[Len(queue) + 1] = e
  BY <1>1, AppendProperties
<1>3. \A k \in 1..Len(queue') : k \in 1..Len(queue) \/ k = Len(queue) + 1
  BY <1>2
<1>4. \A k \in 1..Len(queue) : queue[k] \in PostedType /\ queue[k].n \in Nat
  <2>1. \A k \in 1..Len(queue) : queue[k] \in PostedType
    BY <1>1
  <2>2. QED
    BY <2>1 DEF PostedType
<1>5. LogTypes'
  BY <1>1, <1>2 DEF LogInv, LogTypes
<1>6. ASSUME ConnectedOnce PROVE ConnectedOnce'
  BY <1>1, <1>6, <1>2, <1>3 DEF ConnectedOnce, PostedType
<1>7. ASSUME LineInOrder PROVE LineInOrder'
  <2>1. \A i \in 1..Len(recorder.log) :
          recorder.log[i] \in Nat /\ recorder.log[i] <= frames
    BY <1>1, <1>7 DEF LineInOrder
  <2>2. \A i \in 1..Len(recorder.log) : recorder.log[i] <= frames'
    BY <1>1, <2>1
  <2>3. ASSUME NEW k \in 1..Len(queue'), queue'[k].event = "frame"
        PROVE  /\ queue'[k].n <= frames'
               /\ \A i \in 1..Len(recorder.log) : recorder.log[i] < queue'[k].n
    BY <1>2, <1>4, <1>7, <2>3, <1>1, <2>1, <1>3 DEF LineInOrder
  <2>4. ASSUME NEW k \in 1..Len(queue'), NEW l \in 1..Len(queue'), k < l,
               queue'[k].event = "frame", queue'[l].event = "frame"
        PROVE  queue'[k].n < queue'[l].n
    BY <1>2, <1>3, <2>4, <1>4, <1>7, <1>1 DEF LineInOrder
  <2>5. \A i, j \in 1..Len(recorder'.log) : i < j => recorder'.log[i] < recorder'.log[j]
    BY <1>7 DEF LineInOrder
  <2>6. QED
    BY <2>2, <2>3, <2>4, <2>5 DEF LineInOrder
<1>8. QED
  BY <1>5, <1>6, <1>7 DEF LogInv

LEMMA CaptureKeepsLog ==
  ASSUME TriggerInv, LogInv, CaptureSteps
  PROVE  LogInv'
<1>1. /\ UNCHANGED <<dialogs, recorder>> /\ CaptureRuns /\ ledger \in LedgerType
      /\ ledger' = [ledger EXCEPT !.fires = IF Fires THEN @ + 1 ELSE @, !.kept = @ /\ ~Fires]
  BY DEF CaptureSteps, TriggerInv, TriggerTypes
<1>2. ledger'.doubled = ledger.doubled
  BY <1>1 DEF LedgerType
<1>3. /\ capture.iface \in Names /\ conns.recorder \in Nat /\ frames \in Nat
      /\ conns \in [recorder : Nat, counter : BOOLEAN]
      /\ dialogs \in Seq({"button", "trigger"})
      /\ recorder \in RecorderType
  BY DEF TriggerInv, TriggerTypes, ThreadType, LogInv, LogTypes
<1>4. CASE Receives
  <2> DEFINE e == FrameEvent(frames + 1)
  <2>1. /\ queue' = Append(queue, e) /\ frames' = frames + 1 /\ conns' = conns
    BY <1>4 DEF Receives
  <2>2. /\ e \in PostedType /\ e.event = "frame" /\ e.n = frames + 1
        /\ e.writes = conns.recorder
    BY <1>3 DEF FrameEvent, PostedType
  <2> HIDE DEF e
  <2>3. e.writes <= conns.recorder
    BY <1>3, <2>2
  <2>4. QED
    BY <1>1, <1>2, <2>1, <2>2, <2>3, PostKeepsLog
<1>5. CASE Fires
  <2> DEFINE e == FiredEvent
  <2>1. queue' = Append(queue, e) /\ frames' = frames /\ conns' = conns
    BY <1>5 DEF Fires
  <2>2. e \in PostedType /\ e.event = "fired" /\ e.writes = 0
    BY <1>3 DEF FiredEvent, PostedType
  <2> HIDE DEF e
  <2>3. e.writes <= conns.recorder
    BY <1>3, <2>2
  <2>4. QED
    BY <1>1, <1>2, <2>1, <2>2, <2>3, PostKeepsLog
<1>6. CASE OpenFails \/ Opens \/ TakesSnapshot \/ Passes \/ Ends
  BY <1>6, <1>1, <1>2, <1>3, SameLog DEF OpenFails, Opens, TakesSnapshot, Passes, Ends
<1>7. QED
  BY <1>1, <1>4, <1>5, <1>6 DEF CaptureRuns
\* The head of the queue is handled; a frame is written once for each connection.
LEMMA HandlingKeepsLog ==
  ASSUME LogInv, queue # << >>, queue' = Tail(queue), UNCHANGED <<frames, ledger>>,
         conns' = conns \/ conns'.recorder = 0,
         conns' \in [recorder : Nat, counter : BOOLEAN],
         recorder'.open = recorder.open \/ conns'.recorder = 0,
         recorder' \in RecorderType,
         dialogs' \in Seq({"button", "trigger"}),
         \/ recorder'.log = recorder.log
         \/ /\ Head(queue).event = "frame"
            /\ recorder'.log
                 = recorder.log \o [i \in 1..Head(queue).writes |-> Head(queue).n]
  PROVE  LogInv'
<1> DEFINE h   == Head(queue)
           log == recorder.log
<1>1. /\ queue \in Seq(PostedType) /\ frames \in Nat /\ conns.recorder \in Nat
      /\ log \in Seq(Nat)
  BY DEF LogInv, LogTypes, RecorderType
<1>2. /\ Len(queue) \in Nat /\ 1 \in 1..Len(queue) /\ h = queue[1] /\ h \in PostedType
      /\ queue' \in Seq(PostedType) /\ Len(queue') = Len(queue) - 1
      /\ \A k \in 1..Len(queue') : queue'[k] = queue[k + 1]
  BY <1>1
<1>3. \A k \in 1..Len(queue') : k + 1 \in 1..Len(queue) /\ 1 < k + 1
  BY <1>2
<1>4. /\ h.n \in Nat /\ h.writes \in Nat
      /\ \A k \in 1..Len(queue) : queue[k].n \in Nat
  <2>1. \A k \in 1..Len(queue) : queue[k] \in PostedType
    BY <1>1
  <2>2. QED
    BY <1>2, <2>1 DEF PostedType
<1>5. LogTypes'
  BY <1>1, <1>2 DEF LogInv, LogTypes
<1>6. ASSUME ConnectedOnce PROVE ConnectedOnce'
  BY <1>2, <1>3, <1>6 DEF ConnectedOnce
<1>7. ASSUME LineInOrder
      PROVE  /\ \A k, l \in 1..Len(queue') :
                  k < l /\ queue'[k].event = "frame" /\ queue'[l].event = "frame"
                    => queue'[k].n < queue'[l].n
             /\ \A k \in 1..Len(queue') : queue'[k].event = "frame" =>
                  /\ queue'[k].n <= frames'
                  /\ \A i \in 1..Len(log) : log[i] < queue'[k].n
                  /\ h.event = "frame" => h.n < queue'[k].n
  BY <1>2, <1>3, <1>7 DEF LineInOrder
<1>8. ASSUME LineInOrder, recorder'.log = log PROVE LineInOrder'
  BY <1>7, <1>8 DEF LineInOrder
<1>9. ASSUME LineInOrder, ConnectedOnce, h.event = "frame",
             recorder'.log = log \o [i \in 1..h.writes |-> h.n]
      PROVE  LineInOrder'
  <2>1. CASE h.writes = 0
    <3>1. [i \in 1..h.writes |-> h.n] = << >>
      BY <2>1
    <3>2. log \o << >> = log
      BY <1>1
    <3>3. QED
      BY <1>8, <1>9, <3>1, <3>2
  <2>2. CASE h.writes = 1
    <3>1. [i \in 1..h.writes |-> h.n] = <<h.n>>
      BY <2>2
    <3>2. log \o <<h.n>> = Append(log, h.n)
      BY <1>1, <1>4
    <3>3. recorder'.log = Append(log, h.n)
      BY <1>9, <3>1, <3>2
    <3>4. /\ Len(log) \in Nat /\ Len(recorder'.log) = Len(log) + 1
          /\ \A i \in 1..Len(log) : recorder'.log[i] = log[i] /\ log[i] \in Nat
          /\ recorder'.log[Len(log) + 1] = h.n
      <4>1. /\ Len(log) \in Nat /\ Len(Append(log, h.n)) = Len(log) + 1
            /\ \A i \in 1..Len(log) : Append(log, h.n)[i] = log[i]
            /\ Append(log, h.n)[Len(log) + 1] = h.n
        BY <1>1, <1>4, AppendProperties
      <4>2. \A i \in 1..Len(log) : log[i] \in Nat
        BY <1>1
      <4>3. QED
        BY <3>3, <4>1, <4>2
    <3>5. \A i \in 1..Len(recorder'.log) : i \in 1..Len(log) \/ i = Len(log) + 1
      BY <3>4
    <3>6. h.n <= frames /\ \A i \in 1..Len(log) : log[i] < h.n
      BY <1>2, <1>9 DEF LineInOrder
    <3>7. ASSUME NEW i \in 1..Len(recorder'.log), NEW j \in 1..Len(recorder'.log), i < j
          PROVE  recorder'.log[i] < recorder'.log[j]
      <4>1. i \in 1..Len(log)
        BY <3>4, <3>5, <3>7
      <4>2. CASE j \in 1..Len(log)
        BY <1>9, <3>4, <3>7, <4>1, <4>2 DEF LineInOrder
      <4>3. CASE j = Len(log) + 1
        BY <3>4, <3>6, <4>1, <4>3
      <4>4. QED
        BY <3>5, <4>2, <4>3
    <3>8. \A i \in 1..Len(recorder'.log) : recorder'.log[i] <= frames'
      BY <1>9, <3>4, <3>5, <3>6 DEF LineInOrder
    <3>9. ASSUME NEW k \in 1..Len(queue'), queue'[k].event = "frame"
          PROVE  /\ queue'[k].n <= frames'
                 /\ \A i \in 1..Len(recorder'.log) : recorder'.log[i] < queue'[k].n
      BY <1>7, <1>9, <3>9, <3>4, <3>5
    <3>10. QED
      BY <1>7, <1>9, <3>7, <3>8, <3>9 DEF LineInOrder
  <2>3. h.writes <= 1
    BY <1>2, <1>9 DEF ConnectedOnce
  <2>4. QED
    BY <1>4, <2>1, <2>2, <2>3
<1>10. QED
  BY <1>5, <1>6, <1>8, <1>9 DEF LogInv

\* A recording starts: its log is empty, and it is connected only now, unless one was.
LEMMA StartKeepsLog ==
  ASSUME LogInv, UNCHANGED <<queue, frames>>,
         conns' = [conns EXCEPT !.recorder = @ + 1],
         recorder' \in RecorderType,
         recorder'.open, recorder'.log = << >>, dialogs' \in Seq({"button", "trigger"}),
         ledger'.doubled <=> ledger.doubled \/ (recorder.open /\ conns.recorder > 0)
  PROVE  LogInv'
<1>1. /\ conns \in [recorder : Nat, counter : BOOLEAN] /\ conns.recorder \in Nat
      /\ conns'.recorder = conns.recorder + 1
      /\ conns' \in [recorder : Nat, counter : BOOLEAN]
  BY DEF LogInv, LogTypes
<1>2. LogTypes'
  BY <1>1 DEF LogInv, LogTypes
<1>3. ASSUME ~ledger'.doubled PROVE ConnectedOnce' /\ LineInOrder'
  BY <1>1, <1>3 DEF LogInv, ConnectedOnce, LineInOrder
<1>4. QED
  BY <1>2, <1>3 DEF LogInv
\* What the Record button's handler does after a dialog touches the buttons only.
LEMMA AfterRecordKeeps ==
  ASSUME NEW by, NEW r \in RecorderType
  PROVE  /\ AfterRecord(by, r) \in RecorderType
         /\ AfterRecord(by, r).open = r.open /\ AfterRecord(by, r).log = r.log
  BY DEF AfterRecord, RecorderType

LEMMA FrontOfDialogs ==
  ASSUME NEW S, NEW s \in Seq(S), s # << >>
  PROVE  Front(s) \in Seq(S)
  BY DEF Front

\* A dialog of onStartRecording is closed.
LEMMA DialogKeepsLog ==
  ASSUME LogInv, ledger \in LedgerType, Dialog
  PROVE  LogInv'
<1>1. /\ recorder \in RecorderType /\ dialogs \in Seq({"button", "trigger"})
      /\ conns \in [recorder : Nat, counter : BOOLEAN]
  BY DEF LogInv, LogTypes
<1>2. dialogs' \in Seq({"button", "trigger"}) /\ UNCHANGED <<queue, frames>>
  BY <1>1, FrontOfDialogs DEF Dialog, DialogCancelled, RecordingStarts, RecordingFails,
     captureVars
<1>3. /\ OpenedOver.doubled <=> ledger.doubled \/ (recorder.open /\ conns.recorder > 0)
  BY DEF OpenedOver, LedgerType
<1>4. CASE DialogCancelled
  BY <1>1, <1>4, AfterRecordKeeps, <1>2, SameLog DEF DialogCancelled, captureVars
<1>5. CASE RecordingStarts
  <2> DEFINE r == [recorder EXCEPT !.open = TRUE, !.log = << >>, !.shown = TRUE]
  <2>1. r \in RecorderType /\ r.open /\ r.log = << >>
    <3>1. << >> \in Seq(Nat)
      OBVIOUS
    <3>2. QED
      BY <1>1, <3>1 DEF RecorderType
  <2>2. /\ recorder' = AfterRecord(Last(dialogs), r) /\ ledger' = OpenedOver
        /\ conns' = [conns EXCEPT !.recorder = @ + 1]
    BY <1>5 DEF RecordingStarts
  <2> HIDE DEF r
  <2>3. recorder' \in RecorderType /\ recorder'.open /\ recorder'.log = << >>
    BY <2>1, <2>2, AfterRecordKeeps
  <2>4. QED
    BY <1>2, <1>3, <2>2, <2>3, StartKeepsLog
<1>6. CASE RecordingFails
  <2> DEFINE r == [recorder EXCEPT !.open = FALSE]
  <2>1. r \in RecorderType /\ ~r.open /\ r.log = recorder.log
    BY <1>1 DEF RecorderType
  <2>2. /\ recorder' = AfterRecord(Last(dialogs), r) /\ ledger' = OpenedOver /\ conns' = conns
    BY <1>6 DEF RecordingFails, captureVars
  <2> HIDE DEF r
  <2>3. recorder' \in RecorderType /\ ~recorder'.open /\ recorder'.log = recorder.log
    BY <2>1, <2>2, AfterRecordKeeps
  <2>4. LogTypes'
    BY <1>1, <1>2, <2>2, <2>3 DEF LogInv, LogTypes
  <2>5. ASSUME ~ledger'.doubled PROVE ConnectedOnce' /\ LineInOrder'
    <3>1. /\ ConnectedOnce /\ LineInOrder /\ conns.recorder \in Nat
          /\ ~(recorder.open /\ conns.recorder > 0)
      BY <1>1, <1>3, <2>2, <2>5 DEF LogInv
    <3>2. conns.recorder = 0
      BY <3>1 DEF ConnectedOnce
    <3>3. ConnectedOnce'
      BY <1>2, <2>2, <3>1, <3>2 DEF ConnectedOnce
    <3>4. LineInOrder'
      BY <1>2, <2>3, <3>1 DEF LineInOrder
    <3>5. QED
      BY <3>3, <3>4
  <2>6. QED
    BY <2>4, <2>5 DEF LogInv
<1>7. QED
  BY <1>4, <1>5, <1>6 DEF Dialog

\* Stopping cuts the connection with the recording.
LEMMA StoppedLog ==
  ASSUME NEW r \in RecorderType, StopRecording(r)
  PROVE  /\ recorder' \in RecorderType /\ recorder'.log = r.log
         /\ conns' \in [recorder : Nat, counter : BOOLEAN] /\ conns'.recorder = 0
  BY DEF StopRecording, Stopped, RecorderType

LEMMA HandleKeepsLog ==
  ASSUME LogInv, Handle
  PROVE  LogInv'
<1>1. /\ recorder \in RecorderType /\ dialogs \in Seq({"button", "trigger"})
      /\ conns \in [recorder : Nat, counter : BOOLEAN]
      /\ queue \in Seq(PostedType) /\ recorder.log \in Seq(Nat)
  BY DEF LogInv, LogTypes, RecorderType
<1>2. queue # << >> /\ queue' = Tail(queue) /\ UNCHANGED <<frames, ledger>>
  BY DEF Handle, HandleFrame, HandleFired, Handled
<1>3. CASE HandleFrame
  <2> DEFINE more == [i \in 1..Head(queue).writes |-> Head(queue).n]
  <2>1. Head(queue).event = "frame" /\ UNCHANGED <<conns, dialogs>>
        /\ recorder' = IF recorder.open
                       THEN [recorder EXCEPT !.log = recorder.log \o more] ELSE recorder
    BY <1>3 DEF HandleFrame
  <2>2. recorder.log \o more \in Seq(Nat)
    <3>1. Head(queue) \in PostedType
      BY <1>1, <1>2
    <3>2. more \in Seq(Nat)
      BY <3>1 DEF PostedType
    <3> HIDE DEF more
    <3>3. QED
      BY <1>1, <3>2
  <2> HIDE DEF more
  <2>3. /\ recorder' \in RecorderType /\ recorder'.open = recorder.open
        /\ recorder'.log = recorder.log \/ recorder'.log = recorder.log \o more
    BY <1>1, <2>1, <2>2 DEF RecorderType
  <2>4. QED
    BY <1>1, <1>2, <2>1, <2>3, HandlingKeepsLog DEF more
<1>4. CASE HandleFired
  <2>1. \/ StopRecording(recorder) /\ dialogs' = dialogs
        \/ UNCHANGED <<recorder, conns>> /\ dialogs' \in {dialogs, Append(dialogs, "trigger")}
    BY <1>4 DEF HandleFired
  <2>2. dialogs' \in Seq({"button", "trigger"})
    BY <1>1, <2>1
  <2>3. CASE StopRecording(recorder)
    BY <1>1, <1>2, <2>2, <2>3, StoppedLog, HandlingKeepsLog
  <2>4. CASE UNCHANGED <<recorder, conns>>
    BY <1>1, <1>2, <2>2, <2>4, HandlingKeepsLog
  <2>5. QED
    BY <2>1, <2>3, <2>4
<1>5. QED
  BY <1>3, <1>4 DEF Handle

LEMMA BenchKeepsLog ==
  ASSUME TriggerInv, LogInv, BenchNext
  PROVE  LogInv'
<1>1. /\ recorder \in RecorderType /\ dialogs \in Seq({"button", "trigger"})
      /\ conns \in [recorder : Nat, counter : BOOLEAN] /\ ledger \in LedgerType
  BY DEF LogInv, LogTypes, TriggerInv, TriggerTypes
\* What touches neither the connections nor the recording.
<1>2. ASSUME UNCHANGED <<queue, frames, recorder, conns>>,
             dialogs' \in Seq({"button", "trigger"}), ledger'.doubled = ledger.doubled
      PROVE  LogInv'
  BY <1>1, <1>2, SameLog
<1>3. CASE SetupCapture
  BY <1>3, <1>1, SameLog DEF SetupCapture, LedgerType
<1>4. CASE Arm \/ Disarm \/ ApplyConfig
  BY <1>4, <1>1, <1>2 DEF Arm, Disarm, ApplyConfig, ConfigChanged, LedgerType
<1>5. CASE IfaceChanged \/ NetChanged \/ OpenProject \/ BitrateChanged \/ FpsTick
           \/ StatusTimeout
  BY <1>5, <1>1, <1>2 DEF IfaceChanged, NetChanged, OpenProject, BitrateChanged, FpsTick,
     StatusTimeout, captureVars
<1>6. CASE ClickRecord
  BY <1>6, <1>1, <1>2 DEF ClickRecord, captureVars
<1>7. CASE ClickStop
  <2> DEFINE r == [recorder EXCEPT !.record = TRUE, !.stop = FALSE]
  <2>1. r \in RecorderType /\ r.log = recorder.log
    BY <1>1 DEF RecorderType
  <2>2. StopRecording(r) /\ UNCHANGED <<queue, frames, dialogs, ledger>>
    BY <1>7 DEF ClickStop
  <2> HIDE DEF r
  <2>3. QED
    BY <1>1, <2>1, <2>2, StoppedLog, SameLog
<1>8. QED
  BY <1>1, <1>3, <1>4, <1>5, <1>6, <1>7, CaptureKeepsLog, DialogKeepsLog, HandleKeepsLog
  DEF BenchNext, User

LEMMA BenchInitLog ==
  ASSUME BenchInit PROVE LogInv
<1>1. LogTypes
  BY DEF BenchInit, LogTypes, RecorderType
<1>2. Len(queue) = 0 /\ Len(recorder.log) = 0
  BY DEF BenchInit
<1>3. ConnectedOnce
  BY <1>2 DEF BenchInit, ConnectedOnce
<1>4. LineInOrder
  BY <1>2 DEF LineInOrder
<1>5. QED
  BY <1>1, <1>3, <1>4 DEF LogInv

\* The bench's log holds each frame at most once and in the order of the bus, whatever
\* starts, stops, restarts and triggers surround it and whatever is queued meanwhile.
THEOREM LogsInOrder == Spec => []RecordingSound
<1>1. Init => (On("bench") => TriggerInv /\ LogInv)
  BY BenchInitTrigger, BenchInitLog DEF Init, On
<1>2. (On("bench") => TriggerInv /\ LogInv) /\ [Next]_pagesVars
        => (On("bench") => TriggerInv /\ LogInv)'
  <2>1. CASE UNCHANGED pagesVars
    <3>1. UNCHANGED <<page, capture, gui, panel, iface, ledger, conns, queue, frames,
                      recorder, dialogs>>
      BY <2>1 DEF pagesVars, sessionVars, benchVars, captureVars, guiVars
    <3>2. TriggerInv => TriggerInv'
      BY <3>1 DEF TriggerInv, TriggerTypes, ArmedAsShown, MatchingUnfired
    <3>3. LogInv => LogInv'
      BY <3>1 DEF LogInv, LogTypes, ConnectedOnce, LineInOrder
    <3>4. QED
      BY <3>1, <3>2, <3>3 DEF On
  <2>2. CASE On("bench") /\ BenchNext
    BY <2>2, BenchKeepsTrigger, BenchKeepsLog
  <2>3. CASE ~On("bench") /\ page' = page
    BY <2>3 DEF On
  <2>4. ASSUME Next PROVE \/ On("bench") /\ BenchNext
                          \/ ~On("bench") /\ page' = page
    BY <2>4 DEF Next, Others, On
  <2>5. QED
    BY <2>1, <2>2, <2>3, <2>4
<1>3. (On("bench") => TriggerInv /\ LogInv) => RecordingSound
  BY DEF RecordingSound, LogInv, LineInOrder, LogInOrder
<1>4. QED
  BY <1>1, <1>2, <1>3, PTL DEF Spec

-------------------------------------------------------------------------------
(* The pages *)

\* A behaviour keeps to its page, and a step of the page is one of its module.
LEMMA PageSteps ==
  ASSUME [Next]_pagesVars
  PROVE  /\ page' = page
         /\ On("script") => ScriptNext \/ UNCHANGED script
         /\ On("update") => UpdateNext \/ UNCHANGED updateVars
         /\ On("elm327") => ElmNext \/ UNCHANGED elmVars
         /\ On("doip") => DoipNext \/ UNCHANGED doipVars
         /\ On("xcp") => XcpNext \/ UNCHANGED xcpVars
         /\ On("bam") => BamNext \/ UNCHANGED bam
         /\ On("verify") => VerifyNext \/ UNCHANGED verify
         /\ On("checked") => CheckedNext \/ UNCHANGED checked
         /\ On("scan") => ScanNext \/ UNCHANGED scan
         /\ On("transmit") => TransmitNext \/ UNCHANGED transmit
         /\ On("fuzz") => FuzzNext \/ UNCHANGED fuzz
         /\ On("bisect") => BisectNext \/ UNCHANGED bisect
         /\ On("simulator") => SimNext \/ UNCHANGED simVars
         /\ On("tree") => TreeNext \/ UNCHANGED tree
         /\ On("ecus") => EcuNext \/ UNCHANGED ecus
         /\ On("project") => ProjectNext \/ UNCHANGED project
         /\ On("builder") => BuilderNext \/ UNCHANGED builder
         /\ On("diff") => DiffNext \/ UNCHANGED diff
         /\ On("wiggle") => WiggleNext \/ UNCHANGED wiggle
         /\ On("monitor") => MonitorNext \/ UNCHANGED monitor
         /\ On("sdo") => SdoNext \/ UNCHANGED sdo
         /\ On("pdo") => PdoNext \/ UNCHANGED pdo
         /\ On("graph") => GraphNext \/ UNCHANGED graph
<1>1. CASE UNCHANGED pagesVars
  BY <1>1, SMTT(30) DEF pagesVars, sessionVars, sendVars, protocolVars, detectVars, editVars, projectVars
<1>2. CASE Next
  BY <1>2 DEF Next, Others, On
<1>3. QED
  BY <1>1, <1>2
-------------------------------------------------------------------------------
(* Jobs *)

LEMMA ScriptKept ==
  ASSUME ScriptInv, ScriptNext
  PROVE  ScriptInv'
<1>1. CASE RunClicked
  BY <1>1 DEF RunClicked, ScriptInv, ScriptType, Going
<1>2. CASE StopClicked
  BY <1>2 DEF StopClicked, ScriptInv, ScriptType, Going
<1>3. CASE PanelDeleted
  BY <1>3 DEF PanelDeleted, ScriptInv, ScriptType, Going
<1>4. CASE PanelJoins
  BY <1>4 DEF PanelJoins, ScriptInv, ScriptType, Going
<1>5. CASE RunReturns
  BY <1>5 DEF RunReturns, ScriptInv, ScriptType, Going
<1>6. CASE ResultShown
  BY <1>6 DEF ResultShown, ScriptInv, ScriptType, Going
<1>7. CASE RunStarts
  BY <1>7 DEF RunStarts, ScriptInv, ScriptType, Going
<1>8. CASE RunFails
  BY <1>8 DEF RunFails, ScriptInv, ScriptType, Going
<1>9. CASE HookAborts
  BY <1>9 DEF HookAborts, ScriptInv, ScriptType, Going
<1>10. CASE ScriptReturns
  BY <1>10 DEF ScriptReturns, ScriptInv, ScriptType, Going
<1>11. CASE WatchdogWakes
  BY <1>11 DEF WatchdogWakes, ScriptInv, ScriptType, Going
<1>12. QED
  BY <1>1, <1>2, <1>3, <1>4, <1>5, <1>6, <1>7, <1>8, <1>9, <1>10, <1>11
     DEF ScriptNext, ScriptReacts

LEMMA UpdateKept ==
  ASSUME UpdateInv, UpdateNext
  PROVE  UpdateInv'
<1>1. Releases \subseteq Nat \ {0} /\ Damaged = -1
  BY ReleasesAssumption DEF Damaged
<1>2. CASE CheckClicked
  BY <1>2 DEF CheckClicked, UpdateInv, UpdateStates, Phases
<1>3. CASE DialogClosed
  BY <1>3 DEF DialogClosed, UpdateInv, Phases
<1>4. CASE DownloadClicked
  BY <1>4 DEF DownloadClicked, UpdateInv, UpdateStates, Phases
<1>5. CASE ReplyFails
  BY <1>5 DEF ReplyFails, Shows, UpdateInv, UpdateStates, Phases
<1>6. CASE ManifestReply
  BY <1>6 DEF ManifestReply, UpdateInv, UpdateStates, Phases
<1>7. CASE SigReply
  <2>1. updater.manifest \in Manifests /\ updater.state = "FetchSig" /\ installed' = installed
    BY <1>7 DEF SigReply, UpdateInv
  <2>2. CASE updater.manifest # Damaged /\ Stored
    <3>1. updater.manifest \in Int /\ updater.manifest \in Manifests \ {Damaged}
      <4>1. updater.manifest \in Releases \cup {0}
        BY <2>1, <2>2 DEF Manifests
      <4>2. \A m \in Releases \cup {0} : m \in Int
        BY <1>1
      <4>3. QED
        BY <2>1, <2>2, <4>1, <4>2
    <3>2. /\ updater' \in [state : UpdateStates, manifest : Manifests,
                           version : Manifests \ {Damaged}]
          /\ updater'.state = "Idle" /\ updater'.version = updater.manifest
      BY <2>2, <3>1 DEF Stored, UpdateInv, UpdateStates
    <3>3. dialog' \in {"none", "Error", "Available", "Done"}
          /\ (dialog' = "Available" => updater.manifest > 1)
      BY <2>2, <3>1 DEF Stored, Shows
    <3>4. QED
      BY <2>1, <3>1, <3>2, <3>3 DEF UpdateInv, Phases
  <2>3. CASE updater' = [updater EXCEPT !.state = "Idle"] /\ Shows("Error")
    BY <2>1, <2>3 DEF Shows, UpdateInv, UpdateStates, Phases
  <2>4. QED
    BY <1>7, <2>2, <2>3 DEF SigReply
<1>8. CASE ImageReply
  BY <1>8 DEF ImageReply, UpdateInv, Manifests, Shows, UpdateStates, Phases
<1>9. QED
  BY <1>2, <1>3, <1>4, <1>5, <1>6, <1>7, <1>8 DEF UpdateNext, UpdateReacts

\* What runs in the background agrees with what asked for it: no script runs without its
\* engine or misses a Stop, no dialog waits for a reply that will not come, nothing is
\* installed that no verified manifest names; for any releases and any order of clicks,
\* closings, failures and late replies.
THEOREM JobsAgree == Spec => []JobsSound
<1> DEFINE JobsInv == (On("script") => ScriptInv) /\ (On("update") => UpdateInv)
<1>1. Init => JobsInv
  <2>1. ScriptInit => ScriptInv
    BY DEF ScriptInit, ScriptInv, ScriptType, Going
  <2>2. UpdateInit => UpdateInv
    BY DEF UpdateInit, UpdateInv, UpdateStates, Phases, Manifests, Damaged
  <2>3. QED
    BY <2>1, <2>2 DEF Init
<1>2. JobsInv /\ [Next]_pagesVars => JobsInv'
  BY PageSteps, ScriptKept, UpdateKept DEF ScriptInv, Going, UpdateInv, updateVars, On
<1>3. JobsInv => JobsSound
  BY ReleasesAssumption DEF ScriptInv, ScriptSound, Going, UpdateInv, UpdateSound, Damaged,
     JobsSound
<1>4. QED
  BY <1>1, <1>2, <1>3, PTL DEF Spec

-------------------------------------------------------------------------------
(* Sending *)

LEMMA TransmitKept ==
  ASSUME TransmitInv, TransmitNext
  PROVE  TransmitInv'
<1>1. CASE TransmitEdits \/ SendOnce
  BY <1>1 DEF TransmitEdits, SendOnce, TransmitInv, Statuses
<1>2. CASE TogglePeriodic
  BY <1>2 DEF TogglePeriodic, Unchecked, TransmitInv, Statuses
<1>3. CASE PeriodicTick
  <2>1. transmit.fields \in SendFrames /\ transmit.checked /\ transmit.count + 1 \in Nat
    BY <1>3 DEF PeriodicTick, TransmitInv
  <2>2. transmit.sent \cup {transmit.fields} \in SUBSET SendFrames
    BY <2>1 DEF TransmitInv
  <2>3. QED
    BY <1>3, <2>1, <2>2 DEF PeriodicTick, Unchecked, TransmitInv, Statuses
<1>4. QED
  BY <1>1, <1>2, <1>3 DEF TransmitNext

LEMMA FuzzFrameType == FuzzTypes => FuzzFrames \subseteq FuzzPatterns
<1>1. ASSUME FuzzTypes, fuzz.mode = "random" PROVE FuzzFrames \subseteq FuzzPatterns
  BY <1>1 DEF FuzzFrames, FuzzPatterns, FuzzBytes
<1>2. ASSUME FuzzTypes, fuzz.mode = "increment" PROVE FuzzFrames \subseteq FuzzPatterns
  BY <1>2 DEF FuzzFrames, FuzzPatterns, FuzzTypes
<1>3. ASSUME FuzzTypes, fuzz.mode = "flip" PROVE FuzzFrames \subseteq FuzzPatterns
  BY <1>3 DEF FuzzFrames, FuzzPatterns
<1>4. QED
  BY <1>1, <1>2, <1>3 DEF FuzzTypes

LEMMA IncrementedType == \A b \in FuzzBytes : Incremented(b) \in FuzzBytes
  BY DEF Incremented, FuzzBytes

LEMMA FuzzKept ==
  ASSUME FuzzInv, FuzzNext
  PROVE  FuzzInv'
<1>1. CASE FuzzMode
  BY <1>1 DEF FuzzMode, FuzzInv, FuzzTypes
<1>2. CASE ToggleFuzz
  <2>1. <<0, 0>> \in FuzzBytes /\ << >> \in Seq(FuzzPatterns)
    BY DEF FuzzBytes
  <2>2. CASE fuzz.on
    BY <1>2, <2>2 DEF ToggleFuzz, FuzzStopped, FuzzInv, FuzzTypes
  <2>3. CASE ~fuzz.on
    <3>1. Len(<< >>) = 0 /\ 2..0 = {}
      OBVIOUS
    <3>2. FuzzTypes' /\ fuzz'.timer = fuzz'.on /\ fuzz'.count = 0 /\ fuzz'.sent = << >>
      BY <1>2, <2>1, <2>3 DEF ToggleFuzz, FuzzInv, FuzzTypes
    <3>3. QED
      BY <3>1, <3>2 DEF FuzzInv
  <2>4. QED
    BY <2>2, <2>3 DEF FuzzInv, FuzzTypes
<1>3. CASE FuzzTick
  <2> DEFINE next == IF fuzz.mode = "increment" THEN Incremented(fuzz.bytes) ELSE fuzz.bytes
  <2>1. next \in FuzzBytes
    BY IncrementedType DEF FuzzInv, FuzzTypes
  <2>2. PICK f \in FuzzFrames :
          \/ fuzz' = [fuzz EXCEPT !.bytes = next, !.count = fuzz.count + 1,
                                  !.sent = Append(fuzz.sent, f)]
          \/ fuzz' = [fuzz EXCEPT !.bytes = next, !.on = FALSE, !.timer = FALSE]
    BY <1>3 DEF FuzzTick, FuzzInv, FuzzTypes
  <2>3. f \in FuzzPatterns
    BY FuzzFrameType DEF FuzzInv
  <2> HIDE DEF next
  <2>4. CASE fuzz' = [fuzz EXCEPT !.bytes = next, !.on = FALSE, !.timer = FALSE]
    BY <2>1, <2>4 DEF FuzzInv, FuzzTypes
  <2>5. CASE fuzz' = [fuzz EXCEPT !.bytes = next, !.count = fuzz.count + 1,
                                  !.sent = Append(fuzz.sent, f)]
    <3>1. fuzz.sent \in Seq(FuzzPatterns) /\ fuzz.count \in Nat /\ Len(fuzz.sent) \in Nat
      BY DEF FuzzInv, FuzzTypes
    <3>2. /\ Append(fuzz.sent, f) \in Seq(FuzzPatterns)
          /\ Len(Append(fuzz.sent, f)) = Len(fuzz.sent) + 1
          /\ \A i \in 1..Len(fuzz.sent) : Append(fuzz.sent, f)[i] = fuzz.sent[i]
          /\ Append(fuzz.sent, f)[Len(fuzz.sent) + 1] = f
      BY <2>3, <3>1, AppendProperties
    <3>3. FuzzTypes' /\ fuzz'.count = fuzz.count + 1 /\ fuzz'.bytes = next
          /\ fuzz'.sent = Append(fuzz.sent, f) /\ fuzz'.mode = fuzz.mode
          /\ fuzz'.on = fuzz.on /\ fuzz'.timer = fuzz.timer
      <4>1. fuzz.count + 1 \in Nat
        BY <3>1
      <4>2. QED
        BY <2>1, <2>5, <3>2, <4>1 DEF FuzzInv, FuzzTypes
    <3>4. ASSUME fuzz.mode = "increment", fuzz.on
          PROVE  /\ \A i \in 2..Len(fuzz'.sent) : fuzz'.sent[i] = Incremented(fuzz'.sent[i - 1])
                 /\ fuzz'.bytes = Incremented(fuzz'.sent[Len(fuzz'.sent)])
      BY <3>4, <3>2, <3>3, <3>1 DEF FuzzFrames, next, FuzzInv
    <3>5. fuzz'.count = Len(fuzz'.sent) /\ fuzz'.timer = fuzz'.on
      BY <3>2, <3>3 DEF FuzzInv
    <3>6. QED
      BY <3>3, <3>4, <3>5 DEF FuzzInv
  <2>6. QED
    BY <2>2, <2>4, <2>5
<1>4. QED
  BY <1>1, <1>2, <1>3 DEF FuzzNext

LEMMA NarrowedKeeps ==
  ASSUME BisectInv, NEW lo \in Nat, NEW hi \in Nat, bisect' = Narrowed(lo, hi),
         ~bisect.emptied =>
           /\ hi <= bisect.frames
           /\ bisect.frames > 0 /\ lo <= bisect.culprit /\ bisect.culprit < hi
  PROVE  BisectInv'
<1> DEFINE wide == hi - lo > 1
<1>1. wide \in BOOLEAN
  OBVIOUS
<1>2. bisect' = [bisect EXCEPT !.lo = lo, !.hi = hi, !.enabled = wide]
  BY DEF Narrowed
<1>3. wide <=> hi - lo > 1
  OBVIOUS
<1> HIDE DEF wide
<1>4. /\ bisect' \in [frames : Nat, lo : Nat, hi : Nat, enabled : BOOLEAN, reset : BOOLEAN,
                      culprit : Nat, emptied : BOOLEAN]
      /\ bisect'.lo = lo /\ bisect'.hi = hi /\ bisect'.enabled = wide
      /\ bisect'.frames = bisect.frames /\ bisect'.culprit = bisect.culprit
      /\ bisect'.emptied = bisect.emptied
  BY <1>1, <1>2 DEF BisectInv
<1>5. QED
  BY <1>3, <1>4 DEF BisectInv

LEMMA BisectKept ==
  ASSUME BisectInv, BisectNext
  PROVE  BisectInv'
<1>1. /\ bisect.lo \in Nat /\ bisect.hi \in Nat /\ bisect.culprit \in Nat
      /\ bisect.frames \in Nat
  BY DEF BisectInv
<1>2. Mid \in Nat /\ (bisect.hi - bisect.lo > 1 => bisect.lo < Mid /\ Mid < bisect.hi)
  BY <1>1 DEF Mid
<1>3. CASE LoadCapture
  <2>1. CASE bisect' = [bisect EXCEPT !.frames = 0, !.emptied = TRUE]
    BY <2>1 DEF BisectInv
  <2>2. ASSUME NEW n \in 1..MaxCapture, NEW c \in 0..(MaxCapture - 1), c < n,
               bisect' = [frames |-> n, lo |-> 0, hi |-> n, enabled |-> n > 1, reset |-> TRUE,
                          culprit |-> c, emptied |-> FALSE]
        PROVE  BisectInv'
    <3> DEFINE wide == n > 1
    <3>1. n \in Nat /\ n > 0 /\ c \in Nat /\ wide \in BOOLEAN /\ (wide <=> n - 0 > 1)
      BY <2>2, SendAssumption
    <3>2. bisect' = [frames |-> n, lo |-> 0, hi |-> n, enabled |-> wide, reset |-> TRUE,
                     culprit |-> c, emptied |-> FALSE]
      BY <2>2
    <3> HIDE DEF wide
    <3>3. QED
      BY <2>2, <3>1, <3>2 DEF BisectInv
  <2>3. QED
    BY <1>3, <2>1, <2>2 DEF LoadCapture
<1>4. CASE EventInFirstHalf
  BY <1>4, <1>1, <1>2, NarrowedKeeps DEF EventInFirstHalf, BisectInv
<1>5. CASE EventInSecondHalf
  BY <1>1, <1>2, <1>5, NarrowedKeeps DEF EventInSecondHalf, BisectInv
<1>6. CASE BisectReset
  BY <1>6, <1>1, NarrowedKeeps DEF BisectReset, BisectInv
<1>7. QED
  BY <1>3, <1>4, <1>5, <1>6 DEF BisectNext

\* A periodic frame is the one in the locked fields, the fuzzer skips no pattern, and the
\* bisection never loses the frame the user looks for; for frames, counts and captures of
\* any number and whatever sends fail between the clicks.
THEOREM SendsAsShown == Spec => []SendsSound
<1> DEFINE SendsInv == /\ On("transmit") => TransmitInv
                       /\ On("fuzz") => FuzzInv
                       /\ On("bisect") => BisectInv
<1>1. Init => SendsInv
  <2>1. TransmitInit => TransmitInv
    BY SendAssumption DEF TransmitInit, TransmitInv, Statuses
  <2>2. FuzzInit => FuzzInv
    BY DEF FuzzBytes, FuzzInit, FuzzInv, FuzzTypes
  <2>3. BisectInit => BisectInv
    BY DEF BisectInit, BisectInv
  <2>4. QED
    BY <2>1, <2>2, <2>3 DEF Init
<1>2. SendsInv /\ [Next]_pagesVars => SendsInv'
  BY PageSteps, TransmitKept, FuzzKept, BisectKept DEF TransmitInv, FuzzInv, FuzzTypes, BisectInv,
     On
<1>3. SendsInv => SendsSound
  BY DEF TransmitInv, TransmitSound, FuzzInv, FuzzSound, BisectInv, Mid, BisectSound, SendsSound
<1>4. QED
  BY <1>1, <1>2, <1>3, PTL DEF Spec

-------------------------------------------------------------------------------
(* Links *)

LEMMA ElmKept ==
  ASSUME ElmInv, ElmNext
  PROVE  ElmInv'
<1>1. elm \in ElmType /\ line \in LineType /\ ElmClosed \in ElmType
  BY DEF ElmInv, ElmClosed, ElmType
<1>2. /\ << >> \in Seq([what : {"answer", "frame"}, link : Nat])
      /\ line.links \in Nat /\ line.links + 1 \in Nat
  BY <1>1 DEF LineType
<1>3. [line EXCEPT !.buffer = << >>] \in LineType /\ NewLine \in LineType
      /\ [line EXCEPT !.buffer = << >>].buffer = << >> /\ NewLine.buffer = << >>
  BY <1>1, <1>2 DEF NewLine, LineType
<1>4. CASE ConnectBluetooth
  BY <1>1, <1>3, <1>4 DEF ConnectBluetooth, ElmInv, ElmType, ElmClosed
<1>5. CASE BluetoothConnected
  BY <1>1, <1>5, <1>3 DEF BluetoothConnected, ElmInv, ElmType, Initializing, ElmClosed
<1>6. CASE BluetoothFails \/ DisconnectClicked
  BY <1>1, <1>3, <1>6 DEF BluetoothFails, DisconnectClicked, Closes, ElmInv, ElmClosed, ElmType
<1>7. CASE ConnectSerial
  BY <1>1, <1>3, <1>7 DEF ConnectSerial, Initializing, Closes, ElmInv, ElmType, ElmClosed
<1>8. CASE InitStep
  <2>1. elm.step \in Nat /\ elm.step + 1 \in Nat
    BY <1>1 DEF ElmType
  <2>2. CASE elm' = [elm EXCEPT !.step = elm.step + 1]
    BY <1>1, <1>8, <2>1, <2>2 DEF InitStep, ElmInv, ElmType
  <2>3. CASE elm' = [elm EXCEPT !.state = "Monitoring", !.timer = FALSE]
    BY <1>1, <1>8, <2>3 DEF InitStep, ElmInv, ElmType
  <2>4. QED
    BY <1>1, <1>8, <2>2, <2>3 DEF InitStep, ElmType
<1>9. CASE Reads
  <2>1. elm' = elm
    BY <1>9 DEF Reads
  <2>2. CASE line.buffer = << >>
    <3>1. PICK what \in {"answer", "frame"} :
            line' = [line EXCEPT !.buffer = <<[what |-> what, link |-> line.links]>>]
      BY <1>9, <2>2 DEF Reads
    <3>2. /\ <<[what |-> what, link |-> line.links]>>
               \in Seq([what : {"answer", "frame"}, link : Nat])
          /\ Head(<<[what |-> what, link |-> line.links]>>).link = line.links
      BY <1>2
    <3>3. line' \in LineType /\ Head(line'.buffer).link = line'.links
      BY <1>1, <3>1, <3>2 DEF LineType
    <3>4. QED
      BY <2>1, <3>3 DEF ElmInv
  <2>3. CASE line.buffer # << >>
    <3>1. line' \in {[line EXCEPT !.buffer = << >>],
                     [line EXCEPT !.buffer = << >>,
                                  !.reported = <<Head(line.buffer).link, line.links>>]}
      BY <1>1, <1>9, <2>3 DEF Reads, LineType
    <3>2. <<Head(line.buffer).link, line.links>> \in {<<n, n>> : n \in Nat}
      BY <1>2, <2>3 DEF ElmInv
    <3>3. line' \in LineType /\ line'.buffer = << >>
      BY <1>1, <1>2, <3>1, <3>2 DEF LineType
    <3>4. QED
      BY <2>1, <3>3 DEF ElmInv
  <2>4. QED
    BY <2>2, <2>3
<1>10. QED
  BY <1>4, <1>5, <1>6, <1>7, <1>8, <1>9 DEF ElmNext, ElmReacts

LEMMA XcpKept ==
  ASSUME XcpInv, XcpNext
  PROVE  XcpInv'
<1> DEFINE Places == {"none", "opening", "sent", "listening", "posted"}
           Results == [asked : Commands, of : Commands]
<1>1. /\ xcp \in [busy : BOOLEAN, at : Places, cmd : Commands, result : Results]
      /\ slave \in [pending : Seq(Commands), late : BOOLEAN]
      /\ slave.pending \in Seq(Commands)
  BY DEF XcpInv, XcpTypes
<1>2. CASE CommandClicked
  BY <1>1, <1>2 DEF CommandClicked, XcpTypes, Commands, XcpInv, XcpOwed
\* A result, of what the slave answers or of nothing.
<1>3. ASSUME NEW of \in Commands, Posts(of), xcp.at # "none",
             slave' \in [pending : Seq(Commands), late : BOOLEAN],
             slave.late => slave'.late,
             ~slave'.late => slave'.pending = << >> /\ of \in {"none", xcp.cmd}
      PROVE  XcpInv'
  BY <1>1, <1>3 DEF Posts, XcpInv, XcpTypes, XcpOwed
<1>4. CASE XcpFails \/ XcpTimesOut
  BY <1>4, <1>1, <1>3 DEF XcpFails, XcpTimesOut, Commands
<1>5. CASE XcpSends
  <2>1. /\ xcp' = [xcp EXCEPT !.at = "sent"] /\ xcp.at = "opening"
        /\ slave' = [slave EXCEPT !.pending = Append(slave.pending, xcp.cmd)]
    BY <1>1, <1>5 DEF XcpSends
  <2>2. Append(slave.pending, xcp.cmd) \in Seq(Commands)
    BY <1>1
  <2>3. Append(<< >>, xcp.cmd) = <<xcp.cmd>>
    OBVIOUS
  <2>4. /\ slave' \in [pending : Seq(Commands), late : BOOLEAN] /\ slave'.late = slave.late
        /\ slave.pending = << >> => slave'.pending = <<xcp.cmd>>
    BY <1>1, <2>1, <2>2, <2>3
  <2>5. QED
    BY <1>1, <2>1, <2>4 DEF XcpInv, XcpTypes, XcpOwed
<1>6. CASE XcpListens
  BY <1>1, <1>6 DEF XcpListens, XcpInv, XcpTypes, XcpOwed
<1>7. CASE XcpResult
  BY <1>1, <1>7 DEF XcpResult, XcpInv, XcpTypes, XcpOwed
<1>8. CASE SlaveAnswers
  <2>1. /\ slave.pending # << >>
        /\ slave' = [slave EXCEPT !.pending = Tail(slave.pending)]
    BY <1>1, <1>8 DEF SlaveAnswers
  <2>2. Tail(slave.pending) \in Seq(Commands) /\ Head(slave.pending) \in Commands
    BY <1>1, <2>1
  <2>3. /\ slave' \in [pending : Seq(Commands), late : BOOLEAN]
        /\ slave'.late = slave.late /\ slave'.pending = Tail(slave.pending)
    BY <1>1, <2>1, <2>2
  <2>4. ~slave.late => slave'.pending = << >> /\ Head(slave.pending) = xcp.cmd
                       /\ xcp.at \in {"sent", "listening"}
    BY <2>1, <2>3 DEF XcpInv, XcpTypes, XcpOwed
  <2>5. CASE xcp' = xcp
    BY <1>1, <2>3, <2>4, <2>5 DEF XcpInv, XcpTypes, XcpOwed
  <2>6. CASE xcp' = [xcp EXCEPT !.at = "opening", !.cmd = "Upload"] /\ xcp.at = "listening"
    BY <1>1, <2>3, <2>4, <2>6 DEF XcpInv, XcpTypes, XcpOwed, Commands
  <2>7. CASE Posts(Head(slave.pending)) /\ xcp.at = "listening"
    BY <1>3, <2>2, <2>3, <2>4, <2>7
  <2>8. QED
    BY <1>8, <2>5, <2>6, <2>7 DEF SlaveAnswers
<1>9. QED
  BY <1>2, <1>4, <1>5, <1>6, <1>7, <1>8 DEF XcpNext, XcpReacts
LEMMA LineJoined ==
  ASSUME NEW s \in Seq(PieceType), NEW t \in Seq(PieceType), NEW k \in Nat, NEW d,
         InLine(s, k, d), InLine(t, k + Len(s), d)
  PROVE  s \o t \in Seq(PieceType) /\ Len(s \o t) = Len(s) + Len(t) /\ InLine(s \o t, k, d)
<1>1. s \o t \in Seq(PieceType) /\ Len(s \o t) = Len(s) + Len(t)
  OBVIOUS
<1>2. ASSUME NEW i \in 1..Len(s \o t)
      PROVE  IsPiece((s \o t)[i], k + i, d)
  <2>1. CASE i <= Len(s)
    BY <1>1, <2>1 DEF InLine
  <2>2. CASE i > Len(s)
    BY <1>1, <2>2 DEF InLine
  <2>3. QED
    BY <1>1, <2>1, <2>2
<1>3. QED
  BY <1>1, <1>2 DEF InLine

LEMMA LineCut ==
  ASSUME NEW s \in Seq(PieceType), NEW k \in Nat, NEW d, InLine(s, k, d),
         NEW m \in 0..Len(s), NEW n \in m..Len(s)
  PROVE  /\ SubSeq(s, m + 1, n) \in Seq(PieceType) /\ Len(SubSeq(s, m + 1, n)) = n - m
         /\ InLine(SubSeq(s, m + 1, n), k + m, d)
<1> DEFINE t == SubSeq(s, m + 1, n)
<1>1. t \in Seq(PieceType) /\ Len(t) = n - m /\ \A i \in 1..Len(t) : t[i] = s[m + i]
  BY SubSeqProperties
<1> HIDE DEF t
<1>2. ASSUME NEW i \in 1..Len(t) PROVE IsPiece(t[i], k + m + i, d)
  BY <1>1 DEF InLine
<1>3. QED
  BY <1>1, <1>2 DEF InLine, t

LEMMA EmptyLine == \A k, d : InLine(<< >>, k, d)
  BY DEF InLine

\* What is on its way, and perhaps what is held, is gone.
LEMMA LineEnds ==
  ASSUME StreamInLine, doip'.session = doip.session, doip'.granted = doip.granted,
         stream'.handled = stream.handled, stream'.rx \in {stream.rx, << >>},
         stream'.wire = << >>
  PROVE  StreamInLine'
<1>1. ASSUME NEW s, NEW k, InLine(s, k, doip) PROVE InLine(s, k, doip')
  BY <1>1 DEF InLine, IsPiece
<1>2. InLine(stream'.handled, 0, doip') /\ Len(stream'.handled) % 2 = 0
  BY <1>1 DEF StreamInLine
<1>3. InLine(stream'.rx, Len(stream'.handled), doip')
  BY <1>1, EmptyLine DEF StreamInLine
<1>4. InLine(stream'.wire, Len(stream'.handled) + Len(stream'.rx), doip')
  BY EmptyLine
<1>5. QED
  BY <1>2, <1>3, <1>4 DEF StreamInLine

LEMMA DoipClicksKept ==
  ASSUME DoipInv,
         DoipConnectClicked \/ DoipConnects \/ DoipError \/ DoipDisconnectClicked \/ DoipDisconnected
  PROVE  DoipInv'
<1>1. /\ doip \in DoipType /\ stream \in StreamType
      /\ << >> \in Seq(PieceType) /\ Len(<< >>) = 0 /\ Len(stream.handled) \in Nat
      /\ doip.session + 1 \in Nat
  BY DEF DoipInv, DoipType, StreamType
<1>2. CASE DoipConnectClicked
  <2>1. stream' = [stream EXCEPT !.rx = << >>] /\ doip.connect
    BY <1>2 DEF DoipConnectClicked, EmptiedRx
  <2>2. /\ stream' \in StreamType /\ stream'.rx = << >> /\ stream'.wire = << >>
        /\ stream'.handled = stream.handled
    BY <1>1, <2>1 DEF StreamType, DoipInv, SocketFollows
  <2>3. doip' \in DoipType /\ doip'.session = doip.session /\ doip'.granted = doip.granted
    BY <1>1, <1>2 DEF DoipConnectClicked, DoipType
  <2>4. StreamInLine'
    BY <2>2, <2>3, LineEnds DEF DoipInv
  <2>5. SocketFollows' /\ ButtonsFollowSocket'
    BY <1>1, <1>2, <2>2 DEF DoipConnectClicked, DoipType, DoipInv, SocketFollows,
                            ButtonsFollowSocket
  <2>6. QED
    BY <2>2, <2>3, <2>4, <2>5 DEF DoipInv
<1>3. CASE DoipConnects
  <2>1. /\ stream' = [stream EXCEPT !.wire = << >>, !.handled = << >>, !.sent = 0]
        /\ stream.rx = << >> /\ ~doip.connect /\ ~doip.uds
    BY <1>3 DEF DoipConnects, DoipInv, SocketFollows, ButtonsFollowSocket
  <2>2. /\ stream' \in StreamType /\ stream'.rx = << >> /\ stream'.wire = << >>
        /\ stream'.handled = << >> /\ stream'.sent = 0
    BY <1>1, <2>1 DEF StreamType
  <2>3. /\ doip' \in DoipType /\ ~doip'.connect /\ ~doip'.uds /\ doip'.disconnect
        /\ doip'.socket = "connected"
    BY <1>1, <1>3, <2>1 DEF DoipConnects, DoipType
  <2>4. StreamInLine'
    BY <1>1, <2>2, EmptyLine DEF StreamInLine
  <2>5. SocketFollows' /\ ButtonsFollowSocket'
    BY <1>1, <2>2, <2>3 DEF SocketFollows, ButtonsFollowSocket
  <2>6. QED
    BY <2>2, <2>3, <2>4, <2>5 DEF DoipInv
<1>4. CASE DoipError
  BY <1>4, <1>1, LineEnds DEF DoipError, StreamType, DoipType, DoipInv, SocketFollows,
     ButtonsFollowSocket
<1>5. CASE DoipDisconnectClicked
  <2>1. stream' = stream
    BY <1>5 DEF DoipDisconnectClicked
  <2>2. /\ doip' \in DoipType /\ doip'.session = doip.session /\ doip'.granted = doip.granted
        /\ doip'.connect = doip.connect /\ doip'.uds = doip.uds /\ doip'.active = doip.active
        /\ doip'.disconnect /\ doip'.socket = IF doip.socket = "connected" THEN "closing"
                                              ELSE doip.socket
    BY <1>1, <1>5 DEF DoipDisconnectClicked, DoipType
  <2>3. StreamInLine'
    BY <2>1, <2>2 DEF StreamInLine, DoipInv, InLine, IsPiece
  <2>4. SocketFollows' /\ ButtonsFollowSocket'
    BY <2>1, <2>2 DEF DoipInv, SocketFollows, ButtonsFollowSocket
  <2>5. QED
    BY <1>1, <2>1, <2>2, <2>3, <2>4 DEF DoipInv
<1>6. CASE DoipDisconnected
  BY <1>6, <1>1, LineEnds DEF DoipDisconnected, EmptiedRx, StreamType, DoipType, DoipInv,
     SocketFollows, ButtonsFollowSocket
<1>7. QED
  BY <1>2, <1>3, <1>4, <1>5, <1>6

\* A message more, behind those that were sent.
LEMMA EcuSendsKept ==
  ASSUME DoipInv, EcuSends
  PROVE  DoipInv'
<1>1. /\ doip \in DoipType /\ stream \in StreamType /\ doip.socket = "connected"
      /\ stream.sent \in Nat /\ doip.session \in Nat
      /\ stream.wire \in Seq(PieceType)
      /\ Len(stream.handled) \in Nat /\ Len(stream.rx) \in Nat /\ Len(stream.wire) \in Nat
      /\ Len(stream.handled) + Len(stream.rx) + Len(stream.wire) = 2 * stream.sent
  BY DEF DoipInv, DoipType, StreamType, EcuSends, SocketFollows
<1> DEFINE W == {"granted", "refused", "response"}
           Piece(what, part) == [what |-> what, part |-> part, n |-> stream.sent + 1,
                                 session |-> doip.session]
<1>2. PICK what \in W :
        /\ stream' = [stream EXCEPT !.sent = stream.sent + 1,
             !.wire = stream.wire \o <<Piece(what, "header"), Piece(what, "payload")>>]
        /\ doip' = [doip EXCEPT !.granted = doip.granted \/ what = "granted"]
  BY <1>1 DEF EcuSends, DoipType, StreamType
<1> DEFINE two == <<Piece(what, "header"), Piece(what, "payload")>>
           at  == Len(stream.handled) + Len(stream.rx)
<1>3. /\ doip' \in DoipType /\ doip'.session = doip.session
      /\ doip'.granted <=> (doip.granted \/ what = "granted")
      /\ doip'.socket = doip.socket /\ doip'.connect = doip.connect
      /\ doip'.disconnect = doip.disconnect /\ doip'.uds = doip.uds
      /\ doip'.active = doip.active
  BY <1>1, <1>2 DEF DoipType
<1>4. two \in Seq(PieceType) /\ Len(two) = 2
      /\ two[1] = Piece(what, "header") /\ two[2] = Piece(what, "payload")
  <2>1. stream.sent + 1 \in Nat
    BY <1>1
  <2>2. Piece(what, "header") \in PieceType /\ Piece(what, "payload") \in PieceType
    BY <1>1, <2>1 DEF PieceType
  <2> HIDE DEF Piece
  <2>3. QED
    BY <2>2
<1>5. InLine(two, at + Len(stream.wire), doip')
  <2>1. at + Len(stream.wire) = 2 * stream.sent
    BY <1>1
  <2>2. /\ (2 * stream.sent + 1) % 2 = 1 /\ (2 * stream.sent + 1 + 1) \div 2 = stream.sent + 1
        /\ (2 * stream.sent + 2) % 2 = 0 /\ (2 * stream.sent + 2 + 1) \div 2 = stream.sent + 1
    <3>1. stream.sent \in Nat
      BY DEF DoipInv, StreamType
    <3>2. \A n \in Nat : (2 * n + 1) % 2 = 1
      BY SMTT(30)
    <3>3. \A n \in Nat : (2 * n + 1 + 1) \div 2 = n + 1
      BY SMTT(30)
    <3>4. \A n \in Nat : (2 * n + 2) % 2 = 0
      BY SMTT(30)
    <3>5. \A n \in Nat : (2 * n + 2 + 1) \div 2 = n + 1
      BY SMTT(30)
    <3>6. QED
      BY <3>1, <3>2, <3>3, <3>4, <3>5
  <2>3. what = "granted" => doip'.granted
    BY <1>3
  <2>4. IsPiece(Piece(what, "header"), 2 * stream.sent + 1, doip')
    BY <1>3, <2>2, <2>3 DEF IsPiece
  <2>5. IsPiece(Piece(what, "payload"), 2 * stream.sent + 2, doip')
    BY <1>3, <2>2, <2>3 DEF IsPiece
  <2>6. \A i \in 1..2 : i = 1 \/ i = 2
    OBVIOUS
  <2> HIDE DEF Piece, two, at
  <2>7. QED
    BY <1>4, <2>1, <2>4, <2>5, <2>6 DEF InLine
<1>6. ASSUME NEW s, NEW k, InLine(s, k, doip) PROVE InLine(s, k, doip')
  BY <1>3, <1>6 DEF InLine, IsPiece
<1>7. /\ InLine(stream.handled, 0, doip') /\ InLine(stream.rx, Len(stream.handled), doip')
      /\ InLine(stream.wire, at, doip') /\ Len(stream.handled) % 2 = 0
  BY <1>6 DEF DoipInv, StreamInLine
<1> HIDE DEF two, Piece
<1>8. /\ stream.wire \o two \in Seq(PieceType) /\ Len(stream.wire \o two) = Len(stream.wire) + 2
      /\ InLine(stream.wire \o two, at, doip')
  <2>1. at \in Nat
    <3> DEFINE h == Len(stream.handled)
               r == Len(stream.rx)
    <3>1. h \in Nat /\ r \in Nat
      BY <1>1
    <3> HIDE DEF h, r
    <3>2. h + r \in Nat
      BY <3>1
    <3>3. QED
      BY <3>2 DEF h, r
  <2> HIDE DEF at
  <2>2. QED
    BY <1>1, <1>4, <1>5, <1>7, <2>1, LineJoined
<1>9. /\ stream' \in StreamType /\ stream'.wire = stream.wire \o two
      /\ stream'.handled = stream.handled /\ stream'.rx = stream.rx
      /\ stream'.sent = stream.sent + 1
  <2>1. stream.sent + 1 \in Nat
    BY <1>1
  <2>2. stream' = [stream EXCEPT !.sent = stream.sent + 1, !.wire = stream.wire \o two]
    BY <1>2 DEF two
  <2>3. QED
    BY <1>1, <1>8, <2>1, <2>2 DEF StreamType
<1>10. StreamInLine'
  BY <1>7, <1>8, <1>9 DEF StreamInLine
<1>11. SocketFollows'
  <2> DEFINE h == Len(stream.handled)
             r == Len(stream.rx)
             w == Len(stream.wire)
             n == stream.sent
  <2>1. /\ h \in Nat /\ r \in Nat /\ w \in Nat /\ n \in Nat /\ h + r + w = 2 * n
        /\ Len(stream'.handled) = h /\ Len(stream'.rx) = r /\ Len(stream'.wire) = w + 2
    BY <1>1, <1>8, <1>9
  <2> HIDE DEF h, r, w, n
  <2>2. h + r + (w + 2) = 2 * (n + 1)
    BY <2>1
  <2>3. ~doip.connect
    BY <1>1 DEF DoipInv, SocketFollows
  <2>4. QED
    BY <1>1, <1>3, <1>9, <2>1, <2>2, <2>3 DEF SocketFollows, n
<1>12. ButtonsFollowSocket'
  BY <1>3 DEF ButtonsFollowSocket, DoipInv
<1>13. QED
  BY <1>3, <1>9, <1>10, <1>11, <1>12 DEF DoipInv
\* Part of what is on its way is read; the complete messages of it are handled.
LEMMA DoipReadsKept ==
  ASSUME DoipInv, DoipReads
  PROVE  DoipInv'
<1>1. /\ doip \in DoipType /\ stream \in StreamType
      /\ doip.socket \in {"connected", "closing"} /\ stream.wire # << >>
      /\ stream.handled \in Seq(PieceType) /\ stream.rx \in Seq(PieceType)
      /\ stream.wire \in Seq(PieceType)
      /\ Len(stream.handled) \in Nat /\ Len(stream.rx) \in Nat /\ Len(stream.wire) \in Nat
  BY DEF DoipInv, DoipType, StreamType, DoipReads
<1>2. PICK k \in 1..Len(stream.wire) :
        LET rx == stream.rx \o SubSeq(stream.wire, 1, k) IN
        /\ stream' = [stream EXCEPT
             !.wire = SubSeq(stream.wire, k + 1, Len(stream.wire)),
             !.rx = SubSeq(rx, Len(Complete(rx)) + 1, Len(rx)),
             !.handled = stream.handled \o Complete(rx)]
        /\ doip' = [doip EXCEPT !.active = doip.active \/ Activates(Complete(rx)),
                                !.uds = doip.uds \/ Activates(Complete(rx))]
  BY <1>1 DEF DoipReads, DoipType, StreamType
<1> DEFINE more == SubSeq(stream.wire, 1, k)
           rest == SubSeq(stream.wire, k + 1, Len(stream.wire))
           rx   == stream.rx \o more
           m    == Len(rx) - (Len(rx) % 2)
           done == SubSeq(rx, 1, m)
           held == SubSeq(rx, m + 1, Len(rx))
           h    == Len(stream.handled)
           r    == Len(stream.rx)
           w    == Len(stream.wire)
           a    == Activates(done)
<1>21. h \in Nat /\ r \in Nat /\ w \in Nat /\ k \in 1..w
  BY <1>1
<1>3. /\ InLine(stream.handled, 0, doip) /\ InLine(stream.rx, h, doip)
      /\ InLine(stream.wire, h + r, doip) /\ h % 2 = 0
  BY DEF DoipInv, StreamInLine
<1> HIDE DEF h, r, w
<1>4. /\ more \in Seq(PieceType) /\ Len(more) = k
      /\ InLine(more, h + r, doip)
  BY <1>21, <1>1, <1>3, LineCut DEF w
<1>5. /\ rest \in Seq(PieceType) /\ Len(rest) = w - k
      /\ InLine(rest, h + r + k, doip)
  BY <1>21, <1>1, <1>3, LineCut DEF w
<1> HIDE DEF more, rest
<1>6. rx \in Seq(PieceType) /\ Len(rx) = r + k /\ InLine(rx, h, doip)
  BY <1>1, <1>3, <1>4, <1>21, LineJoined DEF r
<1> HIDE DEF rx
<1>7. /\ Len(rx) \in Nat /\ m \in 0..Len(rx) /\ Len(rx) \in m..Len(rx) /\ 0 \in 0..Len(rx)
      /\ m % 2 = 0 /\ m \in Nat /\ h \in Nat
  BY <1>6, <1>21
<1> HIDE DEF m
<1>8. done \in Seq(PieceType) /\ Len(done) = m /\ InLine(done, h, doip)
  <2>1. 0 + 1 = 1 /\ h + 0 = h /\ m - 0 = m
    BY <1>7
  <2>2. QED
    BY <1>6, <1>7, <2>1, LineCut, SMTT(30)
<1>9. held \in Seq(PieceType) /\ Len(held) = Len(rx) - m /\ InLine(held, h + m, doip)
  BY <1>6, <1>7, LineCut
<1> HIDE DEF done, held
<1>10. /\ stream.handled \o done \in Seq(PieceType) /\ Len(stream.handled \o done) = h + m
       /\ InLine(stream.handled \o done, 0, doip)
  <2>1. 0 + h = h
    BY <1>7
  <2>2. QED
    BY <1>1, <1>3, <1>8, <2>1, LineJoined DEF h
<1>11. Complete(rx) = done
  BY DEF Complete, done, m
<1>12. /\ stream' = [stream EXCEPT !.wire = rest, !.rx = held, !.handled = stream.handled \o done]
       /\ doip' = [doip EXCEPT !.active = doip.active \/ a, !.uds = doip.uds \/ a]
  BY <1>2, <1>8, <1>11 DEF rest, held, rx, more
<1>13. a => doip.granted
  <2>1. SUFFICES ASSUME a PROVE doip.granted
    OBVIOUS
  <2>2. PICK i \in DOMAIN done : done[i].what = "granted"
    BY <2>1 DEF Activates
  <2>3. i \in 1..Len(done)
    BY <1>8, <2>2
  <2>4. QED
    BY <1>8, <2>2, <2>3 DEF InLine, IsPiece
<1> HIDE DEF a
<1>15. /\ doip' \in DoipType /\ doip'.session = doip.session /\ doip'.granted = doip.granted
       /\ doip'.socket = doip.socket /\ doip'.connect = doip.connect
       /\ doip'.disconnect = doip.disconnect
       /\ (doip'.active <=> doip.active \/ a) /\ (doip'.uds <=> doip.uds \/ a)
  BY <1>1, <1>12 DEF DoipType
<1>16. /\ stream' \in StreamType /\ stream'.wire = rest /\ stream'.rx = held
       /\ stream'.handled = stream.handled \o done /\ stream'.sent = stream.sent
  BY <1>1, <1>5, <1>9, <1>10, <1>12 DEF StreamType
<1>17. StreamInLine'
  <2>1. ASSUME NEW s, NEW j, InLine(s, j, doip) PROVE InLine(s, j, doip')
    BY <1>15, <2>1 DEF InLine, IsPiece
  <2>2. /\ InLine(stream.handled \o done, 0, doip') /\ InLine(held, h + m, doip')
        /\ InLine(rest, h + r + k, doip')
    BY <1>5, <1>9, <1>10, <2>1
  <2>3. h + m + Len(held) = h + r + k /\ (h + m) % 2 = 0
    BY <1>3, <1>6, <1>7, <1>9, <1>21
  <2>4. QED
    BY <1>10, <1>16, <2>2, <2>3 DEF StreamInLine
<1>18. SocketFollows'
  <2>1. ~doip.connect
    BY <1>1 DEF DoipInv, SocketFollows
  <2>2. h + m + Len(held) + Len(rest) = h + r + w
    BY <1>5, <1>6, <1>7, <1>9, <1>21
  <2>3. doip.socket = "connected" => h + r + w = 2 * stream.sent
    BY DEF DoipInv, SocketFollows, h, r, w
  <2>4. QED
    BY <1>1, <1>10, <1>15, <1>16, <2>1, <2>2, <2>3 DEF SocketFollows
<1>19. ButtonsFollowSocket'
  BY <1>1, <1>13, <1>15 DEF ButtonsFollowSocket, DoipInv
<1>20. QED
  BY <1>15, <1>16, <1>17, <1>18, <1>19 DEF DoipInv
LEMMA NoSessionType == NoSession \in SessionType /\ ~NoSession.open
<1>1. Hole \in BamPacket /\ << >> \in Seq(BamPacket)
  BY DEF Hole, BamPacket
<1>2. [i \in 1..Packets |-> Hole] \in [1..Packets -> BamPacket]
  BY <1>1
<1>3. QED
  BY <1>1, <1>2 DEF NoSession, SessionType

LEMMA FedOK ==
  ASSUME NEW s \in SessionType, SessionOK(s), NEW f \in BamFrames, f.seq # 0
  PROVE  /\ Fed(s, f) \in SessionType /\ SessionOK(Fed(s, f))
         /\ Fed(s, f).open = s.open /\ Fed(s, f).msg = s.msg
         /\ Fed(s, f).received = s.received + 1
         /\ Len(Fed(s, f).fed) = s.received + 1
<1> DEFINE t == Fed(s, f)
           p == <<f.msg, f.seq>>
           n == Len(s.fed)
<1>1. /\ f.msg \in Nat /\ f.seq \in 1..Packets /\ f.seq \in Nat /\ p \in BamPacket
      /\ p[1] = f.msg /\ p[2] = f.seq
  BY DEF BamFrames, Packets, BamPacket
<1>2. /\ s.fed \in Seq(BamPacket) /\ s.received \in Nat /\ s.received + 1 \in Nat
      /\ s.buf \in [1..Packets -> BamPacket] /\ n \in Nat
  BY DEF SessionType
<1>3. t = [s EXCEPT !.buf = [s.buf EXCEPT ![f.seq] = p], !.received = s.received + 1,
                    !.age = 0, !.fed = Append(s.fed, p)]
  BY DEF Fed, SessionType
<1> HIDE DEF t, p
<1>4. /\ Append(s.fed, p) \in Seq(BamPacket) /\ Len(Append(s.fed, p)) = n + 1
      /\ \A i \in 1..n : Append(s.fed, p)[i] = s.fed[i]
      /\ Append(s.fed, p)[n + 1] = p
  BY <1>1, <1>2, AppendProperties
<1>5. /\ [s.buf EXCEPT ![f.seq] = p] \in [1..Packets -> BamPacket]
      /\ [s.buf EXCEPT ![f.seq] = p][f.seq] = p
      /\ \A i \in 1..Packets : i # f.seq => [s.buf EXCEPT ![f.seq] = p][i] = s.buf[i]
  BY <1>1, <1>2
<1>6. /\ t \in SessionType /\ t.open = s.open /\ t.msg = s.msg
      /\ t.received = s.received + 1 /\ t.fed = Append(s.fed, p)
      /\ t.buf = [s.buf EXCEPT ![f.seq] = p]
  BY <1>2, <1>3, <1>4, <1>5 DEF SessionType
<1>7. /\ Len(t.fed) = n + 1 /\ t.fed[n + 1] = p /\ \A i \in 1..n : t.fed[i] = s.fed[i]
  BY <1>4, <1>6
<1>8. /\ t.buf[f.seq] = p /\ \A i \in 1..Packets : i # f.seq => t.buf[i] = s.buf[i]
  BY <1>5, <1>6
<1>9. s.received = n /\ \A k \in 1..n : s.fed[k][2] \in 1..Packets
  BY DEF SessionOK
<1>10. \A k \in 1..(n + 1) : k \in 1..n \/ k = n + 1
  BY <1>2
<1>11. \A k \in 1..(n + 1) : t.fed[k][2] \in 1..Packets
  BY <1>1, <1>7, <1>9, <1>10
<1>12. ASSUME \A k \in 1..(n + 1) : t.fed[k][1] = t.msg, NEW k \in 1..(n + 1)
       PROVE  t.buf[t.fed[k][2]] = t.fed[k]
  <2>1. f.msg = s.msg
    <3>1. n + 1 \in 1..(n + 1)
      BY <1>2
    <3>2. QED
      BY <1>1, <1>6, <1>7, <1>12, <3>1
  <2>2. CASE k = n + 1
    BY <1>1, <1>7, <1>8, <2>2
  <2>3. CASE k \in 1..n
    <3>1. \A i \in 1..n : i \in 1..(n + 1)
      BY <1>2
    <3>2. \A i \in 1..n : s.fed[i][1] = s.msg
      BY <1>6, <1>7, <1>12, <3>1
    <3>3. s.buf[s.fed[k][2]] = s.fed[k] /\ s.fed[k][2] \in 1..Packets
      BY <1>9, <2>3, <3>2 DEF SessionOK
    <3>4. CASE s.fed[k][2] = f.seq
      <4>1. s.fed[k] \in BamPacket /\ s.fed[k][1] = s.msg
        BY <1>2, <2>3, <3>2
      <4>2. s.fed[k] = p
        BY <2>1, <3>4, <4>1 DEF BamPacket, p
      <4>3. QED
        BY <1>1, <1>7, <1>8, <2>3, <4>2
    <3>5. CASE s.fed[k][2] # f.seq
      BY <1>7, <1>8, <2>3, <3>3, <3>5
    <3>6. QED
      BY <3>4, <3>5
  <2>4. QED
    BY <1>10, <2>2, <2>3
<1>13. SessionOK(t)
  BY <1>2, <1>6, <1>7, <1>9, <1>11, <1>12 DEF SessionOK
<1>14. QED
  BY <1>2, <1>6, <1>7, <1>9, <1>13 DEF t

LEMMA BamKept ==
  ASSUME BamInv, BamNext
  PROVE  BamInv'
<1>1. /\ bam \in [way : Seq(BamFrames), sent : [Sources -> Nat], next : [Sources -> Nat],
                  sessions : [Sources -> SessionType], heard : [Sources -> Nat],
                  delivered : SessionType]
      /\ bam.way \in Seq(BamFrames)
  BY DEF BamInv, BamTypes
\* What leaves sessions and deliveries alone.
<1>2. ASSUME bam'.sessions = bam.sessions, bam'.heard = bam.heard,
             bam'.delivered = bam.delivered, BamTypes'
      PROVE  BamInv'
  BY <1>2 DEF BamInv, SessionsOK, DeliveredOK
<1>3. CASE SourceSends
  <2>1. PICK s \in Sources :
          \/ bam' = [bam EXCEPT !.sent[s] = bam.sent[s] + 1, !.next[s] = 1,
                                !.way = Append(bam.way, [sa |-> s, msg |-> bam.sent[s] + 1,
                                                         seq |-> 0])]
          \/ /\ bam.next[s] \in 1..Packets
             /\ bam' = [bam EXCEPT !.next[s] = bam.next[s] + 1,
                                   !.way = Append(bam.way, [sa |-> s, msg |-> bam.sent[s],
                                                            seq |-> bam.next[s]])]
    BY <1>1, <1>3 DEF SourceSends
  <2>2. bam.sent[s] \in Nat /\ bam.sent[s] + 1 \in Nat /\ bam.next[s] \in Nat
        /\ bam.next[s] + 1 \in Nat /\ 1 \in Nat
    BY <1>1
  <2>3. CASE bam' = [bam EXCEPT !.sent[s] = bam.sent[s] + 1, !.next[s] = 1,
                                !.way = Append(bam.way, [sa |-> s, msg |-> bam.sent[s] + 1,
                                                         seq |-> 0])]
    <3>1. [sa |-> s, msg |-> bam.sent[s] + 1, seq |-> 0] \in BamFrames
      BY <2>2 DEF BamFrames, Packets
    <3>2. Append(bam.way, [sa |-> s, msg |-> bam.sent[s] + 1, seq |-> 0]) \in Seq(BamFrames)
      BY <1>1, <3>1
    <3>3. /\ BamTypes' /\ bam'.sessions = bam.sessions /\ bam'.heard = bam.heard
          /\ bam'.delivered = bam.delivered
      BY <1>1, <2>2, <2>3, <3>2 DEF BamTypes
    <3>4. QED
      BY <1>2, <3>3
  <2>4. CASE /\ bam.next[s] \in 1..Packets
             /\ bam' = [bam EXCEPT !.next[s] = bam.next[s] + 1,
                                   !.way = Append(bam.way, [sa |-> s, msg |-> bam.sent[s],
                                                            seq |-> bam.next[s]])]
    <3>1. [sa |-> s, msg |-> bam.sent[s], seq |-> bam.next[s]] \in BamFrames
      BY <2>2, <2>4 DEF BamFrames, Packets
    <3>2. Append(bam.way, [sa |-> s, msg |-> bam.sent[s], seq |-> bam.next[s]])
            \in Seq(BamFrames)
      BY <1>1, <3>1
    <3>3. /\ BamTypes' /\ bam'.sessions = bam.sessions /\ bam'.heard = bam.heard
          /\ bam'.delivered = bam.delivered
      BY <1>1, <2>2, <2>4, <3>2 DEF BamTypes
    <3>4. QED
      BY <1>2, <3>3
  <2>5. QED
    BY <2>1, <2>3, <2>4
<1>4. CASE BusLoses \/ BusRepeats
  <2>1. \/ bam' = [bam EXCEPT !.way = Tail(bam.way)]
        \/ bam' = [bam EXCEPT !.way = <<Head(bam.way)>> \o bam.way]
    BY <1>1, <1>4 DEF BusLoses, BusRepeats
  <2>2. bam.way # << >>
    BY <1>4 DEF BusLoses, BusRepeats
  <2>3. Tail(bam.way) \in Seq(BamFrames) /\ <<Head(bam.way)>> \o bam.way \in Seq(BamFrames)
    BY <1>1, <2>2
  <2>4. /\ BamTypes' /\ bam'.sessions = bam.sessions /\ bam'.heard = bam.heard
        /\ bam'.delivered = bam.delivered
    BY <1>1, <2>1, <2>3 DEF BamTypes
  <2>5. QED
    BY <1>2, <2>4
<1>5. CASE TimePasses
  <2>1. PICK s \in Sources : bam' = [bam EXCEPT !.sessions[s].age = 1]
    BY <1>5 DEF TimePasses
  <2> DEFINE old == bam.sessions[s]
             aged == [old EXCEPT !.age = 1]
  <2>2. old \in SessionType
    BY <1>1
  <2>3. bam' = [bam EXCEPT !.sessions = [bam.sessions EXCEPT ![s] = aged]]
    BY <1>1, <2>1
  <2>4. /\ aged \in SessionType /\ aged.open = old.open /\ aged.msg = old.msg
        /\ aged.received = old.received /\ aged.fed = old.fed /\ aged.buf = old.buf
    BY <2>2 DEF SessionType
  <2> HIDE DEF aged
  <2>5. /\ BamTypes' /\ bam'.heard = bam.heard /\ bam'.delivered = bam.delivered
        /\ \A x \in Sources : bam'.sessions[x] = IF x = s THEN aged ELSE bam.sessions[x]
    BY <1>1, <2>3, <2>4 DEF BamTypes
  <2>6. SessionOK(old) => SessionOK(aged)
    BY <2>4 DEF SessionOK
  <2>7. SessionsOK'
    BY <2>4, <2>5, <2>6 DEF BamInv, SessionsOK
  <2>8. DeliveredOK'
    BY <2>5 DEF BamInv, DeliveredOK
  <2>9. QED
    BY <2>5, <2>7, <2>8 DEF BamInv
<1>6. CASE ExpireStale
  BY <1>1, <1>6, NoSessionType DEF ExpireStale, BamTypes, BamInv, SessionsOK, DeliveredOK
<1>7. CASE Feed
  <2> DEFINE f   == Head(bam.way)
             old == bam.sessions[f.sa]
             s   == Fed(old, f)
             b   == [bam EXCEPT !.way = Tail(bam.way)]
             new == [NoSession EXCEPT !.open = TRUE, !.msg = f.msg]
  <2>1. /\ bam.way # << >>
        /\ bam' = IF f.seq = 0
                  THEN [b EXCEPT !.sessions = [b.sessions EXCEPT ![f.sa] = new],
                                 !.heard = [b.heard EXCEPT ![f.sa] = f.msg]]
                  ELSE IF ~old.open THEN b
                  ELSE IF s.received >= Packets
                       THEN [b EXCEPT !.sessions = [b.sessions EXCEPT ![f.sa] = NoSession],
                                      !.delivered = s]
                       ELSE [b EXCEPT !.sessions = [b.sessions EXCEPT ![f.sa] = s]]
    BY <1>1, <1>7 DEF Feed, Announced
  <2>2. /\ f \in BamFrames /\ Tail(bam.way) \in Seq(BamFrames)
    BY <1>1, <2>1
  <2>3. f.sa \in Sources /\ f.msg \in Nat
    BY <2>2 DEF BamFrames
  <2>4. /\ b \in [way : Seq(BamFrames), sent : [Sources -> Nat], next : [Sources -> Nat],
                  sessions : [Sources -> SessionType], heard : [Sources -> Nat],
                  delivered : SessionType]
        /\ b.sessions = bam.sessions /\ b.heard = bam.heard /\ b.delivered = bam.delivered
    BY <1>1, <2>2
  <2>5. old \in SessionType
    BY <1>1, <2>3
  <2> HIDE DEF f, b
  <2>6. CASE f.seq = 0
    <3>1. /\ new \in SessionType /\ new.open /\ new.msg = f.msg /\ new.received = 0
          /\ new.fed = << >>
      BY <2>3, NoSessionType DEF SessionType, NoSession
    <3> HIDE DEF new
    <3>2. SessionOK(new) /\ new.received < Packets
      BY <3>1 DEF SessionOK, Packets
    <3>3. bam' = [b EXCEPT !.sessions = [b.sessions EXCEPT ![f.sa] = new],
                           !.heard = [b.heard EXCEPT ![f.sa] = f.msg]]
      BY <2>1, <2>6
    <3>4. /\ BamTypes' /\ bam'.delivered = bam.delivered
          /\ \A x \in Sources : /\ bam'.sessions[x] = IF x = f.sa THEN new ELSE bam.sessions[x]
                                /\ bam'.heard[x] = IF x = f.sa THEN f.msg ELSE bam.heard[x]
      BY <2>3, <2>4, <3>1, <3>3 DEF BamTypes
    <3>5. SessionsOK'
      BY <3>1, <3>2, <3>4 DEF BamInv, SessionsOK
    <3>6. DeliveredOK'
      BY <3>4 DEF BamInv, DeliveredOK
    <3>7. QED
      BY <3>4, <3>5, <3>6 DEF BamInv
  <2>7. CASE f.seq # 0 /\ ~old.open
    BY <2>1, <2>7, <1>2, <2>4 DEF BamTypes
  <2>8. CASE f.seq # 0 /\ old.open
    <3>1. SessionOK(old) /\ old.received < Packets /\ old.msg = bam.heard[f.sa]
      BY <2>3, <2>8 DEF BamInv, SessionsOK
    <3>2. /\ s \in SessionType /\ SessionOK(s) /\ s.open = old.open /\ s.msg = old.msg
          /\ s.received = old.received + 1 /\ Len(s.fed) = old.received + 1
      BY <2>2, <2>5, <2>8, <3>1, FedOK
    <3>3. old.received \in Nat
      BY <2>5 DEF SessionType
    <3> HIDE DEF s, old
    <3>4. CASE s.received >= Packets
      <4>1. bam' = [b EXCEPT !.sessions = [b.sessions EXCEPT ![f.sa] = NoSession],
                             !.delivered = s]
        BY <2>1, <2>8, <3>4
      <4>2. /\ BamTypes' /\ bam'.delivered = s /\ bam'.heard = bam.heard
            /\ \A x \in Sources :
                 bam'.sessions[x] = IF x = f.sa THEN NoSession ELSE bam.sessions[x]
        BY <2>3, <2>4, <3>2, <4>1, NoSessionType DEF BamTypes
      <4>3. Len(s.fed) = Packets
        BY <3>1, <3>2, <3>3, <3>4 DEF Packets
      <4>4. SessionsOK'
        BY <4>2, NoSessionType DEF BamInv, SessionsOK
      <4>5. DeliveredOK'
        BY <3>2, <4>2, <4>3 DEF DeliveredOK
      <4>6. QED
        BY <4>2, <4>4, <4>5 DEF BamInv
    <3>5. CASE ~(s.received >= Packets)
      <4>1. bam' = [b EXCEPT !.sessions = [b.sessions EXCEPT ![f.sa] = s]]
        BY <2>1, <2>8, <3>5
      <4>2. /\ BamTypes' /\ bam'.delivered = bam.delivered /\ bam'.heard = bam.heard
            /\ \A x \in Sources : bam'.sessions[x] = IF x = f.sa THEN s ELSE bam.sessions[x]
        BY <2>3, <2>4, <3>2, <4>1 DEF BamTypes
      <4>3. s.received < Packets
        BY <3>2, <3>3, <3>5 DEF Packets
      <4>4. SessionsOK'
        BY <3>1, <3>2, <4>2, <4>3 DEF BamInv, SessionsOK
      <4>5. DeliveredOK'
        BY <4>2 DEF BamInv, DeliveredOK
      <4>6. QED
        BY <4>2, <4>4, <4>5 DEF BamInv
    <3>6. QED
      BY <3>4, <3>5
  <2>9. QED
    BY <2>6, <2>7, <2>8
<1>8. QED
  BY <1>3, <1>4, <1>5, <1>6, <1>7 DEF BamNext, BamReacts

\* Two different packets of a message of two are all of it.
LEMMA BamWhole == BamInv => BamSound
<1>1. SUFFICES ASSUME BamInv PROVE BamSound
  OBVIOUS
<1> DEFINE d == bam.delivered
           Clean == /\ \A f \in Range(d.fed) : f[1] = d.msg
                    /\ Cardinality(Range(d.fed)) = Len(d.fed)
<1>2. d \in SessionType /\ d.fed \in Seq(BamPacket)
  BY <1>1 DEF BamInv, BamTypes, SessionType
<1>3. ASSUME d.open, Clean, NEW i \in 1..Packets
      PROVE  d.buf[i] = <<d.msg, i>>
  <2>1. SessionOK(d) /\ Len(d.fed) = 2
    BY <1>1, <1>3 DEF BamInv, DeliveredOK, Packets
  <2>2. DOMAIN d.fed = 1..2 /\ Range(d.fed) = {d.fed[1], d.fed[2]}
    BY <1>2, <2>1 DEF Range
  <2>3. d.fed[1] # d.fed[2]
    <3>1. SUFFICES ASSUME d.fed[1] = d.fed[2] PROVE FALSE
      OBVIOUS
    <3>2. Range(d.fed) = {d.fed[1]}
      BY <2>2, <3>1
    <3>3. Cardinality({d.fed[1]}) = 1
      BY FS_Singleton
    <3>4. QED
      BY <1>3, <2>1, <3>2, <3>3
  <2>4. d.fed[1][1] = d.msg /\ d.fed[2][1] = d.msg
    BY <1>3, <2>2
  <2>5. \A k \in 1..Len(d.fed) : k = 1 \/ k = 2
    BY <2>1
  <2>6. /\ d.fed[1][2] \in 1..Packets /\ d.fed[2][2] \in 1..Packets
        /\ d.buf[d.fed[1][2]] = d.fed[1] /\ d.buf[d.fed[2][2]] = d.fed[2]
    BY <2>1, <2>4, <2>5 DEF SessionOK
  <2>7. d.fed[1] \in BamPacket /\ d.fed[2] \in BamPacket
    BY <1>2, <2>1
  <2>8. d.fed[1] = <<d.msg, d.fed[1][2]>> /\ d.fed[2] = <<d.msg, d.fed[2][2]>>
    BY <2>4, <2>7 DEF BamPacket
  <2>9. d.fed[1][2] # d.fed[2][2]
    BY <2>3, <2>8
  <2>10. i = d.fed[1][2] \/ i = d.fed[2][2]
    BY <2>6, <2>9 DEF Packets
  <2>11. QED
    BY <2>6, <2>8, <2>10
<1>4. d.open => Len(d.fed) = Packets
  BY <1>1 DEF BamInv, DeliveredOK
<1>5. \A s \in Sources : bam.sessions[s].open =>
        bam.sessions[s].received < Packets /\ bam.sessions[s].msg = bam.heard[s]
  BY <1>1 DEF BamInv, SessionsOK
<1>6. QED
  BY <1>3, <1>4, <1>5 DEF BamSound
\* No link's bytes are mixed with those of another: a reported line has no halves of two
\* links, a DoIP message is whole and of its connection, an answer of the slave belongs to
\* the command it is shown for, a broadcast has all its packets; for any number of links,
\* connections, messages and losses.
THEOREM WiresNotMixed == Spec => []WiresSound
<1> DEFINE WiresInv == /\ On("elm327") => ElmInv
                       /\ On("doip") => DoipInv
                       /\ On("xcp") => XcpInv
                       /\ On("bam") => BamInv
<1>1. Init => WiresInv
  <2>1. ElmInit => ElmInv
    BY DEF ElmInit, ElmClosed, ElmInv, ElmType, LineType
  <2>2. DoipInit => DoipInv
    <3>1. << >> \in Seq(PieceType) /\ Len(<< >>) = 0
      OBVIOUS
    <3>2. SUFFICES ASSUME DoipInit PROVE DoipInv
      OBVIOUS
    <3>3. doip \in DoipType /\ stream \in StreamType
      BY <3>1, <3>2 DEF DoipInit, DoipType, StreamType
    <3>4. stream.wire = << >> /\ stream.rx = << >> /\ stream.handled = << >>
      BY <3>2 DEF DoipInit
    <3>5. StreamInLine
      BY <3>1, <3>4, EmptyLine DEF StreamInLine
    <3>6. SocketFollows /\ ButtonsFollowSocket
      BY <3>2, <3>4 DEF DoipInit, SocketFollows, ButtonsFollowSocket
    <3>7. QED
      BY <3>3, <3>5, <3>6 DEF DoipInv
  <2>3. XcpInit => XcpInv
    BY DEF Commands, XcpInit, NoResult, XcpInv, XcpTypes, XcpOwed
  <2>4. BamInit => BamInv
    BY NoSessionType DEF BamInit, BamInv, BamTypes, SessionsOK, DeliveredOK
  <2>5. QED
    BY <2>1, <2>2, <2>3, <2>4 DEF Init
<1>2. WiresInv /\ [Next]_pagesVars => WiresInv'
  <2>1. ElmInv /\ UNCHANGED elmVars => ElmInv'
    BY DEF ElmInv, elmVars
  <2>2. DoipInv /\ UNCHANGED doipVars => DoipInv'
    BY DEF DoipInv, StreamInLine, SocketFollows, ButtonsFollowSocket, doipVars
  <2>3. XcpInv /\ UNCHANGED xcpVars => XcpInv'
    BY DEF XcpInv, XcpTypes, XcpOwed, xcpVars
  <2>4. BamInv /\ UNCHANGED bam => BamInv'
    BY DEF BamInv, BamTypes, SessionsOK, DeliveredOK
  <2>5. DoipInv /\ DoipNext => DoipInv'
    BY DoipClicksKept, EcuSendsKept, DoipReadsKept DEF DoipNext, DoipReacts
  <2>6. QED
    BY <2>1, <2>2, <2>3, <2>4, <2>5, PageSteps, ElmKept, XcpKept, BamKept DEF On
<1>3. WiresInv => WiresSound
  <2>1. ElmInv => ElmSound
    BY DEF ElmInv, ElmSound, LineType
  <2>2. ASSUME DoipInv PROVE DoipSound
    <3>1. \A i \in DOMAIN stream.handled : IsPiece(stream.handled[i], i, doip)
      <4>1. stream.handled \in Seq(PieceType) /\ InLine(stream.handled, 0, doip)
        BY <2>2 DEF DoipInv, StreamType, StreamInLine
      <4>2. \A i \in 1..Len(stream.handled) : 0 + i = i
        BY <4>1
      <4>3. QED
        BY <4>1, <4>2 DEF InLine
    <3>2. QED
      BY <2>2, <3>1 DEF DoipInv, ButtonsFollowSocket, IsPiece, DoipSound
  <2>3. XcpInv => XcpSound
    BY DEF XcpInv, XcpSound
  <2>4. QED
    BY <2>1, <2>2, <2>3, BamWhole DEF WiresSound
<1>4. QED
  BY <1>1, <1>2, <1>3, PTL DEF Spec

-------------------------------------------------------------------------------
(* Verdicts *)

LEMMA NothingHeard ==
  << >> \in Seq(HeardFrames) /\ \A x, y : ~SaidIn(<< >>, x) /\ ~ReachedIn(<< >>, x, y)
<1>1. << >> \in Seq(HeardFrames) /\ Len(<< >>) = 0
  OBVIOUS
<1>2. QED
  BY <1>1 DEF SaidIn, ReachedIn

LEMMA SaysAppended ==
  ASSUME NEW h \in Seq(HeardFrames), NEW f \in HeardFrames, NEW name, NEW cond
  PROVE  /\ Append(h, f) \in Seq(HeardFrames)
         /\ SaidIn(Append(h, f), name) <=> SaidIn(h, name) \/ Says(f, name)
         /\ ReachedIn(Append(h, f), name, cond) <=>
              \/ ReachedIn(h, name, cond)
              \/ Says(f, name) /\ (cond # "none" => SaidIn(Append(h, f), cond))
<1> DEFINE g == Append(h, f)
           n == Len(h)
<1>1. /\ g \in Seq(HeardFrames) /\ n \in Nat /\ Len(g) = n + 1
      /\ \A i \in 1..n : g[i] = h[i]
      /\ g[n + 1] = f
  BY AppendProperties
<1> HIDE DEF g, n
<1>2. Len(h) = n /\ n + 1 \in 1..n + 1 /\ \A i \in 1..n + 1 : i \in 1..n \/ i = n + 1
  BY <1>1 DEF n
<1>3. \A x : SaidIn(g, x) <=> SaidIn(h, x) \/ Says(f, x)
  BY <1>1, <1>2 DEF SaidIn
<1>4. ReachedIn(h, name, cond) => ReachedIn(g, name, cond)
  <2>1. SUFFICES ASSUME ReachedIn(h, name, cond) PROVE ReachedIn(g, name, cond)
    OBVIOUS
  <2>2. PICK j \in 1..n : Says(h[j], name) /\ (cond # "none" => \E i \in 1..j : Says(h[i], cond))
    BY <2>1, <1>2 DEF ReachedIn
  <2>3. j \in 1..n + 1 /\ \A i \in 1..j : g[i] = h[i]
    BY <1>1
  <2>4. QED
    BY <1>1, <2>2, <2>3 DEF ReachedIn
<1>5. Says(f, name) /\ (cond # "none" => SaidIn(g, cond)) => ReachedIn(g, name, cond)
  BY <1>1, <1>2 DEF SaidIn, ReachedIn
<1>6. ASSUME ReachedIn(g, name, cond), ~ReachedIn(h, name, cond)
      PROVE  Says(f, name) /\ (cond # "none" => SaidIn(g, cond))
  <2>1. PICK j \in 1..n + 1 : Says(g[j], name) /\ (cond # "none" => \E i \in 1..j : Says(g[i], cond))
    BY <1>1, <1>6 DEF ReachedIn
  <2>2. CASE j = n + 1
    BY <1>1, <2>1, <2>2 DEF SaidIn
  <2>3. CASE j \in 1..n
    BY <1>1, <2>3, <2>1, <1>6, <1>2 DEF ReachedIn
  <2>4. QED
    BY <1>2, <2>2, <2>3
<1>7. QED
  BY <1>1, <1>3, <1>4, <1>5, <1>6 DEF g, n

\* A row that names what was asked, or was refused, is a row of the history.
LEMMA RowAdded ==
  ASSUME NEW h \in Seq(Rows), NEW r \in Rows,
         \A i \in 1..Len(h) : h[i].result # "refused" => h[i].name = h[i].asked,
         r.result # "refused" => r.name = r.asked
  PROVE  /\ Append(h, r) \in Seq(Rows)
         /\ \A i \in 1..Len(Append(h, r)) :
              Append(h, r)[i].result # "refused" => Append(h, r)[i].name = Append(h, r)[i].asked
         /\ Append(h, r)[Len(Append(h, r))] = r
<1> DEFINE g == Append(h, r)
           n == Len(h)
<1>1. /\ g \in Seq(Rows) /\ n \in Nat /\ Len(g) = n + 1
      /\ \A i \in 1..n : g[i] = h[i]
      /\ g[n + 1] = r
  BY AppendProperties
<1> HIDE DEF g
<1>2. \A i \in 1..n + 1 : i \in 1..n \/ i = n + 1
  BY <1>1
<1>3. \A i \in 1..Len(g) : g[i].result # "refused" => g[i].name = g[i].asked
  BY <1>1, <1>2
<1>4. QED
  BY <1>1, <1>3 DEF g

LEMMA PlacesOfDbc ==
  \A d \in Dbcs \cup {NoDbc}, name \in Signals : d[name] \in 0..2
<1>1. ASSUME NEW d \in Dbcs \cup {NoDbc} PROVE d["s"] \in 0..2 /\ d["t"] \in 0..2
  BY DEF Dbcs, NoDbc
<1>2. QED
  BY <1>1 DEF Signals

\* finish: whatever else is due, the row and the answer are.
LEMMA FinishKept ==
  ASSUME VerifyTypes,
         NEW v \in VerifyType,
         v.history = verify.history, v.started = v.emitted + 1,
         NEW asked \in Signals, NEW result \in {"refused", "timeout", "pass"},
         result # "refused" => v.run.name = asked,
         result = "pass" => ReachedIn(v.heard, v.run.name, v.run.cond),
         result = "timeout" /\ ~v.switched => ~ReachedIn(v.heard, v.run.name, v.run.cond),
         verify' = Finish(v, asked, result)
  PROVE  VerifyInv'
<1> DEFINE r == [name |-> v.run.name, asked |-> asked, result |-> result]
           g == Append(verify.history, r)
<1>1. r \in Rows /\ r.result = result /\ (r.result # "refused" => r.name = r.asked)
  BY DEF Rows, VerifyType, RunType
<1>2. verify.history \in Seq(Rows)
  BY DEF VerifyTypes, VerifyType
<1>3. /\ g \in Seq(Rows) /\ g[Len(g)] = r
      /\ \A i \in 1..Len(g) : g[i].result # "refused" => g[i].name = g[i].asked
  BY <1>1, <1>2, RowAdded DEF VerifyTypes, VerifyType
<1>4. verify' = [v EXCEPT !.active = FALSE, !.timer = FALSE, !.emitted = v.emitted + 1,
                          !.history = g]
  BY DEF Finish
<1> HIDE DEF r, g
<1>5. v.emitted + 1 \in Nat
  BY DEF VerifyType
<1>6. /\ verify'.history = g /\ ~verify'.active /\ ~verify'.timer /\ verify'.run = v.run
      /\ verify'.heard = v.heard /\ verify'.switched = v.switched /\ verify'.started = v.started
      /\ verify'.emitted = v.emitted + 1
  BY <1>4
<1>7. VerifyTypes'
  BY <1>3, <1>4, <1>5, <1>6 DEF VerifyTypes, VerifyType
<1>8. AnsweredOnce' /\ RunInFlight'
  BY <1>6 DEF AnsweredOnce, RunInFlight
<1>9. LastVerdict'
  BY <1>1, <1>3, <1>6 DEF LastVerdict, VerdictOf
<1>10. QED
  BY <1>7, <1>8, <1>9 DEF VerifyInv

LEMMA VerifyDbcKept ==
  ASSUME VerifyInv, VerifyDbc
  PROVE  VerifyInv'
<1>1. PICK d \in Dbcs : verify' = [verify EXCEPT !.dbc = d, !.switched = @ \/ verify.active]
  BY DEF VerifyDbc
<1>3. /\ verify'.history = verify.history /\ verify'.active = verify.active
      /\ verify'.timer = verify.timer /\ verify'.run = verify.run /\ verify'.heard = verify.heard
      /\ verify'.started = verify.started /\ verify'.emitted = verify.emitted
      /\ verify'.switched <=> verify.switched \/ verify.active
  BY <1>1 DEF VerifyInv, VerifyTypes, VerifyType
<1>4. VerifyTypes'
  BY <1>1, <1>3 DEF VerifyInv, VerifyTypes, VerifyType
<1>5. AnsweredOnce' /\ RunInFlight' /\ LastVerdict'
  BY <1>3 DEF VerifyInv, AnsweredOnce, RunInFlight, LastVerdict, VerdictOf
<1>6. QED
  BY <1>4, <1>5 DEF VerifyInv

LEMMA RunKept ==
  ASSUME VerifyInv, RunVerification
  PROVE  VerifyInv'
<1> DEFINE v == [Superseded(verify) EXCEPT !.started = @ + 1]
           Refused(name, cond) ==
             verify.dbc[name] = 0 \/ (cond # "none" /\ verify.dbc[cond] = 0)
<1>1. PICK name \in Signals, cond \in Signals \cup {"none"} :
        verify' = IF Refused(name, cond) THEN Finish(v, name, "refused")
                  ELSE [v EXCEPT !.active = TRUE, !.timer = TRUE, !.heard = <<>>, !.switched = FALSE,
                          !.run = [name |-> name, cond |-> cond, at |-> v.dbc[name],
                                   met |-> cond = "none",
                                   condAt |-> IF cond = "none" THEN 0 ELSE v.dbc[cond]]]
  BY DEF RunVerification
<1>2. verify.emitted + 1 \in Nat /\ verify.started + 1 \in Nat
  BY DEF VerifyInv, VerifyTypes, VerifyType
<1>3. /\ v \in VerifyType /\ v.history = verify.history /\ v.started = v.emitted + 1
      /\ ~v.active /\ ~v.timer
  <2>1. CASE verify.active
    <3>1. v = [verify EXCEPT !.active = FALSE, !.timer = FALSE, !.emitted = verify.emitted + 1,
                             !.started = verify.started + 1]
      BY <2>1 DEF Superseded, VerifyInv, VerifyTypes, VerifyType
    <3>2. verify.started = verify.emitted + 1
      BY <2>1 DEF VerifyInv, AnsweredOnce
    <3> HIDE DEF v
    <3>3. QED
      BY <1>2, <3>1, <3>2 DEF VerifyInv, VerifyTypes, VerifyType
  <2>2. CASE ~verify.active
    <3>1. v = [verify EXCEPT !.active = FALSE, !.timer = FALSE, !.started = verify.started + 1]
      BY <2>2 DEF Superseded, VerifyInv, VerifyTypes, VerifyType
    <3>2. verify.started = verify.emitted
      BY <2>2 DEF VerifyInv, AnsweredOnce
    <3> HIDE DEF v
    <3>3. QED
      BY <1>2, <3>1, <3>2 DEF VerifyInv, VerifyTypes, VerifyType
  <2>3. QED
    BY <2>1, <2>2
<1> HIDE DEF v
<1>4. CASE Refused(name, cond)
  BY <1>1, <1>3, <1>4, FinishKept DEF VerifyInv
<1>5. CASE ~Refused(name, cond)
  <2> DEFINE at == v.dbc[name]
             condAt == IF cond = "none" THEN 0 ELSE v.dbc[cond]
             met == cond = "none"
             run == [name |-> name, cond |-> cond, at |-> at, met |-> met, condAt |-> condAt]
  <2>1. verify' = [v EXCEPT !.active = TRUE, !.timer = TRUE, !.heard = <<>>, !.switched = FALSE,
                            !.run = run]
    BY <1>1, <1>5
  <2>2. at \in 0..2 /\ condAt \in 0..2 /\ met \in BOOLEAN
    <3>1. \A n \in Signals : v.dbc[n] \in 0..2
      BY <1>3, PlacesOfDbc DEF VerifyType
    <3>2. cond = "none" => condAt = 0
      OBVIOUS
    <3>3. cond # "none" => condAt = v.dbc[cond] /\ cond \in Signals
      OBVIOUS
    <3>4. met \in BOOLEAN
      OBVIOUS
    <3> HIDE DEF condAt, met
    <3>5. at \in 0..2 /\ condAt \in 0..2
      BY <3>1, <3>2, <3>3
    <3>6. QED
      BY <3>4, <3>5
  <2>3. /\ run.name \in Signals /\ (run.cond = "none" => run.met /\ run.condAt = 0)
        /\ (run.met => run.cond = "none") /\ v.dbc[run.name] = run.at
        /\ (run.cond # "none" => v.dbc[run.cond] = run.condAt)
    OBVIOUS
  <2>4. run \in RunType
    BY <2>2 DEF RunType
  <2> HIDE DEF at, condAt, met, run
  <2>5. /\ verify'.history = v.history /\ verify'.active /\ verify'.timer /\ verify'.run = run
        /\ verify'.heard = << >> /\ ~verify'.switched /\ verify'.started = v.started
        /\ verify'.emitted = v.emitted /\ verify'.dbc = v.dbc
    BY <1>3, <2>1 DEF VerifyType
  <2>6. VerifyTypes'
    <3>1. verify' \in VerifyType
      BY <1>3, <2>1, <2>4, NothingHeard DEF VerifyType
    <3>2. QED
      BY <1>3, <2>5, <3>1 DEF VerifyInv, VerifyTypes
  <2>7. AnsweredOnce' /\ RunInFlight' /\ LastVerdict'
    BY <1>3, <2>3, <2>5, NothingHeard DEF AnsweredOnce, RunInFlight, LastVerdict
  <2>8. QED
    BY <2>6, <2>7 DEF VerifyInv
<1>6. QED
  BY <1>4, <1>5

LEMMA TimeoutKept ==
  ASSUME VerifyInv, VerifyTimeout
  PROVE  VerifyInv'
<1>1. verify.timer /\ verify' = Finish(verify, verify.run.name, "timeout")
  BY DEF VerifyTimeout
<1>2. verify.active /\ verify.run.name \in Signals /\ verify.started = verify.emitted + 1
  BY <1>1 DEF VerifyInv, AnsweredOnce, RunInFlight
<1>3. ~verify.switched => ~ReachedIn(verify.heard, verify.run.name, verify.run.cond)
  BY <1>2 DEF VerifyInv, RunInFlight
<1>4. QED
  BY <1>1, <1>2, <1>3, FinishKept DEF VerifyInv, VerifyTypes, VerifyType
LEMMA FrameKept ==
  ASSUME VerifyInv, VerifyFrame
  PROVE  VerifyInv'
<1> DEFINE name == verify.run.name
           cond == verify.run.cond
           F(id, value) == [carries |-> {n \in Signals : verify.dbc[n] = id}, value |-> value]
           Met(id, value) ==
             verify.run.met \/ ((id = verify.run.condAt /\ verify.dbc[cond] = verify.run.condAt)
                                /\ value = 1)
           W(id, value) == [verify EXCEPT !.heard = Append(@, F(id, value)),
                                          !.run.met = Met(id, value)]
           Done(id, value) ==
             Met(id, value) /\ (id = verify.run.at /\ verify.dbc[name] = verify.run.at) /\ value = 1
<1>1. CASE ~verify.active
  BY <1>1 DEF VerifyFrame, VerifyInv, VerifyTypes, AnsweredOnce, RunInFlight, LastVerdict,
     VerdictOf
<1>2. CASE verify.active
  <2>1. PICK id \in 1..2, value \in 0..1 :
          verify' = IF ~verify.active THEN verify
                    ELSE IF Done(id, value) THEN Finish(W(id, value), name, "pass")
                    ELSE W(id, value)
    BY DEF VerifyFrame
  <2> DEFINE f == F(id, value)
             g == Append(verify.heard, f)
             met == Met(id, value)
             w == W(id, value)
             done == Done(id, value)
  <2>2. f \in HeardFrames /\ \A n : Says(f, n) <=> n \in Signals /\ verify.dbc[n] = id /\ value = 1
    BY DEF HeardFrames, Says
  <2>3. /\ verify.heard \in Seq(HeardFrames) /\ verify.run.met \in BOOLEAN /\ name \in Signals
        /\ cond \in Signals \cup {"none"} /\ verify.started = verify.emitted + 1
        /\ verify \in VerifyType /\ verify.run \in RunType
    BY <1>2 DEF VerifyInv, VerifyTypes, VerifyType, RunType, RunInFlight, AnsweredOnce
  <2> HIDE DEF f
  <2>4. /\ g \in Seq(HeardFrames)
        /\ SaidIn(g, cond) <=> SaidIn(verify.heard, cond) \/ Says(f, cond)
        /\ ReachedIn(g, name, cond) <=>
             ReachedIn(verify.heard, name, cond) \/ (Says(f, name) /\ (cond # "none" => SaidIn(g, cond)))
    <3>1. f \in HeardFrames /\ verify.heard \in Seq(HeardFrames)
      BY <2>2, <2>3
    <3> HIDE DEF name, cond
    <3>2. QED
      BY <3>1, SaysAppended
  <2> HIDE DEF g
  <2>5. met \in BOOLEAN
    OBVIOUS
  <2>6. met => cond = "none" \/ SaidIn(g, cond)
    BY <1>2, <2>2, <2>3, <2>4 DEF VerifyInv, RunInFlight
  <2>7. ~verify.switched /\ cond # "none" /\ SaidIn(g, cond) => met
    BY <1>2, <2>2, <2>3, <2>4 DEF VerifyInv, RunInFlight
  <2>8. cond = "none" => verify.run.met /\ met
    BY <1>2 DEF VerifyInv, RunInFlight
  <2>9. done => ReachedIn(g, name, cond)
    <3>1. done => met /\ Says(f, name)
      BY <2>2, <2>3
    <3> HIDE DEF done, met
    <3>2. QED
      BY <2>4, <2>6, <3>1
  <2>10. ~verify.switched /\ ~done => ~ReachedIn(g, name, cond)
    <3>1. ~verify.switched => verify.dbc[name] = verify.run.at /\ ~ReachedIn(verify.heard, name, cond)
      BY <1>2 DEF VerifyInv, RunInFlight
    <3>2. ~verify.switched /\ met /\ Says(f, name) => done
      BY <2>2, <3>1
    <3> HIDE DEF done, met
    <3>3. QED
      BY <2>4, <2>7, <2>8, <3>1, <3>2
  <2>11. w = [verify EXCEPT !.heard = g, !.run = [verify.run EXCEPT !.met = met]]
    BY <2>3 DEF f, g, VerifyType
  <2>12. verify' = IF done THEN Finish(w, name, "pass") ELSE w
    BY <1>2, <2>1
  <2> HIDE DEF w, met, done
  <2>13. [verify.run EXCEPT !.met = met] \in RunType
    BY <2>3, <2>5 DEF RunType
  <2>14. /\ w \in VerifyType /\ w.heard = g /\ w.run = [verify.run EXCEPT !.met = met]
         /\ w.history = verify.history /\ w.active = verify.active /\ w.timer = verify.timer
         /\ w.started = verify.started /\ w.emitted = verify.emitted
         /\ w.switched = verify.switched /\ w.dbc = verify.dbc
    BY <2>3, <2>4, <2>11, <2>13 DEF VerifyType
  <2>15. /\ w.run.name = name /\ w.run.cond = cond /\ w.run.at = verify.run.at
         /\ w.run.condAt = verify.run.condAt /\ w.run.met = met
    BY <2>3, <2>14 DEF RunType
  <2>16. CASE done
    <3>1. ReachedIn(w.heard, w.run.name, w.run.cond) /\ w.started = w.emitted + 1
      BY <2>3, <2>9, <2>14, <2>15, <2>16
    <3>2. verify' = Finish(w, name, "pass")
      BY <2>12, <2>16
    <3>3. VerifyTypes
      BY DEF VerifyInv
    <3> HIDE DEF name, cond
    <3>4. QED
      BY <2>3, <2>14, <2>15, <3>1, <3>2, <3>3, FinishKept
  <2>17. CASE ~done
    <3>1. verify' = w
      BY <2>12, <2>17
    <3>2. VerifyTypes'
      BY <2>14, <3>1 DEF VerifyInv, VerifyTypes
    <3>3. AnsweredOnce' /\ LastVerdict'
      BY <1>2, <2>14, <3>1 DEF VerifyInv, AnsweredOnce, LastVerdict
    <3>4. ~verify.switched =>
            verify.dbc[name] = verify.run.at /\ (cond # "none" => verify.dbc[cond] = verify.run.condAt)
      BY <1>2 DEF VerifyInv, RunInFlight
    <3>5. cond = "none" => verify.run.condAt = 0
      BY <1>2 DEF VerifyInv, RunInFlight
    <3> HIDE DEF name, cond
    <3>6. RunInFlight'
      BY <2>3, <2>6, <2>7, <2>8, <2>10, <2>14, <2>15, <2>17, <3>1, <3>4, <3>5 DEF RunInFlight
    <3>7. QED
      BY <3>2, <3>3, <3>6 DEF VerifyInv
  <2>18. QED
    BY <2>16, <2>17
<1>3. QED
  BY <1>1, <1>2

LEMMA VerdictsReached == VerifyInv => VerifySound
<1>1. SUFFICES ASSUME VerifyInv PROVE VerifySound
  OBVIOUS
<1> DEFINE h == verify.heard
           history == verify.history
<1>2. h \in Seq(HeardFrames) /\ history \in Seq(Rows)
  BY <1>1 DEF VerifyInv, VerifyTypes, VerifyType
<1>3. Reached <=> ReachedIn(h, verify.run.name, verify.run.cond)
  BY <1>2 DEF Reached, ReachedIn, Says
<1>4. verify.started = verify.emitted + (IF verify.active THEN 1 ELSE 0)
  BY <1>1 DEF VerifyInv, VerifyTypes, VerifyType, AnsweredOnce
<1>5. verify.timer = verify.active
  BY <1>1 DEF VerifyInv, VerifyTypes, VerifyType, AnsweredOnce
<1>6. history # << >> => Len(history) # 0
  BY <1>2
<1>7. Last(history) = history[Len(history)]
  BY DEF Last
<1>8. \A r \in Range(history) : r.result # "refused" => r.name = r.asked
  BY <1>1, <1>2 DEF VerifyInv, VerifyTypes, Range
<1>9. history # << >> /\ ~verify.active =>
        /\ Last(history).result = "pass" => Reached
        /\ Last(history).result = "timeout" /\ ~verify.switched => ~Reached
  BY <1>1, <1>3, <1>6, <1>7 DEF VerifyInv, LastVerdict, VerdictOf
<1>10. QED
  BY <1>4, <1>5, <1>8, <1>9 DEF VerifySound
LEMMA NoFindingsType == NoFindings \in [Issues -> Nat] /\ \A i \in Issues : NoFindings[i] = 0
BY DEF NoFindings, Issues

LEMMA ClearedKept ==
  ASSUME NEW c, c \in CheckedType, checked' = Cleared(c)
  PROVE  CheckedInv'
<1>1. /\ checked' \in CheckedType /\ checked'.findings = NoFindings /\ checked'.seen = 0
      /\ checked'.ok = 0 /\ checked'.bad = 0 /\ checked'.table = NoFindings
  BY NoFindingsType DEF Cleared, CheckedType
<1>2. QED
  BY <1>1, NoFindingsType DEF CheckedInv, CheckedFindings

LEMMA CheckedKept ==
  ASSUME CheckedInv, CheckedNext
  PROVE  CheckedInv'
<1>1. CASE ClearFindings
  BY <1>1, ClearedKept DEF ClearFindings, CheckedInv
<1>2. CASE CheckedDbc
  <2>1. PICK d \in SUBSET (1..2) : checked' = Cleared([checked EXCEPT !.dbc = d])
    BY <1>2 DEF CheckedDbc, LoadedDbc
  <2>2. [checked EXCEPT !.dbc = d] \in CheckedType
    BY DEF CheckedInv, CheckedType
  <2>3. QED
    BY <2>1, <2>2, ClearedKept
<1>3. CASE PauseChecks
  BY <1>3 DEF PauseChecks, CheckedInv, CheckedType, CheckedFindings
<1>4. CASE CheckedFrame
  <2> DEFINE Hit(id, issues) ==
               (IF id \in checked.dbc THEN issues ELSE {"undocumented"}) \X {id}
             C(hit) == [checked EXCEPT !.seen = @ + 1, !.ok = IF hit = {} THEN @ + 1 ELSE @,
                          !.bad = IF hit = {} THEN @ ELSE @ + 1, !.dirty = @ \/ hit # {},
                          !.findings = [i \in DOMAIN @ |-> IF i \in hit THEN @[i] + 1 ELSE @[i]]]
  <2>1. PICK id \in 1..2, issues \in SUBSET {"dlc", "range"} :
          checked' = IF checked.paused \/ checked.dbc = {} THEN checked ELSE C(Hit(id, issues))
    BY <1>4 DEF CheckedFrame
  <2> DEFINE hit == Hit(id, issues)
             findings == [i \in Issues |-> IF i \in hit THEN checked.findings[i] + 1
                                                        ELSE checked.findings[i]]
  <2>2. /\ hit \subseteq Issues
        /\ \A i \in hit : i[1] = "undocumented" <=> i[2] \notin checked.dbc
    BY DEF Issues
  <2>3. CASE checked' = checked
    BY <2>3 DEF CheckedInv, CheckedFindings
  <2>4. CASE checked' = C(hit)
    <3> HIDE DEF hit
    <3>1. /\ checked \in CheckedType /\ checked.seen \in Nat /\ checked.ok \in Nat
          /\ checked.bad \in Nat /\ checked.findings \in [Issues -> Nat]
      BY DEF CheckedInv, CheckedType
    <3>2. findings \in [Issues -> Nat]
      BY <3>1
    <3>3. \A i \in Issues : findings[i] = IF i \in hit THEN checked.findings[i] + 1
                                                       ELSE checked.findings[i]
      OBVIOUS
    <3>4. checked' = [checked EXCEPT !.seen = @ + 1, !.ok = IF hit = {} THEN @ + 1 ELSE @,
                        !.bad = IF hit = {} THEN @ ELSE @ + 1, !.dirty = @ \/ hit # {},
                        !.findings = findings]
      BY <2>4, <3>1 DEF CheckedType
    <3> HIDE DEF findings
    <3>5. CASE hit = {}
      <4>1. \A i \in Issues : findings[i] = checked.findings[i]
        BY <3>3, <3>5
      <4>2. checked' = [checked EXCEPT !.seen = checked.seen + 1, !.ok = checked.ok + 1,
                          !.findings = findings]
        BY <3>1, <3>4, <3>5 DEF CheckedType
      <4>3. checked' \in CheckedType
        <5>1. checked.seen + 1 \in Nat /\ checked.ok + 1 \in Nat
          BY <3>1
        <5>2. QED
          BY <3>1, <3>2, <4>2, <5>1 DEF CheckedType
      <4>4. findings = checked.findings
        BY <3>1, <3>2, <4>1
      <4>5. /\ checked'.seen = checked.seen + 1 /\ checked'.ok = checked.ok + 1
            /\ checked'.bad = checked.bad /\ checked'.findings = checked.findings
            /\ checked'.dirty = checked.dirty /\ checked'.table = checked.table
            /\ checked'.dbc = checked.dbc
        BY <3>1, <4>2, <4>4 DEF CheckedType
      <4>6. QED
        BY <3>1, <4>3, <4>5 DEF CheckedInv, CheckedFindings
    <3>6. CASE hit # {}
      <4>1. checked' = [checked EXCEPT !.seen = checked.seen + 1, !.bad = checked.bad + 1,
                          !.dirty = TRUE, !.findings = findings]
        BY <3>1, <3>4, <3>6 DEF CheckedType
      <4>2. checked' \in CheckedType
        <5>1. checked.seen + 1 \in Nat /\ checked.bad + 1 \in Nat
          BY <3>1
        <5>2. QED
          BY <3>1, <3>2, <4>1, <5>1 DEF CheckedType
      <4>3. /\ checked'.seen = checked.seen + 1 /\ checked'.ok = checked.ok
            /\ checked'.bad = checked.bad + 1 /\ checked'.findings = findings
            /\ checked'.dirty /\ checked'.dbc = checked.dbc
        BY <3>1, <4>1 DEF CheckedType
      <4>4. \A i \in Issues : findings[i] > 0 => checked.findings[i] > 0 \/ i \in hit
        BY <3>1, <3>3
      <4>5. \E i \in Issues : findings[i] > 0
        BY <2>2, <3>1, <3>3, <3>6
      <4>6. \A i \in Issues : checked.findings[i] > 0 =>
              (i[1] = "undocumented" <=> i[2] \notin checked.dbc)
        BY DEF CheckedInv, CheckedFindings
      <4>7. CheckedFindings'
        BY <2>2, <4>3, <4>4, <4>6 DEF CheckedFindings
      <4>8. checked.seen = checked.ok + checked.bad
        BY DEF CheckedInv
      <4>9. checked'.seen = checked'.ok + checked'.bad /\ checked'.bad > 0
        BY <3>1, <4>3, <4>8
      <4>10. QED
        BY <4>2, <4>3, <4>5, <4>7, <4>9 DEF CheckedInv
    <3>7. QED
      BY <3>5, <3>6
  <2>5. QED
    BY <2>1, <2>3, <2>4
<1>5. CASE RefreshTable
  BY <1>5 DEF RefreshTable, CheckedInv, CheckedType, CheckedFindings
<1>6. QED
  BY <1>1, <1>2, <1>3, <1>4, <1>5 DEF CheckedNext, CheckedReacts

LEMMA CheckedAgree == CheckedInv => CheckedSound
<1>1. SUFFICES ASSUME CheckedInv PROVE CheckedSound
  OBVIOUS
<1>2. DOMAIN checked.findings = Issues
  BY <1>1 DEF CheckedInv, CheckedType
<1>3. \A i \in Issues : checked.findings[i] > 0 =>
        (i[1] = "undocumented" <=> i[2] \notin checked.dbc)
  BY <1>1 DEF CheckedInv, CheckedFindings
<1> DEFINE some == \E i \in Issues : checked.findings[i] > 0
           bad == checked.bad > 0
<1>4. (some <=> bad) /\ some \in BOOLEAN /\ bad \in BOOLEAN
  BY <1>1 DEF CheckedInv, CheckedType
<1>5. some = bad
  <2> HIDE DEF some, bad
  <2>1. QED
    BY <1>4
<1>6. QED
  BY <1>1, <1>2, <1>3, <1>5 DEF CheckedInv, CheckedSound

LEMMA ScanKept ==
  ASSUME ScanInv, ScanNext
  PROVE  ScanInv'
<1>1. << >> \in ScanJobs
  BY DEF ScanJobs
<1>2. CASE ScanFrame
  <2>1. PICK i \in 1..2 : scan' = [scan EXCEPT !.frames[i] = @ + 1, !.id = IF @ = 0 THEN i ELSE @]
    BY <1>2 DEF ScanFrame
  <2> DEFINE frames1 == [scan.frames EXCEPT ![i] = scan.frames[i] + 1]
             id1 == IF scan.id = 0 THEN i ELSE scan.id
  <2>2. frames1 \in [1..2 -> Nat] /\ id1 \in 0..2
    BY DEF ScanInv, ScanType
  <2>3. scan' = [scan EXCEPT !.frames = frames1, !.id = id1]
    BY <2>1 DEF ScanInv, ScanType
  <2> HIDE DEF frames1, id1
  <2>4. /\ scan' \in ScanType
        /\ scan'.workers = scan.workers /\ scan'.button = scan.button
        /\ scan'.asked = scan.asked /\ scan'.shown = scan.shown
    BY <2>2, <2>3 DEF ScanInv, ScanType
  <2>5. QED
    BY <2>4 DEF ScanInv
<1>3. CASE SelectId
  <2>1. PICK i \in 1..2 : scan' = [scan EXCEPT !.id = i]
    BY <1>3 DEF SelectId
  <2>2. scan' \in ScanType
    BY <2>1 DEF ScanInv, ScanType
  <2>3. /\ scan'.workers = scan.workers /\ scan'.button = scan.button
        /\ scan'.asked = scan.asked /\ scan'.shown = scan.shown
    BY <2>1 DEF ScanInv, ScanType
  <2>4. QED
    BY <2>2, <2>3 DEF ScanInv
<1>4. CASE ScanClicked
  <2> DEFINE job == <<scan.id, scan.frames[scan.id]>>
  <2>1. /\ scan.button
        /\ scan' = [scan EXCEPT !.button = FALSE, !.workers = Append(scan.workers, job),
                                !.asked = job, !.shown = << >>]
    BY <1>4 DEF ScanClicked, ScanInv, ScanType
  <2>2. job \in ScanJobs
    BY <1>4 DEF ScanClicked, ScanInv, ScanType, ScanJobs
  <2> HIDE DEF job
  <2>3. scan.workers \in Seq(ScanJobs) /\ Len(scan.workers) = 0
    BY <2>1 DEF ScanInv, ScanType
  <2>4. /\ Append(scan.workers, job) \in Seq(ScanJobs)
        /\ Len(Append(scan.workers, job)) = 1 /\ Append(scan.workers, job)[1] = job
    BY <2>2, <2>3, AppendProperties
  <2>5. /\ ~scan'.button /\ scan'.workers = Append(scan.workers, job) /\ scan'.asked = job
        /\ scan'.shown = << >> /\ scan' \in ScanType
    BY <1>1, <2>1, <2>2, <2>4 DEF ScanInv, ScanType
  <2>6. QED
    BY <2>4, <2>5 DEF ScanInv
<1>5. CASE ScanFinished
  <2>1. PICK w \in DOMAIN scan.workers :
          scan' = [scan EXCEPT !.button = TRUE, !.workers = RemoveAt(scan.workers, w),
                               !.shown = scan.workers[w]]
    BY <1>5 DEF ScanFinished
  <2>2. scan.workers \in Seq(ScanJobs) /\ scan \in ScanType
    BY DEF ScanInv, ScanType
  <2>3. w \in 1..Len(scan.workers) /\ Len(scan.workers) \in Nat
    BY <2>1, <2>2
  <2>4. Len(scan.workers) = 1 /\ w = 1
    <3> DEFINE n == Len(scan.workers)
    <3>1. n <= 1 /\ n \in Nat /\ w \in 1..n
      BY <2>3 DEF ScanInv
    <3> HIDE DEF n
    <3>2. n = 1 /\ w = 1
      BY <3>1
    <3>3. QED
      BY <3>2 DEF n
  <2>5. scan.workers[w] = scan.asked
    BY <2>4 DEF ScanInv
  <2>6. RemoveAt(scan.workers, w) = << >>
    BY <2>2, <2>4, EmptySeq, SubSeqProperties DEF RemoveAt
  <2>7. << >> \in Seq(ScanJobs) /\ Len(<< >>) = 0
    OBVIOUS
  <2>8. /\ scan'.button /\ scan'.workers = << >> /\ scan'.shown = scan.asked
        /\ scan'.asked = scan.asked /\ scan' \in ScanType
    BY <2>1, <2>2, <2>5, <2>6, <2>7 DEF ScanType
  <2>9. QED
    BY <2>7, <2>8 DEF ScanInv
<1>6. QED
  BY <1>2, <1>3, <1>4, <1>5 DEF ScanNext, ScanReacts

\* Verdicts are those of the frames that came: every verification is answered once, by what
\* the frames said under the DBC they came under; the table of findings is what was found
\* since the DBC was loaded; a scan shows the job of the last click; for any number of
\* frames, requests, DBC loads and clicks, in any order.
THEOREM VerdictsAreOfFrames == Spec => []VerdictsSound
<1> DEFINE VerdictsInv == /\ On("verify") => VerifyInv
                          /\ On("checked") => CheckedInv
                          /\ On("scan") => ScanInv
<1>1. Init => VerdictsInv
  <2>1. VerifyInit => VerifyInv
    BY NothingHeard DEF VerifyInit, NoRun, VerifyInv, VerifyTypes, VerifyType, RunType,
       AnsweredOnce, RunInFlight, LastVerdict
  <2>2. CheckedInit => CheckedInv
    BY NoFindingsType DEF CheckedInit, CheckedInv, CheckedType, CheckedFindings
  <2>3. ScanInit => ScanInv
    BY DEF ScanJobs, ScanInit, ScanInv, ScanType
  <2>4. QED
    BY <2>1, <2>2, <2>3 DEF Init
<1>2. VerdictsInv /\ [Next]_pagesVars => VerdictsInv'
  <2>1. VerifyInv /\ UNCHANGED verify => VerifyInv'
    BY DEF VerifyInv, VerifyTypes, AnsweredOnce, RunInFlight, LastVerdict, VerdictOf
  <2>2. CheckedInv /\ UNCHANGED checked => CheckedInv'
    BY DEF CheckedInv, CheckedFindings
  <2>3. ScanInv /\ UNCHANGED scan => ScanInv'
    BY DEF ScanInv
  <2>4. VerifyInv /\ VerifyNext => VerifyInv'
    BY VerifyDbcKept, RunKept, FrameKept, TimeoutKept DEF VerifyNext, VerifyReacts
  <2>5. QED
    BY <2>1, <2>2, <2>3, <2>4, PageSteps, CheckedKept, ScanKept DEF On
<1>3. VerdictsInv => VerdictsSound
  BY VerdictsReached, CheckedAgree DEF ScanInv, ScanType, ScanSound, VerdictsSound
<1>4. QED
  BY <1>1, <1>2, <1>3, PTL DEF Spec

-------------------------------------------------------------------------------
(* Simulators *)

LEMMA RemovedAt ==
  ASSUME NEW S, NEW s \in Seq(S), NEW i \in 1..Len(s)
  PROVE  /\ RemoveAt(s, i) \in Seq(S) /\ Len(RemoveAt(s, i)) = Len(s) - 1
         /\ \A k \in 1..(Len(s) - 1) : RemoveAt(s, i)[k] = IF k < i THEN s[k] ELSE s[k + 1]
<1> DEFINE n == Len(s)
           a == SubSeq(s, 1, i - 1)
           b == SubSeq(s, i + 1, n)
<1>1. n \in Nat /\ i \in 1..n /\ \A j \in 1..n : s[j] \in S
  OBVIOUS
<1>2. /\ a \in Seq(S) /\ Len(a) = i - 1 /\ \A k \in 1..(i - 1) : a[k] = s[k]
  BY <1>1, SubSeqProperties
<1>3. /\ b \in Seq(S) /\ Len(b) = n - i /\ \A k \in 1..(n - i) : b[k] = s[i + k]
  <2>1. /\ b \in Seq(S) /\ Len(b) = IF i + 1 <= n THEN n - (i + 1) + 1 ELSE 0
        /\ \A k \in 1..(n - (i + 1) + 1) : b[k] = s[(i + 1) + k - 1]
    BY <1>1, SubSeqProperties
  <2> HIDE DEF b, n
  <2>2. n - (i + 1) + 1 = n - i /\ \A k \in Int : (i + 1) + k - 1 = i + k
    BY <1>1
  <2>3. Len(b) = n - i
    BY <1>1, <2>1
  <2>4. \A k \in 1..(n - i) : b[k] = s[i + k]
    BY <2>1, <2>2
  <2>5. QED
    BY <2>1, <2>3, <2>4
<1>4. RemoveAt(s, i) = a \o b
  BY DEF RemoveAt
<1> HIDE DEF a, b, n
<1> DEFINE r == a \o b
<1>5. /\ r \in Seq(S) /\ Len(r) = Len(a) + Len(b)
      /\ \A k \in 1..(Len(a) + Len(b)) : r[k] = IF k <= Len(a) THEN a[k] ELSE b[k - Len(a)]
  BY <1>2, <1>3, ConcatProperties
<1> HIDE DEF r
<1>6. Len(r) = n - 1 /\ \A k \in 1..(n - 1) : r[k] = IF k <= i - 1 THEN a[k] ELSE b[k - (i - 1)]
  BY <1>1, <1>2, <1>3, <1>5
<1>7. \A k \in 1..(n - 1) : r[k] = IF k < i THEN s[k] ELSE s[k + 1]
  <2>1. ASSUME NEW k \in 1..(n - 1), k < i PROVE r[k] = s[k]
    BY <1>1, <2>1, <1>2, <1>6
  <2>2. ASSUME NEW k \in 1..(n - 1), ~(k < i) PROVE r[k] = s[k + 1]
    BY <1>1, <2>2, <1>3, <1>6
  <2>3. QED
    BY <2>1, <2>2
<1>8. QED
  BY <1>4, <1>5, <1>6, <1>7 DEF r, n

LEMMA RefreshedKept ==
  ASSUME EcuInv, NEW sims \in Seq(EcuRow), ecus' = Refreshed(ecus, sims)
  PROVE  EcuInv'
<1>1. /\ ecus' \in EcuType /\ ecus'.sims = sims /\ ecus'.row = 0 /\ ~ecus'.open
      /\ ecus'.refilled = ecus.refilled
  BY DEF Refreshed, EcuInv, EcuType
<1>2. Len(sims) \in Nat
  OBVIOUS
<1>3. QED
  BY <1>1, <1>2 DEF EcuInv, DialogShows

LEMMA OpenedType ==
  ASSUME NEW r \in EcuType, NEW t \in Nat, NEW d \in Nat, NEW c \in Nat
  PROVE  [r EXCEPT !.open = TRUE, !.target = t, !.touched = FALSE, !.dids = d, !.dtcs = c] \in EcuType
BY DEF EcuType

LEMMA EditedType ==
  ASSUME NEW r \in EcuType, NEW d \in Nat, NEW c \in Nat
  PROVE  [r EXCEPT !.dids = d, !.dtcs = c, !.touched = TRUE] \in EcuType
BY DEF EcuType

LEMMA EcuKept ==
  ASSUME EcuInv, EcuNext
  PROVE  EcuInv'
<1>1. \A n \in Nat : Refilled(n) \in Nat /\ (n # 0 => Refilled(n) = n)
  BY DEF Refilled
<1>2. CASE OpenEcu
  <2>1. PICK t \in Nat :
          t \in {0, ecus.row} /\ ecus' = [ecus EXCEPT !.open = TRUE, !.target = t, !.touched = FALSE,
                                         !.dids = Refilled(IF t = 0 THEN 0 ELSE ecus.sims[t].dids),
                                         !.dtcs = Refilled(IF t = 0 THEN 0 ELSE ecus.sims[t].dtcs)]
    BY <1>2 DEF EcuInv, EcuType, OpenEcu
  <2>2. t # 0 => t \in 1..Len(ecus.sims)
    BY <2>1 DEF EcuInv, EcuType
  <2>3. t # 0 => ecus.sims[t] \in EcuRow
    BY <2>2 DEF EcuInv, EcuType
  <2> DEFINE dids == Refilled(IF t = 0 THEN 0 ELSE ecus.sims[t].dids)
             dtcs == Refilled(IF t = 0 THEN 0 ELSE ecus.sims[t].dtcs)
  <2>4. dids \in Nat /\ dtcs \in Nat
    BY <1>1, <2>3 DEF EcuRow
  <2>5. t # 0 => dids = Refilled(ecus.sims[t].dids) /\ dtcs = Refilled(ecus.sims[t].dtcs)
    OBVIOUS
  <2> HIDE DEF dids, dtcs
  <2>6. ecus' = [ecus EXCEPT !.open = TRUE, !.target = t, !.touched = FALSE, !.dids = dids,
                             !.dtcs = dtcs]
    BY <2>1 DEF dids, dtcs
  <2>7. ecus' \in EcuType
    <3>1. ecus \in EcuType
      BY DEF EcuInv
    <3>2. QED
      BY ONLY <2>4, <2>6, <3>1, t \in Nat, OpenedType
  <2>8. /\ ecus'.sims = ecus.sims /\ ecus'.row = ecus.row /\ ecus'.target = t
        /\ ecus'.dids = dids /\ ecus'.dtcs = dtcs /\ ecus'.refilled = ecus.refilled
    BY <2>6 DEF EcuInv, EcuType
  <2>9. DialogShows'
    BY <2>1, <2>2, <2>5, <2>8 DEF DialogShows
  <2>10. QED
    BY <2>1, <2>7, <2>8, <2>9 DEF EcuInv
<1>3. CASE EditTables
  <2>1. PICK d \in 0..2, c \in 0..2 :
          ecus' = [ecus EXCEPT !.dids = d, !.dtcs = c, !.touched = TRUE]
    BY <1>3 DEF EditTables
  <2>2. ecus' \in EcuType
    <3>1. ecus \in EcuType /\ d \in Nat /\ c \in Nat
      BY DEF EcuInv
    <3>2. QED
      BY ONLY <2>1, <3>1, EditedType
  <2>3. /\ ecus'.sims = ecus.sims /\ ecus'.row = ecus.row /\ ecus'.target = ecus.target
        /\ ecus'.open = ecus.open /\ ecus'.touched /\ ecus'.refilled = ecus.refilled
    BY <2>1 DEF EcuInv, EcuType
  <2>4. QED
    BY <2>2, <2>3 DEF EcuInv, DialogShows
<1>4. CASE CloseEcu
  <2> DEFINE cfg == [dids |-> ecus.dids, dtcs |-> ecus.dtcs]
  <2>1. cfg \in EcuRow
    BY DEF EcuInv, EcuType, EcuRow
  <2>2. CASE ecus' = [ecus EXCEPT !.open = FALSE]
    BY <2>2 DEF EcuInv, EcuType, DialogShows
  <2>3. CASE ecus.target = 0 /\ ecus' = Refreshed(ecus, Append(ecus.sims, cfg))
    <3>1. Append(ecus.sims, cfg) \in Seq(EcuRow)
      BY <2>1 DEF EcuInv, EcuType
    <3> HIDE DEF cfg
    <3>2. QED
      BY <2>3, <3>1, RefreshedKept
  <2>4. CASE /\ ecus.target > 0
             /\ ecus' = [Refreshed(ecus, [ecus.sims EXCEPT ![ecus.target] = cfg])
                           EXCEPT !.refilled = @ \/ (~ecus.touched /\ cfg # ecus.sims[ecus.target]
                                                /\ 0 \notin Range(ecus.sims[ecus.target]))]
    <3> DEFINE old == ecus.sims[ecus.target]
               sims == [ecus.sims EXCEPT ![ecus.target] = cfg]
               more == ~ecus.touched /\ cfg # old /\ 0 \notin Range(old)
    <3>1. ecus.open /\ ecus.target \in 1..Len(ecus.sims)
      BY <1>4, <2>4 DEF CloseEcu, EcuInv, EcuType
    <3>2. sims \in Seq(EcuRow) /\ old \in EcuRow
      BY <2>1, <3>1 DEF EcuInv, EcuType
    <3>3. ~more
      <4>1. SUFFICES ASSUME ~ecus.touched, 0 \notin Range(old) PROVE cfg = old
        OBVIOUS
      <4>2. old.dids \in Range(old) /\ old.dtcs \in Range(old)
        BY <3>2 DEF EcuRow, Range
      <4>3. old.dids # 0 /\ old.dtcs # 0 /\ old.dids \in Nat /\ old.dtcs \in Nat
        BY <3>2, <4>1, <4>2 DEF EcuRow
      <4>4. ecus.dids = old.dids /\ ecus.dtcs = old.dtcs
        BY <1>1, <2>4, <3>1, <4>1, <4>3 DEF EcuInv, DialogShows
      <4>5. QED
        BY <3>2, <4>4 DEF EcuRow
    <3>4. ecus' = [Refreshed(ecus, sims) EXCEPT !.refilled = @ \/ more]
      BY <2>4
    <3> HIDE DEF sims, more
    <3>5. Refreshed(ecus, sims) \in EcuType /\ ~Refreshed(ecus, sims).refilled
      BY <3>2 DEF Refreshed, EcuInv, EcuType
    <3>6. ecus' = Refreshed(ecus, sims)
      BY <3>3, <3>4, <3>5 DEF EcuType
    <3>7. QED
      BY <3>2, <3>6, RefreshedKept
  <2>5. QED
    BY <1>4, <2>2, <2>3, <2>4 DEF CloseEcu
<1>5. CASE SelectEcu
  <2>1. PICK k \in DOMAIN ecus.sims : ecus' = [ecus EXCEPT !.row = k]
    BY <1>5 DEF SelectEcu
  <2>2. k \in 1..Len(ecus.sims) /\ ~ecus.open
    BY <1>5 DEF SelectEcu, EcuInv, EcuType
  <2>3. /\ ecus' \in EcuType /\ ecus'.sims = ecus.sims /\ ecus'.row = k /\ ~ecus'.open
        /\ ecus'.refilled = ecus.refilled
    BY <2>1, <2>2 DEF EcuInv, EcuType
  <2>4. QED
    BY <2>2, <2>3 DEF EcuInv, DialogShows
<1>6. CASE RemoveEcu
  <2> DEFINE sims == RemoveAt(ecus.sims, ecus.row)
  <2>1. ecus.row \in 1..Len(ecus.sims)
    BY <1>6 DEF RemoveEcu, EcuInv, EcuType
  <2>2. sims \in Seq(EcuRow)
    BY <2>1, RemovedAt DEF EcuInv, EcuType
  <2>3. ecus' = Refreshed(ecus, sims)
    BY <1>6 DEF RemoveEcu
  <2>4. QED
    BY <2>2, <2>3, RefreshedKept
<1>7. QED
  BY <1>2, <1>3, <1>4, <1>5, <1>6 DEF EcuNext

LEMMA ProfilesAreNoFile == \A p : IsProfile(p) => p # NoFile
<1>1. SUFFICES ASSUME NEW p, IsProfile(p), p = NoFile PROVE FALSE
  OBVIOUS
<1>2. DOMAIN [id |-> p.id, wave |-> p.wave, points |-> p.points, text |-> p.text]
        = {"id", "wave", "points", "text"}
  OBVIOUS
<1>3. DOMAIN NoFile = {"id"}
  BY DEF NoFile
<1>4. QED
  BY <1>1, <1>2, <1>3 DEF IsProfile

LEMMA SavedKeeps ==
  ASSUME NEW p, IsProfile(p)
  PROVE  IsProfile(Saved(p)) /\ SameButId(Saved(p), p)
<1>1. CASE p.id < 10
  BY <1>1 DEF Saved, SameButId
<1>2. CASE ~(p.id < 10)
  <2> DEFINE id == AsHexOfDecimal[p.id]
  <2>1. Saved(p) = [p EXCEPT !.id = id]
    BY <1>2 DEF Saved
  <2> HIDE DEF id
  <2>2. Saved(p) = [id |-> id, wave |-> p.wave, points |-> p.points, text |-> p.text]
    BY <2>1 DEF IsProfile
  <2>3. QED
    BY <1>2, <2>2 DEF IsProfile, SameButId
<1>3. QED
  BY <1>1, <1>2

LEMMA PlayingKeeps ==
  ASSUME NEW p, IsProfile(p)
  PROVE  /\ IsProfile(Playing(p)) /\ Playing(p).id = p.id /\ Playing(p).wave = p.wave
         /\ Playing(p).points <=> p.points \/ p.wave # "none"
<1> DEFINE points == p.points \/ p.wave # "none"
<1>1. Playing(p) = [id |-> p.id, wave |-> p.wave, points |-> points, text |-> p.text]
  BY DEF Playing, IsProfile
<1>2. points \in BOOLEAN
  OBVIOUS
<1> HIDE DEF points
<1>3. IsProfile(Playing(p)) /\ Playing(p).id = p.id /\ Playing(p).wave = p.wave
      /\ Playing(p).points = points
  BY <1>1, <1>2 DEF IsProfile
<1>4. QED
  BY <1>3 DEF points

\* onProfileChanged: a profile that was read is the one the simulation follows.
LEMMA LoadedKept ==
  ASSUME NEW f \in Profiles, NEW p, IsProfile(p), sim' = Loaded(f, p),
         disk' = [g \in Profiles |-> disk'[g]],
         \A g \in Profiles : disk'[g] = NoFile \/ IsProfile(disk'[g]),
         disk'["plant"] = Plant, IsProfile(disk'[f]), f \in Custom => SameButId(disk'[f], p)
  PROVE  SimInv'
<1> DEFINE live == Playing(p)
<1>1. /\ IsProfile(live) /\ live.id = p.id /\ live.wave = p.wave
      /\ live.points <=> p.points \/ p.wave # "none"
  BY PlayingKeeps
<1> HIDE DEF live
<1>2. sim' = [path |-> f, current |-> p, live |-> live, animated |-> p.points,
              value |-> "default", shown |-> "default", reshaped |-> FALSE,
              running |-> FALSE, start |-> FALSE, timers |-> 0]
  BY DEF Loaded, Fresh, live
<1>3. /\ sim'.path = f /\ sim'.current = p /\ sim'.live = live /\ sim'.animated = p.points
      /\ sim'.value = "default" /\ sim'.shown = "default" /\ sim'.reshaped = FALSE
      /\ sim'.running = FALSE /\ sim'.start = FALSE /\ sim'.timers = 0
  BY <1>2
<1>4. SimShape'
  BY <1>2, <1>3 DEF SimShape
<1>5. p.points \in BOOLEAN
  BY DEF IsProfile
<1>6. SimTypes'
  BY <1>1, <1>3, <1>4, <1>5 DEF SimTypes
<1>7. SimFollows'
  BY <1>1, <1>3, <1>5 DEF SimFollows
<1>8. FileFollows'
  BY <1>3 DEF FileFollows
<1>9. QED
  BY <1>6, <1>7, <1>8 DEF SimInv

LEMMA PlantIsProfile == IsProfile(Plant) /\ "plant" \in Profiles /\ Custom \subseteq Profiles
BY DEF IsProfile, Plant, SimWaves, Profiles, Custom

LEMMA SameButIdOfItself == \A p : SameButId(p, p)
BY DEF SameButId

\* Steps that leave the disk as it is.
LEMMA DiskStays ==
  ASSUME SimInv, UNCHANGED disk, SimTypes', SimFollows', sim'.path = sim.path,
         sim'.current = sim.current
  PROVE  SimInv'
<1>1. disk' = disk
  OBVIOUS
<1>2. FileFollows'
  BY <1>1 DEF SimInv, FileFollows
<1>3. QED
  BY <1>2 DEF SimInv

LEMMA StartStopKept ==
  ASSUME SimInv, StartStop
  PROVE  SimInv'
<1> DEFINE running == ~sim.start
           timers == IF sim.start THEN 0 ELSE 2
<1>1. sim' = [path |-> sim.path, current |-> sim.current, live |-> sim.live,
              animated |-> sim.animated, value |-> sim.value, shown |-> sim.shown,
              reshaped |-> sim.reshaped, running |-> running, start |-> ~sim.start,
              timers |-> timers]
  BY DEF StartStop, SimInv, SimTypes, SimShape
<1>2. /\ running \in BOOLEAN /\ timers \in {0, 2} /\ (running <=> ~sim.start)
      /\ timers > 0 <=> running
  OBVIOUS
<1> HIDE DEF running, timers
<1>3. /\ sim'.path = sim.path /\ sim'.current = sim.current /\ sim'.live = sim.live
      /\ sim'.animated = sim.animated /\ sim'.value = sim.value /\ sim'.shown = sim.shown
      /\ sim'.reshaped = sim.reshaped /\ sim'.running = running /\ sim'.start = ~sim.start
      /\ sim'.timers = timers
  BY <1>1
<1>4. disk' = disk
  BY DEF StartStop
<1>5. SimShape'
  BY <1>1, <1>3 DEF SimShape
<1>6. SimTypes'
  BY <1>2, <1>3, <1>4, <1>5 DEF SimInv, SimTypes
<1>7. SimFollows'
  BY <1>2, <1>3 DEF SimInv, SimFollows
<1>8. QED
  BY <1>3, <1>4, <1>6, <1>7, DiskStays

LEMMA ProfileChangedKept ==
  ASSUME SimInv, ProfileChanged
  PROVE  SimInv'
<1>1. PICK f \in Profiles : disk[f] # NoFile /\ sim' = Loaded(f, disk[f])
  BY DEF ProfileChanged
<1>2. disk' = disk /\ IsProfile(disk[f])
  BY <1>1 DEF ProfileChanged, SimInv, SimTypes
<1>3. QED
  BY <1>1, <1>2, LoadedKept, SameButIdOfItself DEF SimInv, SimTypes, FileFollows

LEMMA NewProfileKept ==
  ASSUME SimInv, NewProfile
  PROVE  SimInv'
<1>1. PICK f \in Custom, p \in Edited :
        disk' = [disk EXCEPT ![f] = p] /\ sim' = Loaded(f, disk'[f])
  BY DEF NewProfile
<1>2. f \in Profiles /\ f # "plant" /\ IsProfile(p)
  BY DEF Custom, Edited, IsProfile
<1>3. disk'[f] = p /\ \A g \in Profiles : g # f => disk'[g] = disk[g]
  BY <1>1, <1>2 DEF SimInv, SimTypes
<1>4. disk' = [g \in Profiles |-> disk'[g]]
  BY <1>1, <1>2 DEF SimInv, SimTypes
<1>5. /\ \A g \in Profiles : disk'[g] = NoFile \/ IsProfile(disk'[g])
      /\ disk'["plant"] = Plant
  BY <1>2, <1>3, PlantIsProfile DEF SimInv, SimTypes, FileFollows
<1>6. QED
  BY <1>1, <1>2, <1>3, <1>4, <1>5, LoadedKept, SameButIdOfItself

LEMMA EditProfileKept ==
  ASSUME SimInv, EditProfile
  PROVE  SimInv'
<1>1. PICK f \in Custom, p \in Edited :
        /\ disk' = [disk EXCEPT ![f] = p, ![sim.path] = Saved([p EXCEPT !.text = "lost"])]
        /\ sim' = Loaded(sim.path, disk'[sim.path])
  BY DEF EditProfile
<1> DEFINE q == [p EXCEPT !.text = "lost"]
<1>2. f \in Profiles /\ f # "plant" /\ IsProfile(p) /\ IsProfile(q)
  BY DEF Custom, Edited, IsProfile
<1>3. sim.path \in Profiles /\ sim.path # "plant"
  BY DEF EditProfile, Custom
<1> DEFINE saved == Saved(q)
<1>4. IsProfile(saved)
  BY <1>2, SavedKeeps
<1> HIDE DEF q, saved
<1>5. disk' = [disk EXCEPT ![f] = p, ![sim.path] = saved]
  BY <1>1 DEF q, saved
<1>6. disk' = [g \in Profiles |-> disk'[g]]
  BY <1>2, <1>3, <1>5 DEF SimInv, SimTypes
<1>7. /\ disk'[sim.path] = saved /\ disk'["plant"] = disk["plant"]
      /\ \A g \in Profiles : disk'[g] \in {disk[g], p, saved}
  BY <1>2, <1>3, <1>5, PlantIsProfile DEF SimInv, SimTypes
<1>8. \A g \in Profiles : disk'[g] = NoFile \/ IsProfile(disk'[g])
  BY <1>2, <1>4, <1>7 DEF SimInv, SimTypes
<1>9. disk'["plant"] = Plant
  BY <1>7 DEF SimInv, FileFollows
<1>10. QED
  BY <1>1, <1>3, <1>4, <1>6, <1>7, <1>8, <1>9, LoadedKept, SameButIdOfItself

LEMMA PlayedFrom ==
  ASSUME NEW p, IsProfile(p), NEW w, NEW b
  PROVE  [[p EXCEPT !.wave = w] EXCEPT !.points = b]
           = [id |-> p.id, wave |-> w, points |-> b, text |-> p.text]
<1>1. [p EXCEPT !.wave = w]
        = [id |-> p.id, wave |-> w, points |-> p.points, text |-> p.text]
  BY DEF IsProfile
<1>2. [[id |-> p.id, wave |-> w, points |-> p.points, text |-> p.text] EXCEPT !.points = b]
        = [id |-> p.id, wave |-> w, points |-> b, text |-> p.text]
  OBVIOUS
<1>3. QED
  BY <1>1, <1>2

LEMMA WaveformKept ==
  ASSUME SimInv, Waveform
  PROVE  SimInv'
<1>1. PICK w \in SimWaves :
        LET p == [sim.current EXCEPT !.wave = w] IN
        /\ sim' = [sim EXCEPT !.current = p, !.live.wave = w, !.live.points = (w # "none"),
                              !.animated = p.points, !.shown = "default", !.reshaped = TRUE]
        /\ disk' = IF sim.path = "plant" THEN disk ELSE [disk EXCEPT ![sim.path] = Saved(p)]
  BY DEF Waveform
<1> DEFINE p == [sim.current EXCEPT !.wave = w]
           points == (w # "none")
           live == [[sim.live EXCEPT !.wave = w] EXCEPT !.points = points]
<1>2. /\ IsProfile(p) /\ IsProfile(live) /\ live.id = sim.live.id /\ live.wave = w
      /\ p.id = sim.current.id /\ p.wave = w
  <2>1. IsProfile(sim.current) /\ IsProfile(sim.live) /\ points \in BOOLEAN
    BY DEF SimInv, SimTypes
  <2> HIDE DEF points
  <2>2. p = [id |-> sim.current.id, wave |-> w, points |-> sim.current.points,
             text |-> sim.current.text]
    BY ONLY <2>1 DEF IsProfile
  <2>3. live = [id |-> sim.live.id, wave |-> w, points |-> points, text |-> sim.live.text]
    BY <2>1, PlayedFrom
  <2>4. sim.current.points \in BOOLEAN
    BY <2>1 DEF IsProfile
  <2> HIDE DEF p, live
  <2>5. QED
    BY <2>1, <2>2, <2>3, <2>4 DEF IsProfile
<1> DEFINE saved == Saved(p)
<1>3. IsProfile(saved) /\ SameButId(saved, p)
  BY <1>2, SavedKeeps
<1>4. sim' = [sim EXCEPT !.current = p, !.live = live, !.animated = p.points,
                         !.shown = "default", !.reshaped = TRUE]
  BY <1>1 DEF SimInv, SimTypes, SimShape, IsProfile
<1>5. disk' = IF sim.path = "plant" THEN disk ELSE [disk EXCEPT ![sim.path] = saved]
  BY <1>1
<1> HIDE DEF p, live, saved
<1>6. sim' = [path |-> sim.path, current |-> p, live |-> live, animated |-> p.points,
              value |-> sim.value, shown |-> "default", reshaped |-> TRUE,
              running |-> sim.running, start |-> sim.start, timers |-> sim.timers]
  BY <1>4 DEF SimInv, SimTypes, SimShape
<1>7. /\ sim'.path = sim.path /\ sim'.current = p /\ sim'.live = live
      /\ sim'.animated = p.points /\ sim'.value = sim.value /\ sim'.shown = "default"
      /\ sim'.reshaped = TRUE /\ sim'.running = sim.running /\ sim'.start = sim.start
      /\ sim'.timers = sim.timers
  BY <1>6
<1>8. SimShape'
  BY <1>6, <1>7 DEF SimShape
<1>9. /\ disk' = [g \in Profiles |-> disk'[g]]
      /\ \A g \in Profiles : disk'[g] = NoFile \/ IsProfile(disk'[g])
      /\ disk'["plant"] = Plant
      /\ IF sim.path = "plant" THEN disk'[sim.path] = Plant ELSE disk'[sim.path] = saved
  BY <1>5, <1>3, PlantIsProfile DEF SimInv, SimTypes, FileFollows
<1>10. p.points \in BOOLEAN
  BY <1>2 DEF IsProfile
<1>11. SimTypes'
  BY <1>2, <1>7, <1>8, <1>9, <1>10 DEF SimInv, SimTypes
<1>12. SimFollows'
  BY <1>2, <1>7 DEF SimInv, SimFollows
<1>13. FileFollows'
  BY <1>3, <1>7, <1>9, PlantIsProfile DEF FileFollows, Custom
<1>14. QED
  BY <1>11, <1>12, <1>13 DEF SimInv

LEMMA DeleteProfileKept ==
  ASSUME SimInv, DeleteProfile
  PROVE  SimInv'
<1>1. /\ disk' = [disk EXCEPT ![sim.path] = NoFile] /\ sim' = Loaded("plant", Plant)
      /\ sim.path \in Profiles /\ sim.path # "plant"
  BY DEF DeleteProfile, Custom
<1>2. /\ disk' = [g \in Profiles |-> disk'[g]] /\ disk'["plant"] = disk["plant"]
      /\ \A g \in Profiles : disk'[g] \in {disk[g], NoFile}
  BY <1>1, PlantIsProfile DEF SimInv, SimTypes
<1>3. /\ \A g \in Profiles : disk'[g] = NoFile \/ IsProfile(disk'[g])
      /\ disk'["plant"] = Plant
  BY <1>2 DEF SimInv, SimTypes, FileFollows
<1>4. QED
  BY <1>1, <1>2, <1>3, LoadedKept, PlantIsProfile, SameButIdOfItself

\* What a user enters, or a timer plays, for the signal.
LEMMA ValueKept ==
  ASSUME SimInv, UNCHANGED disk, NEW v, NEW s, sim' = [sim EXCEPT !.value = v, !.shown = s],
         ~sim.animated /\ ~sim.reshaped /\ sim.current.wave = "none" => s = v
  PROVE  SimInv'
<1>1. sim' = [path |-> sim.path, current |-> sim.current, live |-> sim.live,
              animated |-> sim.animated, value |-> v, shown |-> s,
              reshaped |-> sim.reshaped, running |-> sim.running, start |-> sim.start,
              timers |-> sim.timers]
  BY DEF SimInv, SimTypes, SimShape
<1>2. /\ sim'.path = sim.path /\ sim'.current = sim.current /\ sim'.live = sim.live
      /\ sim'.animated = sim.animated /\ sim'.value = v /\ sim'.shown = s
      /\ sim'.reshaped = sim.reshaped /\ sim'.running = sim.running
      /\ sim'.start = sim.start /\ sim'.timers = sim.timers
  BY <1>1
<1>3. SimShape'
  BY <1>1, <1>2 DEF SimShape
<1>4. SimTypes'
  BY <1>2, <1>3 DEF SimInv, SimTypes
<1>5. SimFollows'
  BY <1>2 DEF SimInv, SimFollows
<1>6. QED
  BY <1>2, <1>4, <1>5, DiskStays

LEMMA AnimationKept ==
  ASSUME SimInv, AnimationTick
  PROVE  SimInv'
<1> DEFINE v == IF sim.live.points THEN "scenario" ELSE sim.value
           s == IF sim.animated THEN v ELSE sim.shown
<1>1. sim' = [sim EXCEPT !.value = v, !.shown = s] /\ UNCHANGED disk
  BY DEF AnimationTick, SimInv, SimTypes, SimShape
<1>2. ~sim.animated /\ ~sim.reshaped /\ sim.current.wave = "none" => s = v
  <2>1. SUFFICES ASSUME ~sim.animated, ~sim.reshaped, sim.current.wave = "none"
                 PROVE  s = v
    OBVIOUS
  <2>2. ~sim.live.points /\ sim.shown = sim.value
    BY <2>1 DEF SimInv, SimFollows
  <2>3. QED
    BY <2>1, <2>2
<1> HIDE DEF v, s
<1>3. QED
  BY <1>1, <1>2, ValueKept

LEMMA SimKept ==
  ASSUME SimInv, SimNext
  PROVE  SimInv'
<1>1. CASE SetSignalValue
  BY <1>1, ValueKept DEF SetSignalValue
<1>2. CASE StartStop \/ ProfileChanged \/ NewProfile
  BY <1>2, StartStopKept, ProfileChangedKept, NewProfileKept
<1>3. CASE EditProfile \/ Waveform \/ DeleteProfile \/ AnimationTick
  BY <1>3, EditProfileKept, WaveformKept, DeleteProfileKept, AnimationKept
<1>4. QED
  BY <1>1, <1>2, <1>3 DEF SimNext, SimReacts

LEMMA SimReached == SimInv => SimSound
<1> SUFFICES ASSUME SimInv PROVE SimSound
  OBVIOUS
<1>1. sim.running = sim.start
  BY DEF SimInv, SimTypes, SimFollows
<1>2. disk[sim.path] # NoFile
  BY ProfilesAreNoFile DEF SimInv, FileFollows
<1>3. sim.path \in Custom =>
        /\ [disk[sim.path] EXCEPT !.id = 0] = [sim.current EXCEPT !.id = 0]
        /\ sim.current.id < 10 => disk[sim.path].id = sim.current.id
  <2> SUFFICES ASSUME sim.path \in Custom
               PROVE  /\ [disk[sim.path] EXCEPT !.id = 0] = [sim.current EXCEPT !.id = 0]
                      /\ sim.current.id < 10 => disk[sim.path].id = sim.current.id
    OBVIOUS
  <2> DEFINE p == disk[sim.path]
             q == sim.current
  <2>1. IsProfile(p) /\ IsProfile(q) /\ SameButId(p, q)
    BY DEF SimInv, SimTypes, FileFollows
  <2> HIDE DEF p, q
  <2>2. [p EXCEPT !.id = 0] = [id |-> 0, wave |-> p.wave, points |-> p.points, text |-> p.text]
    BY <2>1 DEF IsProfile
  <2>3. [q EXCEPT !.id = 0] = [id |-> 0, wave |-> q.wave, points |-> q.points, text |-> q.text]
    BY <2>1 DEF IsProfile
  <2>4. [p EXCEPT !.id = 0] = [q EXCEPT !.id = 0] /\ (q.id < 10 => p.id = q.id)
    BY <2>1, <2>2, <2>3 DEF SameButId
  <2>5. QED
    BY <2>4 DEF p, q
<1>4. QED
  BY <1>1, <1>2, <1>3 DEF SimSound, SimInv, SimFollows, FileFollows

\* The tree of the editor.
LEMMA MaxReached ==
  ASSUME NEW n \in Nat, NEW S \in SUBSET (0..n), S # {}
  PROVE  Max(S) \in S /\ \A y \in S : Max(S) >= y
<1> DEFINE T == {n - y : y \in S}
           less == OpToRel(<, Nat)
<1>1. T \subseteq Nat /\ T # {}
  <2>1. \A y \in S : y \in 0..n
    OBVIOUS
  <2>2. \A y \in S : n - y \in Nat
    BY <2>1
  <2>3. QED
    BY <2>2
<1>2. IsWellFoundedOn(less, Nat)
  BY NatLessThanWellFounded
<1>3. \A u \in Nat, t \in Nat : u < t => <<u, t>> \in less
  BY DEF OpToRel
<1> HIDE DEF less
<1>4. PICK t \in T : \A u \in T : ~(<<u, t>> \in less)
  BY ONLY <1>1, <1>2, WFMin
<1>5. \A u \in T : u >= t
  <2>1. ASSUME NEW u \in T PROVE u >= t
    <3>1. u \in Nat /\ t \in Nat
      BY <1>1
    <3>2. ~(u < t)
      BY <1>3, <1>4, <3>1
    <3>3. QED
      BY <3>1, <3>2
  <2>2. QED
    BY <2>1
<1>6. PICK x \in S : t = n - x
  OBVIOUS
<1>7. \A y \in S : x >= y
  BY <1>5, <1>6
<1>8. QED
  BY <1>7 DEF Max

LEMMA KindsAre == Range(Kinds) = ItemKinds
BY DEF Range, Kinds, ItemKinds

LEMMA Depths == Depth("node") = 1 /\ Depth("message") = 2 /\ Depth("signal") = 3
<1>1. Kinds[1] = "node" /\ Kinds[2] = "message" /\ Kinds[3] = "signal"
  BY DEF Kinds
<1>2. QED
  BY <1>1 DEF Depth

\* What the form shows reads as what it shows, whatever was entered.
LEMMA EntryIs ==
  ASSUME NEW x \in 0..1, NEW y \in AllTexts
  PROVE  <<x, y>> \in Entries
BY DEF Entries

LEMMA BlankEntry ==
  ASSUME NEW y \in {"none", "0x100"}
  PROVE  <<0, y>> \in Entries
<1>1. 0 \in 0..1
  OBVIOUS
<1>2. y \in AllTexts
  BY Zenon DEF AllTexts, IdTexts, RowTexts
<1>3. QED
  BY <1>1, <1>2, EntryIs

LEMMA ReadShown ==
  ASSUME NEW k \in ItemKinds, NEW e \in Entries
  PROVE  /\ Parsed(k, e) \in FieldValues /\ FormOf(k, Parsed(k, e)) \in Entries
         /\ Parsed(k, FormOf(k, Parsed(k, e))) = Parsed(k, e)
<1>1. e[1] \in 0..1 /\ e[1] \in Int
  BY DEF Entries
<1>2. \A x \in 0..1, y \in AllTexts : <<x, y>> \in Entries /\ <<x, y>>[1] = x /\ <<x, y>>[2] = y
  BY DEF Entries
<1>3. \A x, y \in Int : <<x, y>> \in FieldValues /\ <<x, y>>[1] = x /\ <<x, y>>[2] = y
  BY DEF FieldValues
<1>4. CASE k = "message"
  <2> DEFINE id == ReadId(e[2])
  <2>1. id \in {0, 100, 256, 416}
    BY DEF ReadId
  <2>2. Parsed(k, e) = <<e[1], id>>
    BY <1>4 DEF Parsed
  <2> HIDE DEF id
  <2>3. ShownId(id) \in AllTexts /\ ReadId(ShownId(id)) = id /\ id \in Int
    BY <2>1 DEF ShownId, ReadId, AllTexts, IdTexts
  <2>4. FormOf(k, <<e[1], id>>) = <<e[1], ShownId(id)>>
    BY <1>1, <1>3, <1>4, <2>3 DEF FormOf
  <2>5. Parsed(k, <<e[1], ShownId(id)>>) = <<e[1], id>>
    BY <1>1, <1>2, <1>4, <2>3 DEF Parsed
  <2>6. QED
    BY <1>1, <1>2, <1>3, <2>2, <2>3, <2>4, <2>5
<1>5. CASE k # "message"
  <2> DEFINE rows == ReadRows(e[2])
  <2>1. rows \in {0, 1}
    BY DEF ReadRows
  <2>2. Parsed(k, e) = <<e[1], rows>>
    BY <1>5 DEF Parsed
  <2> HIDE DEF rows
  <2>3. ShownRows(rows) \in AllTexts /\ ReadRows(ShownRows(rows)) = rows /\ rows \in Int
    BY <2>1 DEF ShownRows, ReadRows, AllTexts, RowTexts
  <2>4. FormOf(k, <<e[1], rows>>) = <<e[1], ShownRows(rows)>>
    BY <1>1, <1>3, <1>5, <2>3 DEF FormOf
  <2>5. Parsed(k, <<e[1], ShownRows(rows)>>) = <<e[1], rows>>
    BY <1>1, <1>2, <1>5, <2>3 DEF Parsed
  <2>6. QED
    BY <1>1, <1>2, <1>3, <2>2, <2>3, <2>4, <2>5
<1>6. QED
  BY <1>4, <1>5

\* One entry changes what is read of its own field.
LEMMA ReadChanged ==
  ASSUME NEW k, NEW a \in Entries, NEW b \in Entries, Parsed(k, a) = Parsed(k, b), NEW f \in 1..2, NEW v,
         IF f = 1 THEN v \in 0..1 ELSE v \in AllTexts
  PROVE  /\ [a EXCEPT ![f] = v] \in Entries /\ [b EXCEPT ![f] = v] \in Entries
         /\ Parsed(k, [a EXCEPT ![f] = v]) = Parsed(k, [b EXCEPT ![f] = v])
<1>1. [a EXCEPT ![f] = v] \in Entries /\ [b EXCEPT ![f] = v] \in Entries
  BY DEF Entries
<1> DEFINE second(e) == IF k = "message" THEN ReadId(e[2]) ELSE ReadRows(e[2])
<1>2. \A e : Parsed(k, e) = <<e[1], second(e)>>
  BY DEF Parsed
<1>3. a[1] = b[1] /\ second(a) = second(b)
  <2> HIDE DEF second
  <2>1. <<a[1], second(a)>> = <<b[1], second(b)>>
    BY <1>2
  <2>2. QED
    BY ONLY <2>1
<1>4. CASE f = 1
  <2>1. [a EXCEPT ![f] = v][1] = v /\ [b EXCEPT ![f] = v][1] = v
    BY <1>4 DEF Entries
  <2>2. [a EXCEPT ![f] = v][2] = a[2] /\ [b EXCEPT ![f] = v][2] = b[2]
    BY <1>4 DEF Entries
  <2>3. QED
    BY <1>1, <1>2, <1>3, <2>1, <2>2
<1>5. CASE f = 2
  <2>1. [a EXCEPT ![f] = v][2] = v /\ [b EXCEPT ![f] = v][2] = v
    BY <1>5 DEF Entries
  <2>2. [a EXCEPT ![f] = v][1] = a[1] /\ [b EXCEPT ![f] = v][1] = b[1]
    BY <1>5 DEF Entries
  <2>3. second([a EXCEPT ![f] = v]) = second([b EXCEPT ![f] = v])
    BY <2>1
  <2> HIDE DEF second
  <2>4. QED
    BY <1>1, <1>2, <1>3, <2>2, <2>3
<1>6. QED
  BY <1>1, <1>4, <1>5

\* A subtree ends in the list, before an item that is not deeper.
LEMMA SubtreeEnds ==
  ASSUME tree.items \in Seq(Item), NEW i \in 1..Len(tree.items)
  PROVE  /\ EndOf(i) \in i..Len(tree.items)
         /\ EndOf(i) < Len(tree.items) =>
              Depth(tree.items[EndOf(i) + 1].kind) <= Depth(tree.items[i].kind)
<1> DEFINE n == Len(tree.items)
           d(k) == Depth(tree.items[k].kind)
           S == {j \in i..n : \A k \in (i + 1)..j : d(k) > d(i)}
<1>1. n \in Nat /\ i \in Nat /\ i <= n
  OBVIOUS
<1>2. \A k \in 1..n : d(k) \in Int
  <2>1. \A k \in 1..n : tree.items[k] \in Item
    OBVIOUS
  <2>2. \A x \in Item : Depth(x.kind) \in Int
    BY Depths DEF Item, ItemKinds
  <2>3. QED
    BY <2>1, <2>2
<1>3. EndOf(i) = Max(S)
  BY DEF EndOf
<1> HIDE DEF n, d
<1>4. i \in S
  BY <1>1
<1>5. S \in SUBSET (0..n)
  BY <1>1
<1>6. Max(S) \in S /\ \A y \in S : Max(S) >= y
  BY <1>1, <1>4, <1>5, MaxReached
<1>7. ASSUME Max(S) < n, d(Max(S) + 1) > d(i) PROVE FALSE
  BY <1>1, <1>6, <1>7
<1>8. Max(S) \in i..n
  BY <1>6
<1>9. Max(S) < n => d(Max(S) + 1) <= d(i)
  BY <1>1, <1>2, <1>8, <1>7
<1>10. QED
  BY <1>3, <1>8, <1>9 DEF n, d

LEMMA SelectedType ==
  ASSUME NEW t \in TreeType, NEW i \in Nat, NEW k \in ItemKinds,
         NEW buttons \in SUBSET {"remove", "message", "signal"}, NEW form \in [ItemKinds -> Entries]
  PROVE  [t EXCEPT !.current = i, !.page = k, !.buttons = buttons, !.form = form] \in TreeType
BY DEF TreeType

LEMMA SelectedKept ==
  ASSUME NEW t \in TreeType, ItemsHold(t.items), NEW i \in 1..Len(t.items),
         tree' = Selected(t, i)
  PROVE  TreeInv'
<1> DEFINE k == t.items[i].kind
           shown == FormOf(k, t.items[i].fields)
           buttons == ButtonsFor(k)
           form == [t.form EXCEPT ![k] = shown]
<1>1. t.items[i] \in Item /\ t.items[i].fields = Parsed(k, t.items[i].entered)
  BY DEF TreeType, ItemsHold
<1>2. k \in ItemKinds /\ shown \in Entries /\ Parsed(k, shown) = t.items[i].fields /\ t.form \in [ItemKinds -> Entries]
  <2>1. k \in ItemKinds /\ t.items[i].entered \in Entries /\ t.form \in [ItemKinds -> Entries]
    BY <1>1 DEF Item, TreeType
  <2>2. QED
    BY <1>1, <2>1, ReadShown
<1>3. buttons \in SUBSET {"remove", "message", "signal"}
  BY DEF ButtonsFor
<1>4. form \in [ItemKinds -> Entries] /\ form[k] = shown
  <2> HIDE DEF shown, k
  <2>1. QED
    BY <1>2
<1>5. tree' = [t EXCEPT !.current = i, !.page = k, !.buttons = buttons, !.form = form]
  BY DEF Selected, TreeType
<1> HIDE DEF k, shown, buttons, form
<1>6. tree' \in TreeType
  <2>1. i \in Nat
    BY DEF TreeType
  <2>2. QED
    BY ONLY <1>2, <1>3, <1>4, <1>5, <2>1, t \in TreeType, SelectedType
<1>7. /\ tree'.items = t.items /\ tree'.current = i /\ tree'.page = k /\ tree'.form = form
  BY <1>5 DEF TreeType
<1>8. k # "none" /\ Len(t.items) \in Nat
  BY <1>2 DEF ItemKinds, TreeType
<1>9. FormShows'
  BY <1>2, <1>4, <1>7 DEF FormShows, k
<1>10. QED
  BY <1>6, <1>7, <1>8, <1>9 DEF TreeInv

LEMMA InsertedItem ==
  ASSUME NEW s, ItemsHold(s), NEW e \in Item, e.fields = Parsed(e.kind, e.entered), NEW at \in 1..(Len(s) + 1),
         at = 1 => e.kind = "node"
  PROVE  ItemsHold(InsertAt(s, at, e)) /\ at \in 1..Len(InsertAt(s, at, e))
<1> DEFINE a == SubSeq(s, 1, at - 1)
           b == SubSeq(s, at, Len(s))
           r == a \o <<e>> \o b
<1>1. s \in Seq(Item) /\ Len(s) \in Nat
  BY DEF ItemsHold
<1>2. /\ a \in Seq(Item) /\ Len(a) = at - 1 /\ \A i \in 1..(at - 1) : a[i] = s[i]
  BY <1>1, SubSeqProperties
<1>3. /\ b \in Seq(Item) /\ Len(b) = Len(s) - at + 1
      /\ \A i \in 1..(Len(s) - at + 1) : b[i] = s[at + i - 1]
  BY <1>1, SubSeqProperties
<1>4. r = InsertAt(s, at, e)
  BY DEF InsertAt
<1> HIDE DEF a, b
<1>5. /\ r \in Seq(Item) /\ Len(r) = Len(s) + 1
      /\ \A i \in 1..(Len(s) + 1) :
           r[i] = IF i < at THEN a[i] ELSE IF i = at THEN e ELSE b[i - at]
  <2> DEFINE c == a \o <<e>>
  <2>1. <<e>> \in Seq(Item) /\ Len(<<e>>) = 1 /\ <<e>>[1] = e
    OBVIOUS
  <2>2. /\ c \in Seq(Item) /\ Len(c) = at
        /\ \A i \in 1..at : c[i] = IF i < at THEN a[i] ELSE e
    BY <1>1, <1>2, <2>1, ConcatProperties
  <2> HIDE DEF c
  <2>3. /\ c \o b \in Seq(Item) /\ Len(c \o b) = Len(c) + Len(b)
        /\ \A i \in 1..(Len(c) + Len(b)) : (c \o b)[i] = IF i <= Len(c) THEN c[i] ELSE b[i - Len(c)]
    BY <1>3, <2>2, ConcatProperties
  <2>4. r = c \o b
    BY DEF c
  <2> HIDE DEF r
  <2>5. QED
    BY <1>1, <1>3, <2>2, <2>3, <2>4
<1> HIDE DEF r
<1>6. ASSUME NEW i \in 1..(Len(s) + 1) PROVE r[i].fields = Parsed(r[i].kind, r[i].entered)
  <2>1. CASE i < at
    <3>1. i \in 1..(at - 1) /\ i \in 1..Len(s)
      BY <1>1, <2>1
    <3>2. r[i] = s[i]
      BY <1>2, <1>5, <2>1, <3>1
    <3>3. QED
      BY <3>1, <3>2 DEF ItemsHold
  <2>2. CASE i = at
    BY <1>5, <2>2
  <2>3. CASE i > at
    <3>1. r[i] = b[i - at] /\ i - at \in 1..(Len(s) - at + 1)
      BY <1>1, <1>5, <2>3
    <3>2. b[i - at] = s[at + (i - at) - 1] /\ at + (i - at) - 1 = i - 1 /\ i - 1 \in 1..Len(s)
      BY <1>1, <1>3, <2>3, <3>1
    <3>3. QED
      BY <3>1, <3>2 DEF ItemsHold
  <2>4. QED
    BY <1>1, <2>1, <2>2, <2>3
<1>7. r[1].kind = "node"
  BY <1>1, <1>5, <1>2 DEF ItemsHold
<1>8. QED
  BY <1>1, <1>4, <1>5, <1>6, <1>7 DEF ItemsHold

LEMMA AddItemKept ==
  ASSUME TreeInv, AddItem
  PROVE  TreeInv'
<1> DEFINE items == tree.items
           n == Len(items)
<1>1. items \in Seq(Item) /\ n \in Nat /\ tree.current \in 0..n /\ ItemsHold(items)
  BY DEF TreeInv, TreeType, ItemsHold
<1>2. PICK kind \in Range(Kinds) :
        LET parent == IF kind = "node" THEN 0 ELSE ParentFor(kind)
            at == IF kind = "node" THEN Len(tree.items) + 1 ELSE EndOf(parent) + 1 IN
        /\ kind # "node" => parent > 0 /\ kind \in tree.buttons
        /\ tree' = Selected([tree EXCEPT !.items = InsertAt(@, at, NewItem(kind))], at)
  BY DEF AddItem
<1> DEFINE parent == ParentFor(kind)
           at == IF kind = "node" THEN n + 1 ELSE EndOf(parent) + 1
           new == NewItem(kind)
<1>3. new \in Item /\ new.fields = Parsed(kind, new.entered) /\ new.kind = kind
  <2> DEFINE entered == IF kind = "message" THEN <<0, "0x100">> ELSE <<0, "none">>
  <2>1. kind \in ItemKinds /\ entered \in Entries
    BY KindsAre, BlankEntry
  <2>2. Parsed(kind, entered) = IF kind = "message" THEN <<0, 256>> ELSE <<0, 0>>
    BY DEF Parsed, ReadId, ReadRows
  <2> HIDE DEF entered
  <2>3. new = [kind |-> kind, fields |-> Parsed(kind, entered), entered |-> FormOf(kind, Parsed(kind, entered))]
    BY <2>2 DEF NewItem
  <2>4. QED
    BY <2>1, <2>3, ReadShown DEF Item
<1>4. at \in 1..(n + 1) /\ (at = 1 => kind = "node")
  <2>1. CASE kind = "node"
    BY <1>1, <2>1
  <2>2. CASE kind # "node"
    <3> DEFINE above == {i \in 1..tree.current :
                           /\ Depth(tree.items[i].kind) = Depth(kind) - 1
                           /\ EndOf(i) >= tree.current}
    <3>1. parent > 0
      BY <1>2, <2>2
    <3>2. parent = IF above = {} THEN 0 ELSE Max(above)
      BY DEF ParentFor
    <3>3. above \in SUBSET (0..n) /\ above \subseteq 1..n
      BY <1>1
    <3> HIDE DEF above, parent
    <3>4. parent \in 1..n
      <4>1. above # {} /\ parent = Max(above)
        BY <3>1, <3>2
      <4>2. Max(above) \in above
        BY <1>1, <3>3, <4>1, MaxReached
      <4>3. QED
        BY <3>3, <4>1, <4>2
    <3>5. EndOf(parent) \in parent..n
      BY <1>1, <3>4, SubtreeEnds
    <3>6. QED
      BY <1>1, <2>2, <3>4, <3>5
  <2>3. QED
    BY <2>1, <2>2
<1>5. tree' = Selected([tree EXCEPT !.items = InsertAt(items, at, new)], at)
  BY <1>2 DEF TreeInv, TreeType
<1> DEFINE more == InsertAt(items, at, new)
<1> HIDE DEF parent, at, new
<1>6. ItemsHold(more) /\ at \in 1..Len(more)
  BY <1>1, <1>3, <1>4, InsertedItem
<1> HIDE DEF more
<1>7. more \in Seq(Item) /\ tree \in TreeType
  BY <1>6 DEF ItemsHold, TreeInv
<1>8. [tree EXCEPT !.items = more] \in TreeType /\ [tree EXCEPT !.items = more].items = more
  BY <1>7 DEF TreeType
<1>9. tree' = Selected([tree EXCEPT !.items = more], at)
  BY <1>5 DEF more
<1>10. QED
  BY <1>6, <1>8, <1>9, SelectedKept

LEMMA EditFieldKept ==
  ASSUME TreeInv, EditField
  PROVE  TreeInv'
<1> DEFINE c == tree.current
           page_ == tree.page
           item == tree.items[c]
<1>0. PICK f \in 1..2 : \E v \in IF f = 1 THEN 0..1 ELSE Texts(tree.page) :
        LET form == [tree.form[tree.page] EXCEPT ![f] = v] IN
        tree' = [tree EXCEPT !.form[tree.page] = form,
                             !.items[tree.current].fields = Parsed(tree.page, form),
                             !.items[tree.current].entered[f] = v]
  BY DEF EditField
<1>1. PICK v \in IF f = 1 THEN 0..1 ELSE Texts(tree.page) :
        LET form == [tree.form[tree.page] EXCEPT ![f] = v] IN
        tree' = [tree EXCEPT !.form[tree.page] = form,
                             !.items[tree.current].fields = Parsed(tree.page, form),
                             !.items[tree.current].entered[f] = v]
  BY <1>0
<1>2. /\ page_ # "none" /\ page_ \in ItemKinds /\ c \in 1..Len(tree.items)
      /\ item \in Item /\ page_ = item.kind /\ Parsed(page_, tree.form[page_]) = item.fields
      /\ item.fields = Parsed(page_, item.entered) /\ tree.form \in [ItemKinds -> Entries]
      /\ tree.items \in Seq(Item)
  BY DEF EditField, TreeInv, TreeType, FormShows, ItemsHold
<1> DEFINE changed == [tree.form[page_] EXCEPT ![f] = v]
           form == [tree.form EXCEPT ![page_] = changed]
           fields == Parsed(page_, changed)
           entered == [item.entered EXCEPT ![f] = v]
           edited == [kind |-> item.kind, fields |-> fields, entered |-> entered]
           items == [tree.items EXCEPT ![c] = edited]
<1>3. /\ changed \in Entries /\ entered \in Entries /\ fields = Parsed(page_, entered) /\ fields \in FieldValues
      /\ form \in [ItemKinds -> Entries] /\ form[page_] = changed
  <2>1. IF f = 1 THEN v \in 0..1 ELSE v \in AllTexts
    BY <1>1 DEF Texts, AllTexts
  <2>2. tree.form[page_] \in Entries /\ item.entered \in Entries
    BY <1>2 DEF Item
  <2>3. changed \in Entries /\ entered \in Entries /\ fields = Parsed(page_, entered)
    <3>1. Parsed(page_, tree.form[page_]) = Parsed(page_, item.entered)
      BY <1>2
    <3> HIDE DEF item, page_
    <3>2. QED
      BY <2>1, <2>2, <3>1, ReadChanged
  <2> HIDE DEF changed
  <2>4. fields \in FieldValues
    BY <1>2, <2>3, ReadShown
  <2>5. QED
    BY <1>2, <2>3, <2>4
<1>4. edited = [[item EXCEPT !.fields = fields] EXCEPT !.entered[f] = v]
  <2>1. item = [kind |-> item.kind, fields |-> item.fields, entered |-> item.entered]
    BY <1>2 DEF Item
  <2> HIDE DEF fields, item
  <2>2. [item EXCEPT !.fields = fields]
          = [kind |-> item.kind, fields |-> fields, entered |-> item.entered]
    BY <2>1
  <2>3. [[kind |-> item.kind, fields |-> fields, entered |-> item.entered] EXCEPT !.entered[f] = v]
          = [kind |-> item.kind, fields |-> fields, entered |-> entered]
    OBVIOUS
  <2>4. QED
    BY <2>2, <2>3
<1>5. tree' = [tree EXCEPT !.form = form, !.items = items]
  <2> DEFINE once == [tree.items EXCEPT ![c].fields = fields]
             twice == [once EXCEPT ![c].entered[f] = v]
  <2>1. once[c] = [item EXCEPT !.fields = fields] /\ once = [tree.items EXCEPT ![c] = once[c]]
    BY <1>2
  <2>2. twice = [tree.items EXCEPT ![c] = [once[c] EXCEPT !.entered[f] = v]]
    <3> HIDE DEF once
    <3>1. QED
      BY <1>2, <2>1
  <2>3. twice = items
    <3> HIDE DEF once, edited
    <3>1. QED
      BY <1>4, <2>1, <2>2
  <2>4. tree' = [tree EXCEPT !.form = form, !.items = twice]
    <3> DEFINE With(i, g) == [items |-> i, current |-> c, page |-> page_, buttons |-> tree.buttons,
                            form |-> g, saved |-> tree.saved]
    <3>1. tree = With(tree.items, tree.form)
      BY DEF TreeInv, TreeType
    <3>2. tree' = [[[tree EXCEPT !.form[page_] = changed] EXCEPT !.items[c].fields = fields]
                     EXCEPT !.items[c].entered[f] = v]
      BY <1>1
    <3>3. [tree EXCEPT !.form[page_] = changed] = With(tree.items, form)
      <4> HIDE DEF changed
      <4>1. [tree EXCEPT !.form = form] = With(tree.items, form)
        BY <3>1
      <4>2. QED
        BY <4>1
    <3>4. [With(tree.items, form) EXCEPT !.items[c].fields = fields] = With(once, form)
      <4> HIDE DEF fields, form
      <4>1. QED
        OBVIOUS
    <3>5. [With(once, form) EXCEPT !.items[c].entered[f] = v] = With(twice, form)
      <4> HIDE DEF once, form
      <4>1. QED
        OBVIOUS
    <3>6. [tree EXCEPT !.form = form, !.items = twice] = With(twice, form)
      <4> HIDE DEF twice, form
      <4>1. [tree EXCEPT !.form = form] = With(tree.items, form)
        BY <3>1
      <4>2. [With(tree.items, form) EXCEPT !.items = twice] = With(twice, form)
        OBVIOUS
      <4>3. QED
        BY <4>1, <4>2
    <3> HIDE DEF With, form, once, twice, changed, fields
    <3>7. QED
      BY <3>2, <3>3, <3>4, <3>5, <3>6
  <2>5. QED
    BY <2>3, <2>4
<1>6. edited \in Item
  BY <1>2, <1>3 DEF Item
<1> HIDE DEF changed, form, fields, entered, items
<1>7. /\ items \in Seq(Item) /\ Len(items) = Len(tree.items)
      /\ \A i \in 1..Len(items) : items[i] = IF i = c THEN edited ELSE tree.items[i]
  BY <1>2, <1>6 DEF items
<1>8. ItemsHold(items)
  BY <1>7, <1>2, <1>3 DEF TreeInv, ItemsHold
<1>9. tree' \in TreeType
  BY <1>3, <1>5, <1>7 DEF TreeInv, TreeType
<1>10. /\ tree'.items = items /\ tree'.form = form /\ tree'.page = page_ /\ tree'.current = c
       /\ tree'.buttons = tree.buttons
  BY <1>5 DEF TreeInv, TreeType
<1>11. FormShows'
  <2>1. edited.kind = page_ /\ edited.fields = Parsed(page_, changed)
    BY <1>2 DEF fields
  <2> HIDE DEF edited, page_
  <2>2. QED
    BY <1>2, <1>3, <1>7, <1>10, <2>1 DEF FormShows
<1>12. QED
  BY <1>2, <1>7, <1>8, <1>9, <1>10, <1>11 DEF TreeInv

\* What is left when items i to e of a list are taken away.
LEMMA RestMeant ==
  ASSUME NEW s, ItemsHold(s), NEW i \in 1..Len(s), NEW e \in i..Len(s),
         i = 1 /\ e < Len(s) => s[e + 1].kind = "node"
  PROVE  ItemsHold(SubSeq(s, 1, i - 1) \o SubSeq(s, e + 1, Len(s)))
<1> DEFINE n == Len(s)
           a == SubSeq(s, 1, i - 1)
           b == SubSeq(s, e + 1, n)
           r == a \o b
<1>1. s \in Seq(Item) /\ n \in Nat /\ i \in Nat /\ e \in Nat /\ i <= e /\ e <= n
  BY DEF ItemsHold
<1>2. /\ a \in Seq(Item) /\ Len(a) = i - 1 /\ \A j \in 1..(i - 1) : a[j] = s[j]
  BY <1>1, SubSeqProperties
<1>3. /\ b \in Seq(Item) /\ Len(b) = n - e /\ \A j \in 1..(n - e) : b[j] = s[e + j]
  <2>1. \A j \in (e + 1)..n : s[j] \in Item
    BY <1>1
  <2>2. /\ b \in Seq(Item) /\ Len(b) = IF e + 1 <= n THEN n - (e + 1) + 1 ELSE 0
        /\ \A j \in 1..(n - (e + 1) + 1) : b[j] = s[(e + 1) + j - 1]
    BY <1>1, <2>1, SubSeqProperties
  <2> HIDE DEF b, n
  <2>3. n - (e + 1) + 1 = n - e /\ \A j \in Int : (e + 1) + j - 1 = e + j
    BY <1>1
  <2>4. QED
    BY <1>1, <2>2, <2>3
<1> HIDE DEF a, b, n
<1>4. /\ r \in Seq(Item) /\ Len(r) = (i - 1) + (n - e)
      /\ \A j \in 1..((i - 1) + (n - e)) : r[j] = IF j <= i - 1 THEN a[j] ELSE b[j - (i - 1)]
  <2>1. /\ r \in Seq(Item) /\ Len(r) = Len(a) + Len(b)
        /\ \A j \in 1..(Len(a) + Len(b)) : r[j] = IF j <= Len(a) THEN a[j] ELSE b[j - Len(a)]
    BY <1>2, <1>3, ConcatProperties
  <2> HIDE DEF r
  <2>2. QED
    BY <1>2, <1>3, <2>1
<1> HIDE DEF r
<1>5. \A j \in 1..Len(r) : \E k \in 1..n : r[j] = s[k]
  <2>1. ASSUME NEW j \in 1..Len(r) PROVE \E k \in 1..n : r[j] = s[k]
    <3>1. CASE j <= i - 1
      <4>1. j \in 1..(i - 1) /\ j \in 1..n
        BY <1>1, <1>4, <3>1
      <4>2. QED
        BY <1>2, <1>4, <3>1, <4>1
    <3>2. CASE ~(j <= i - 1)
      BY <1>1, <1>4, <3>2, <1>3
    <3>3. QED
      BY <3>1, <3>2
  <2>2. QED
    BY <2>1
<1>6. r # <<>> => r[1].kind = "node"
  <2>1. SUFFICES ASSUME Len(r) > 0 PROVE r[1].kind = "node"
    BY <1>4
  <2>2. CASE i > 1
    BY <1>1, <1>2, <1>4, <2>1, <2>2 DEF ItemsHold, n
  <2>3. CASE i = 1
    BY <1>1, <1>3, <1>4, <2>1, <2>3 DEF n
  <2>4. QED
    BY <1>1, <2>2, <2>3
<1>7. ItemsHold(r)
  BY <1>4, <1>5, <1>6 DEF ItemsHold, n
<1>8. QED
  BY <1>7 DEF r, a, b, n

LEMMA RemoveItemKept ==
  ASSUME TreeInv, RemoveItem
  PROVE  TreeInv'
<1> DEFINE i == tree.current
           n == Len(tree.items)
           e == EndOf(i)
           rest == SubSeq(tree.items, 1, i - 1) \o SubSeq(tree.items, e + 1, n)
<1>1. /\ tree.items \in Seq(Item) /\ n \in Nat /\ i \in 1..n /\ ItemsHold(tree.items)
  BY DEF RemoveItem, TreeInv, TreeType, FormShows
<1>2. e \in i..n /\ (e < n => Depth(tree.items[e + 1].kind) <= Depth(tree.items[i].kind))
  BY <1>1, SubtreeEnds
<1>3. Max(i..e) = e
  <2>1. i..e \in SUBSET (0..n) /\ e \in i..e
    BY <1>1, <1>2
  <2> HIDE DEF i, e, n
  <2>2. Max(i..e) \in i..e /\ Max(i..e) >= e
    BY <1>1, <2>1, MaxReached
  <2>3. QED
    BY <1>1, <1>2, <2>2
<1>4. PICK c \in DOMAIN rest \cup (IF rest = <<>> THEN {0} ELSE {}) :
        tree' = [tree EXCEPT !.items = rest, !.current = c, !.page = "none", !.buttons = {},
                   !.form = IF c = 0 THEN @ ELSE [@ EXCEPT ![rest[c].kind] = FormOf(rest[c].kind, rest[c].fields)]]
  BY <1>3 DEF RemoveItem
<1> HIDE DEF i, n, e
<1>5. i = 1 /\ e < n => tree.items[e + 1].kind = "node"
  <2>1. SUFFICES ASSUME i = 1, e < n PROVE tree.items[e + 1].kind = "node"
    OBVIOUS
  <2>2. tree.items[1].kind = "node" /\ e + 1 \in 1..n
    BY <1>1, <1>2, <2>1 DEF ItemsHold, n
  <2>3. tree.items[e + 1].kind \in ItemKinds
    <3>1. tree.items[e + 1] \in Item
      BY <1>1, <2>2 DEF n
    <3>2. QED
      BY <3>1 DEF Item
  <2>4. QED
    BY <1>2, <2>1, <2>2, <2>3, Depths DEF ItemKinds
<1>6. ItemsHold(rest)
  BY <1>1, <1>2, <1>5, RestMeant DEF n
<1> HIDE DEF rest
<1>7. rest \in Seq(Item) /\ c \in 0..Len(rest) /\ c \in Nat /\ (c # 0 => rest[c] \in Item)
  BY <1>6 DEF ItemsHold
<1> DEFINE shown == FormOf(rest[c].kind, rest[c].fields)
           form == IF c = 0 THEN tree.form ELSE [tree.form EXCEPT ![rest[c].kind] = shown]
<1>8. form \in [ItemKinds -> Entries]
  <2>1. c # 0 => shown \in Entries
    BY <1>6, <1>7, ReadShown DEF ItemsHold, Item
  <2> HIDE DEF shown
  <2>2. QED
    BY <1>7, <2>1 DEF Item, TreeInv, TreeType
<1>9. tree' = [tree EXCEPT !.items = rest, !.current = c, !.page = "none", !.buttons = {},
                           !.form = form]
  BY <1>4 DEF TreeInv, TreeType
<1> HIDE DEF form
<1>10. tree' = [items |-> rest, current |-> c, page |-> "none", buttons |-> {}, form |-> form,
                saved |-> tree.saved]
  BY <1>9 DEF TreeInv, TreeType
<1>11. tree.saved \in BOOLEAN
  BY DEF TreeInv, TreeType
<1>12. tree' \in TreeType
  BY <1>7, <1>8, <1>10, <1>11 DEF TreeType
<1>13. /\ tree'.items = rest /\ tree'.current = c /\ tree'.page = "none" /\ tree'.buttons = {}
  BY <1>10
<1>14. QED
  BY <1>6, <1>7, <1>12, <1>13 DEF TreeInv, FormShows

LEMMA TreeKept ==
  ASSUME TreeInv, TreeNext
  PROVE  TreeInv'
<1>1. CASE SelectItem
  <2>1. PICK i \in 1..Len(tree.items) : tree' = Selected(tree, i)
    BY <1>1 DEF SelectItem, TreeInv, TreeType
  <2>2. QED
    BY <2>1, SelectedKept DEF TreeInv
<1>2. CASE AcceptProfile
  BY <1>2 DEF AcceptProfile, TreeInv, TreeType, FormShows
<1>3. QED
  BY <1>1, <1>2, AddItemKept, EditFieldKept, RemoveItemKept DEF TreeNext

\* Simulators agree with what they are simulating from: timers run while Start is down, the
\* file of a profile is the profile in use but for the identifier; the form of the editor is
\* that of the current item, and every item holds what is read from the last entries made for
\* it; a dialog that was only looked at changes no ECU; for any number of edits, in any order.
THEOREM SimulatorsAgree == Spec => []SimulatorsSound
<1> DEFINE SimulatorsInv == /\ On("simulator") => SimInv
                            /\ On("tree") => TreeInv
                            /\ On("ecus") => EcuInv
<1>1. Init => SimulatorsInv
  <2>1. SimInit => SimInv
    <3>1. SUFFICES ASSUME SimInit PROVE SimInv
      OBVIOUS
    <3> DEFINE live == Playing(Plant)
    <3>2. /\ IsProfile(live) /\ live.id = Plant.id /\ live.wave = Plant.wave
          /\ live.points <=> Plant.points \/ Plant.wave # "none"
      BY PlayingKeeps, PlantIsProfile
    <3> HIDE DEF live
    <3>3. sim = [path |-> "plant", current |-> Plant, live |-> live, animated |-> Plant.points,
                 value |-> "default", shown |-> "default", reshaped |-> FALSE,
                 running |-> FALSE, start |-> FALSE, timers |-> 0]
      BY <3>1 DEF SimInit, Fresh, live
    <3>4. /\ sim.path = "plant" /\ sim.current = Plant /\ sim.live = live
          /\ sim.animated = Plant.points /\ sim.value = "default" /\ sim.shown = "default"
          /\ sim.reshaped = FALSE /\ sim.running = FALSE /\ sim.start = FALSE /\ sim.timers = 0
      BY <3>3
    <3>5. /\ disk = [f \in Profiles |-> disk[f]] /\ disk["plant"] = Plant
          /\ \A f \in Profiles : disk[f] = NoFile \/ IsProfile(disk[f])
      BY <3>1, PlantIsProfile DEF SimInit
    <3>6. SimShape
      BY <3>3, <3>4 DEF SimShape
    <3>7. Plant.points \in BOOLEAN
      BY DEF Plant
    <3>8. SimTypes
      BY <3>2, <3>4, <3>5, <3>6, <3>7, PlantIsProfile DEF SimTypes
    <3>9. SimFollows
      BY <3>2, <3>4, <3>7 DEF SimFollows
    <3>10. FileFollows
      BY <3>4, <3>5, PlantIsProfile DEF FileFollows, Custom
    <3>11. QED
      BY <3>8, <3>9, <3>10 DEF SimInv
  <2>2. TreeInit => TreeInv
    <3>1. <<0, "none">> \in Entries
      BY BlankEntry
    <3>2. [k \in Range(Kinds) |-> <<0, "none">>] \in [ItemKinds -> Entries]
      BY <3>1, KindsAre
    <3>3. << >> \in Seq(Item) /\ Len(<< >>) = 0
      OBVIOUS
    <3> DEFINE form == [k \in Range(Kinds) |-> <<0, "none">>]
    <3> HIDE DEF form
    <3>4. ASSUME TreeInit PROVE TreeInv
      BY <3>4, <3>2, <3>3 DEF TreeInit, form, TreeType, TreeInv, FormShows, ItemsHold
    <3>5. QED
      BY <3>4
  <2>3. EcuInit => EcuInv
    BY DEF EcuInit, EcuInv, EcuType, DialogShows
  <2>4. QED
    BY <2>1, <2>2, <2>3 DEF Init
<1>2. SimulatorsInv /\ [Next]_pagesVars => SimulatorsInv'
  <2>1. SimInv /\ UNCHANGED simVars => SimInv'
    BY DEF SimInv, SimTypes, SimShape, SimFollows, FileFollows, simVars
  <2>2. TreeInv /\ UNCHANGED tree => TreeInv'
    BY DEF TreeInv, FormShows
  <2>3. EcuInv /\ UNCHANGED ecus => EcuInv'
    BY DEF EcuInv, DialogShows
  <2>4. QED
    BY <2>1, <2>2, <2>3, PageSteps, SimKept, TreeKept, EcuKept DEF On
<1>3. SimulatorsInv => SimulatorsSound
  <2>1. TreeInv => TreeSound
    <3>1. SUFFICES ASSUME TreeInv PROVE TreeSound
      OBVIOUS
    <3>2. DOMAIN tree.items = 1..Len(tree.items)
      BY <3>1 DEF TreeInv, TreeType
    <3>3. tree.page # "none" => tree.current \in 1..Len(tree.items)
      BY <3>1 DEF TreeInv, TreeType, FormShows
    <3>4. QED
      BY <3>1, <3>2, <3>3 DEF TreeInv, FormShows, ItemsHold, TreeSound
  <2>2. EcuInv => EcuSound
    BY DEF EcuInv, EcuType, EcuSound
  <2>3. QED
    BY <2>1, <2>2, SimReached DEF SimulatorsSound
<1>4. QED
  BY <1>1, <1>2, <1>3, PTL DEF Spec

-------------------------------------------------------------------------------
(* Documents *)

LEMMA RemovedDistinct ==
  ASSUME NEW S, NEW s \in Seq(S), Distinct(s), NEW i \in 1..Len(s)
  PROVE  /\ Distinct(RemoveAt(s, i))
         /\ \A k \in 1..Len(RemoveAt(s, i)) : RemoveAt(s, i)[k] # s[i]
<1> DEFINE r == RemoveAt(s, i)
           At(k) == IF k < i THEN k ELSE k + 1
<1>1. Len(s) \in Nat /\ i \in 1..Len(s)
  OBVIOUS
<1>2. /\ Len(r) = Len(s) - 1
      /\ \A k \in 1..(Len(s) - 1) : r[k] = IF k < i THEN s[k] ELSE s[k + 1]
  BY RemovedAt
<1> HIDE DEF r
<1>3. \A k \in 1..Len(r) : r[k] = s[At(k)] /\ At(k) \in 1..Len(s) /\ At(k) # i
  BY <1>1, <1>2
<1>4. \A j, k \in 1..Len(r) : At(j) = At(k) => j = k
  BY <1>1, <1>2
<1> HIDE DEF At
<1>5. QED
  BY <1>3, <1>4 DEF Distinct, r

LEMMA DistinctCounted ==
  ASSUME NEW S, NEW s \in Seq(S), Distinct(s)
  PROVE  Cardinality(Range(s)) = Len(s)
<1> DEFINE n == Len(s)
           f == [i \in 1..n |-> s[i]]
<1>1. n \in Nat /\ DOMAIN s = 1..n
  OBVIOUS
<1>2. Range(s) = {s[i] : i \in 1..n}
  BY <1>1 DEF Range
<1>3. f \in Bijection(1..n, Range(s))
  BY <1>2 DEF Distinct, IsInjective, Bijection, Injection, Surjection
<1>4. IsFiniteSet(1..n) /\ Cardinality(1..n) = n
  BY <1>1, FS_Interval
<1> HIDE DEF f, n
<1>5. QED
  BY <1>3, <1>4, FS_Bijection DEF n, ExistsBijection

LEMMA RecentKept ==
  ASSUME NEW s \in Seq(ProjectPaths), Distinct(s), NEW f \in ProjectPaths
  PROVE  /\ Recent(s, f) \in Seq(ProjectPaths) /\ Distinct(Recent(s, f))
         /\ Len(Recent(s, f)) <= MaxRecent
<1> DEFINE at == CHOOSE i \in DOMAIN s : s[i] = f
           rest == IF f \in Range(s) THEN RemoveAt(s, at) ELSE s
           l == <<f>> \o rest
           m == IF Len(l) > MaxRecent THEN MaxRecent ELSE Len(l)
<1>1. /\ rest \in Seq(ProjectPaths) /\ Distinct(rest)
      /\ \A k \in 1..Len(rest) : rest[k] # f
  <2>1. CASE f \in Range(s)
    <3>1. at \in 1..Len(s) /\ s[at] = f
      BY <2>1 DEF Range
    <3> HIDE DEF at
    <3>2. /\ RemoveAt(s, at) \in Seq(ProjectPaths) /\ Distinct(RemoveAt(s, at))
          /\ \A k \in 1..Len(RemoveAt(s, at)) : RemoveAt(s, at)[k] # s[at]
      BY <3>1, RemovedAt, RemovedDistinct
    <3>3. QED
      BY <2>1, <3>1, <3>2
  <2>2. CASE f \notin Range(s)
    BY <2>2 DEF Range
  <2>3. QED
    BY <2>1, <2>2
<1>2. Recent(s, f) = SubSeq(l, 1, m)
  BY DEF Recent
<1> HIDE DEF rest
<1>3. /\ l \in Seq(ProjectPaths) /\ Len(l) = 1 + Len(rest)
      /\ \A k \in 1..Len(l) : l[k] = IF k = 1 THEN f ELSE rest[k - 1]
  <2>1. <<f>> \in Seq(ProjectPaths) /\ Len(<<f>>) = 1 /\ <<f>>[1] = f
    OBVIOUS
  <2>2. /\ l \in Seq(ProjectPaths) /\ Len(l) = 1 + Len(rest)
        /\ \A k \in 1..(1 + Len(rest)) : l[k] = IF k <= 1 THEN <<f>>[k] ELSE rest[k - 1]
    BY <1>1, <2>1, ConcatProperties
  <2> HIDE DEF l
  <2>3. QED
    BY <1>1, <2>1, <2>2
<1> HIDE DEF l
<1>4. Distinct(l)
  <2>1. ASSUME NEW i \in 1..Len(l), NEW j \in 1..Len(l), l[i] = l[j], i # 1, j # 1 PROVE i = j
    <3>1. i - 1 \in 1..Len(rest) /\ j - 1 \in 1..Len(rest) /\ rest[i - 1] = rest[j - 1]
      BY <1>1, <1>3, <2>1
    <3>2. i - 1 = j - 1
      BY <1>1, <3>1 DEF Distinct
    <3>3. QED
      BY <3>2
  <2>2. ASSUME NEW j \in 1..Len(l), j # 1 PROVE l[j] # f
    BY <1>1, <1>3, <2>2
  <2>3. 1 \in 1..Len(l) => l[1] = f
    BY <1>3
  <2>4. QED
    BY <2>1, <2>2, <2>3 DEF Distinct
<1>5. m \in 0..Len(l) /\ m <= MaxRecent
  BY <1>3, RecentAssumption
<1> HIDE DEF m
<1>6. /\ SubSeq(l, 1, m) \in Seq(ProjectPaths) /\ Len(SubSeq(l, 1, m)) = m
      /\ \A k \in 1..m : SubSeq(l, 1, m)[k] = l[k]
  BY <1>3, <1>5, SubSeqProperties
<1>7. 1..m \subseteq 1..Len(l)
  BY <1>3, <1>5
<1>8. QED
  BY <1>2, <1>4, <1>5, <1>6, <1>7 DEF Distinct

LEMMA GivenKeeps ==
  ASSUME NEW p \in ProjectType, NEW ok \in BOOLEAN
  PROVE  /\ Given(p, ok) \in ProjectType /\ SameFiles(p, Given(p, ok))
         /\ SameLosses(p, Given(p, ok)) /\ RateRuns(Given(p, ok))
         /\ Given(p, ok).now = p.now /\ Given(p, ok).combo = p.combo
<1> DEFINE won == p.lost \ {"rate"}
           also == p.lost \cup {"rate"}
<1>1. /\ won \in SUBSET SettingNames /\ also \in SUBSET SettingNames /\ p.now.rate \in BitRates
      /\ won \ {"rate"} = p.lost \ {"rate"} /\ also \ {"rate"} = p.lost \ {"rate"}
      /\ "rate" \in also
  BY DEF ProjectType, SettingNames, Settings
<1>2. Given(p, ok) = IF ok THEN [p EXCEPT !.given = p.now.rate, !.lost = won]
                     ELSE [p EXCEPT !.lost = also]
  BY DEF Given
<1> HIDE DEF won, also
<1>3. CASE ok
  <2>1. /\ Given(p, ok) \in ProjectType /\ SameFiles(p, Given(p, ok))
        /\ Given(p, ok).lost = won /\ Given(p, ok).given = p.now.rate
        /\ Given(p, ok).now = p.now /\ Given(p, ok).combo = p.combo
    BY <1>1, <1>2, <1>3, ZenonT(40) DEF ProjectType, SameFiles
  <2>2. QED
    BY <1>1, <2>1 DEF SameLosses, RateRuns
<1>4. CASE ~ok
  BY <1>1, <1>2, <1>4 DEF ProjectType, SameFiles, SameLosses, RateRuns
<1>5. QED
  BY <1>3, <1>4

LEMMA IfaceShownKeeps ==
  ASSUME NEW p \in ProjectType, NEW i \in ProjectIfaces, NEW ok \in BOOLEAN,
         NEW q, q = IfaceShown(p, i, ok)
  PROVE  /\ q \in ProjectType /\ SameFiles(p, q) /\ SameLosses(p, q)
         /\ q.now.filter = p.now.filter /\ q.now.dbc = p.now.dbc /\ q.now.rate = p.now.rate
         /\ RateRuns(p) => RateRuns(q)
         /\ i = p.now.iface \/ (i # p.combo /\ i \notin Adapters) => q.now.iface = i
<1> DEFINE shown == [p EXCEPT !.combo = i]
           to == IF i \in Adapters /\ ok THEN "slcan0" ELSE i
           now == [p.now EXCEPT !.iface = to]
           used == [shown EXCEPT !.now = now]
<1>1. /\ shown \in ProjectType /\ SameFiles(p, shown) /\ shown.now = p.now
      /\ shown.lost = p.lost /\ shown.given = p.given
  BY DEF ProjectType, SameFiles
<1>2. to \in ProjectIfaces /\ (i \notin Adapters => to = i) /\ (to = "can0" => i = "can0")
  BY DEF ProjectIfaces, Adapters
<1>3. q = IF i = p.combo THEN p ELSE IF i = p.now.iface THEN shown
          ELSE IF i = "can0" THEN Given(used, ok) ELSE used
  BY <1>1 DEF IfaceShown, ProjectType
<1> HIDE DEF shown, to
<1>4. /\ now \in Settings /\ now.iface = to /\ now.filter = p.now.filter
      /\ now.dbc = p.now.dbc /\ now.rate = p.now.rate
  BY <1>2 DEF ProjectType, Settings
<1> HIDE DEF now
<1>5. /\ used \in ProjectType /\ SameFiles(shown, used) /\ used.now = now
      /\ used.lost = shown.lost /\ used.given = shown.given
  BY <1>1, <1>4 DEF ProjectType, SameFiles
<1> HIDE DEF used
<1>6. CASE i = p.combo
  BY <1>3, <1>6 DEF SameFiles, SameLosses
<1>7. CASE i # p.combo /\ i = p.now.iface
  BY <1>1, <1>3, <1>7 DEF SameLosses, RateRuns
<1>8. CASE i # p.combo /\ i # p.now.iface /\ i = "can0"
  <2>1. q = Given(used, ok)
    BY <1>3, <1>8
  <2>2. /\ q \in ProjectType /\ SameFiles(used, q) /\ SameLosses(used, q) /\ RateRuns(q)
        /\ q.now = now
    BY <1>5, <2>1, GivenKeeps
  <2>3. QED
    BY <1>1, <1>2, <1>4, <1>5, <1>8, <2>2 DEF SameFiles, SameLosses
<1>9. CASE i # p.combo /\ i # p.now.iface /\ i # "can0"
  <2>1. q = used
    BY <1>3, <1>9
  <2>2. QED
    BY <1>1, <1>2, <1>4, <1>5, <1>9, <2>1 DEF SameFiles, SameLosses, RateRuns
<1>10. QED
  BY <1>6, <1>7, <1>8, <1>9

LEMMA RateShownKeeps ==
  ASSUME NEW p \in ProjectType, NEW index \in ListedRates \cup {CustomRate}, NEW rate \in BitRates,
         NEW ok \in BOOLEAN, index # p.index, NEW q, q = RateShown(p, index, rate, ok)
  PROVE  /\ q \in ProjectType /\ SameFiles(p, q) /\ SameLosses(p, q) /\ RateRuns(q)
         /\ q.now.filter = p.now.filter /\ q.now.dbc = p.now.dbc /\ q.now.iface = p.now.iface
         /\ q.now.rate = rate /\ q.combo = p.combo
<1> DEFINE now == [p.now EXCEPT !.rate = rate]
           used == [p EXCEPT !.index = index, !.now = now]
<1>1. q = IF p.now.iface = "can0" THEN Given(used, ok) ELSE used
  BY DEF RateShown, ProjectType
<1>2. /\ now \in Settings /\ now.rate = rate /\ now.filter = p.now.filter
      /\ now.dbc = p.now.dbc /\ now.iface = p.now.iface
  BY DEF ProjectType, Settings
<1> HIDE DEF now
<1>3. /\ used \in ProjectType /\ SameFiles(p, used) /\ used.now = now /\ used.lost = p.lost
      /\ used.combo = p.combo
  BY <1>2 DEF ProjectType, SameFiles
<1> HIDE DEF used
<1>4. CASE p.now.iface = "can0"
  <2>1. /\ q \in ProjectType /\ SameFiles(used, q) /\ SameLosses(used, q) /\ RateRuns(q)
        /\ q.now = now /\ q.combo = used.combo
    BY <1>1, <1>3, <1>4, GivenKeeps
  <2>2. QED
    BY <1>2, <1>3, <2>1 DEF SameFiles, SameLosses
<1>5. CASE p.now.iface # "can0"
  BY <1>1, <1>2, <1>3, <1>5 DEF SameLosses, RateRuns
<1>6. QED
  BY <1>4, <1>5

LEMMA AppliedKeeps ==
  ASSUME NEW p \in ProjectType, NEW f \in Settings, NEW ok \in BOOLEAN, NEW up \in BOOLEAN,
         NEW q, q = Applied(p, f, ok, up)
  PROVE  /\ q \in ProjectType /\ SameFiles(p, q) /\ RateRuns(q)
         /\ q.now.filter = f.filter /\ q.now.rate = f.rate
         /\ "dbc" \in q.lost \/ q.now.dbc = f.dbc
         /\ "iface" \in q.lost \/ q.now.iface = f.iface
<1> DEFINE dbc == IF f.dbc \in p.dbcs THEN f.dbc ELSE p.now.dbc
           log == IF f.log = "none" THEN p.now.log ELSE f.log
           now == [f EXCEPT !.dbc = dbc, !.log = log, !.iface = p.now.iface]
           missed == Missed(p, f)
           named == [p EXCEPT !.now = now, !.lost = missed]
           rated == IF f.rate \in ListedRates THEN RateShown(named, f.rate, f.rate, ok) ELSE named
<1>1. q = IF f.iface \in p.offered THEN IfaceShown(rated, f.iface, up) ELSE rated
  <2>1. now = [f EXCEPT !.dbc = IF f.dbc \in p.dbcs THEN @ ELSE p.now.dbc,
                        !.log = IF f.log = "none" THEN p.now.log ELSE @,
                        !.iface = p.now.iface]
    BY DEF Settings
  <2>2. QED
    BY <2>1 DEF Applied
<1>2. /\ missed \in SUBSET SettingNames
      /\ "dbc" \in missed \/ f.dbc \in p.dbcs
      /\ \/ "iface" \in missed \/ f.iface = p.now.iface
         \/ f.iface \in p.offered /\ f.iface # p.combo /\ f.iface \notin Adapters
      /\ "rate" \in missed \/ f.rate = p.given \/ (f.rate \in ListedRates /\ f.rate # p.index)
  BY DEF Missed, SettingNames
<1>3. dbc \in {"d", "none"} /\ log \in {"none", "l"} /\ p.now.iface \in ProjectIfaces
  BY DEF ProjectType, Settings
<1>3a. f.dbc \in p.dbcs => dbc = f.dbc
  OBVIOUS
<1> HIDE DEF dbc, log, missed
<1>4. /\ now \in Settings /\ now.filter = f.filter /\ now.dbc = dbc /\ now.rate = f.rate
      /\ now.iface = p.now.iface
  BY <1>3 DEF Settings
<1> HIDE DEF now
<1>5. /\ named \in ProjectType /\ SameFiles(p, named) /\ named.now = now /\ named.lost = missed
      /\ named.given = p.given /\ named.index = p.index /\ named.combo = p.combo
  BY <1>2, <1>4 DEF ProjectType, SameFiles
<1> HIDE DEF named
<1>6. /\ rated \in ProjectType /\ SameFiles(named, rated) /\ SameLosses(named, rated)
      /\ rated.now.filter = f.filter /\ rated.now.dbc = dbc /\ rated.now.rate = f.rate
      /\ rated.now.iface = p.now.iface /\ rated.combo = p.combo /\ RateRuns(rated)
  <2>1. f.rate \in BitRates /\ ListedRates \subseteq BitRates
    BY DEF Settings, BitRates
  <2>2. CASE f.rate \in ListedRates /\ f.rate # p.index
    BY <1>4, <1>5, <2>1, <2>2, RateShownKeeps
  <2>3. CASE ~(f.rate \in ListedRates /\ f.rate # p.index)
    <3>1. rated = named
      BY <1>5, <2>3 DEF RateShown
    <3>2. RateRuns(named)
      BY <1>2, <1>4, <1>5, <2>3 DEF RateRuns
    <3>3. QED
      BY <1>4, <1>5, <3>1, <3>2 DEF SameFiles, SameLosses
  <2>4. QED
    BY <2>2, <2>3
<1> HIDE DEF rated
<1>7. f.iface \in ProjectIfaces
  BY DEF Settings
<1>8. CASE f.iface \in p.offered
  <2>1. q = IfaceShown(rated, f.iface, up)
    BY <1>1, <1>8
  <2>2. /\ q \in ProjectType /\ SameFiles(rated, q) /\ SameLosses(rated, q) /\ RateRuns(q)
        /\ q.now.filter = f.filter /\ q.now.dbc = dbc /\ q.now.rate = f.rate
        /\ f.iface = p.now.iface \/ (f.iface # p.combo /\ f.iface \notin Adapters)
             => q.now.iface = f.iface
    BY <1>6, <1>7, <2>1, IfaceShownKeeps
  <2>3. \A s \in {"dbc", "iface"} : s \in q.lost <=> s \in missed
    BY <1>5, <1>6, <2>2 DEF SameLosses
  <2>4. SameFiles(p, q)
    BY <1>5, <1>6, <2>2 DEF SameFiles
  <2>5. QED
    BY <1>2, <1>3a, <2>2, <2>3, <2>4
<1>9. CASE f.iface \notin p.offered
  <2>1. q = rated
    BY <1>1, <1>9
  <2>2. \A s \in {"dbc", "iface"} : s \in q.lost <=> s \in missed
    BY <1>5, <1>6, <2>1 DEF SameLosses
  <2>3. SameFiles(p, q)
    BY <1>5, <1>6, <2>1 DEF SameFiles
  <2>4. QED
    BY <1>2, <1>3a, <1>6, <1>9, <2>1, <2>2, <2>3
<1>10. QED
  BY <1>8, <1>9

\* Beside the same files, what was marked as edited may differ.
LEMMA StillGood ==
  ASSUME NEW p, NEW q \in ProjectType, ProjectGood(p), RateRuns(q), SameLosses(p, q),
         q.path = p.path, q.title = p.title, q.recent = p.recent, q.disk = p.disk,
         p.edited \subseteq q.edited,
         "filter" \in q.edited \/ q.now.filter = p.now.filter,
         "dbc" \in q.edited \/ q.now.dbc = p.now.dbc,
         "iface" \in q.edited \/ q.now.iface = p.now.iface,
         "rate" \in q.edited \/ q.now.rate = p.now.rate
  PROVE  ProjectGood(q)
<1>1. "filter" \in q.lost <=> "filter" \in p.lost
  BY DEF SameLosses
<1>2. "dbc" \in q.lost <=> "dbc" \in p.lost
  BY DEF SameLosses
<1>3. "iface" \in q.lost <=> "iface" \in p.lost
  BY DEF SameLosses
<1>4. UsesFile(q)
  BY <1>1, <1>2, <1>3 DEF ProjectGood, UsesFile, Agrees
<1>5. QED
  BY <1>4 DEF ProjectGood

LEMMA ProjectKept ==
  ASSUME ProjectInv, ProjectNext
  PROVE  ProjectInv'
<1>1. /\ project \in ProjectType /\ ProjectGood(project)
      /\ project.now \in Settings /\ project.edited \in SUBSET SettingNames
      /\ project.disk \in [ProjectPaths -> Settings \cup {NoProjectFile}]
      /\ project.recent \in Seq(ProjectPaths) /\ ListedOnce(project.recent)
  BY DEF ProjectInv, ProjectGood, ProjectType
<1> SUFFICES ProjectGood(project')
  BY DEF ProjectInv
<1>4. ASSUME NEW q \in ProjectType, RateRuns(q), SameFiles(project, q), SameLosses(project, q),
             NEW s \in SettingNames, NEW edited, edited \in {project.edited, project.edited \cup {s}},
             project' = [q EXCEPT !.edited = edited],
             "filter" \in edited \/ q.now.filter = project.now.filter,
             "dbc" \in edited \/ q.now.dbc = project.now.dbc,
             "iface" \in edited \/ q.now.iface = project.now.iface,
             "rate" \in edited \/ q.now.rate = project.now.rate
      PROVE  ProjectGood(project')
  <2>1. edited \in SUBSET SettingNames /\ project.edited \subseteq edited
    BY <1>1, <1>4
  <2>2. /\ project' \in ProjectType /\ project'.now = q.now /\ project'.edited = edited
        /\ project'.path = q.path /\ project'.title = q.title /\ project'.recent = q.recent
        /\ project'.disk = q.disk /\ project'.lost = q.lost /\ project'.given = q.given
    BY <1>4, <2>1 DEF ProjectType
  <2>3. RateRuns(project') /\ SameLosses(project, project')
    BY <1>4, <2>2 DEF RateRuns, SameLosses
  <2>4. QED
    BY <1>1, <1>4, <2>1, <2>2, <2>3, StillGood DEF SameFiles
<1>5. RateRuns(project)
  BY <1>1 DEF ProjectGood
<1>6. CASE EditSettings
  <2>1. ASSUME NEW s \in {"filter", "dbc"}, NEW v \in IF s = "filter" THEN {"all", "some"} ELSE {"d"},
               project' = [project EXCEPT !.now[s] = v, !.edited = @ \cup {s}]
        PROVE  ProjectGood(project')
    <3> DEFINE now == [project.now EXCEPT ![s] = v]
               q == [project EXCEPT !.now = now]
               edited == project.edited \cup {s}
    <3>1. /\ now \in Settings /\ now.iface = project.now.iface /\ now.rate = project.now.rate
          /\ s = "filter" \/ now.filter = project.now.filter
          /\ s = "dbc" \/ now.dbc = project.now.dbc
      BY <1>1, <2>1 DEF Settings
    <3>2. project' = [q EXCEPT !.edited = edited]
      BY <1>1, <2>1 DEF ProjectType
    <3> HIDE DEF now
    <3>3. /\ q \in ProjectType /\ q.now = now /\ SameFiles(project, q) /\ SameLosses(project, q)
          /\ RateRuns(q) /\ s \in edited /\ s \in SettingNames
      BY <1>1, <1>5, <3>1 DEF ProjectType, SameFiles, SameLosses, RateRuns, SettingNames
    <3> HIDE DEF q
    <3>4. QED
      BY <1>4, <3>1, <3>2, <3>3
  <2>2. project.dbcs \subseteq {"d"}
    BY <1>1 DEF ProjectType
  <2>3. QED
    BY <1>6, <2>1, <2>2 DEF EditSettings
<1>6a. CASE PickIface
  <2>1. PICK i \in ProjectIfaces, ok \in BOOLEAN :
          project' = [IfaceShown(project, i, ok) EXCEPT !.edited = @ \cup {"iface"}]
    BY <1>1, <1>6a DEF PickIface, ProjectType
  <2> DEFINE q == IfaceShown(project, i, ok)
             edited == project.edited \cup {"iface"}
  <2>2. /\ q \in ProjectType /\ SameFiles(project, q) /\ SameLosses(project, q) /\ RateRuns(q)
        /\ q.now.filter = project.now.filter /\ q.now.dbc = project.now.dbc
        /\ q.now.rate = project.now.rate
    BY <1>1, <1>5, IfaceShownKeeps
  <2>3. project' = [q EXCEPT !.edited = edited]
    BY <2>1, <2>2 DEF SameFiles
  <2>4. "iface" \in edited /\ "iface" \in SettingNames
    BY DEF SettingNames
  <2> HIDE DEF q
  <2>5. QED
    BY <1>4, <2>2, <2>3, <2>4
<1>7. CASE PickRate
  <2>1. PICK rate \in BitRates, ok \in BOOLEAN, index \in ListedRates \cup {CustomRate} :
          /\ index # project.index
          /\ project' = [RateShown(project, index, rate, ok) EXCEPT !.edited = @ \cup {"rate"}]
    BY <1>7 DEF PickRate
  <2> DEFINE q == RateShown(project, index, rate, ok)
             edited == project.edited \cup {"rate"}
  <2>2. /\ q \in ProjectType /\ SameFiles(project, q) /\ SameLosses(project, q) /\ RateRuns(q)
        /\ q.now.filter = project.now.filter /\ q.now.dbc = project.now.dbc
        /\ q.now.iface = project.now.iface
    BY <1>1, <2>1, RateShownKeeps
  <2>3. project' = [q EXCEPT !.edited = edited]
    BY <2>1, <2>2 DEF SameFiles
  <2>4. "rate" \in edited /\ "rate" \in SettingNames
    BY DEF SettingNames
  <2> HIDE DEF q
  <2>5. QED
    BY <1>4, <2>2, <2>3, <2>4
<1>8. CASE LeaveRate
  <2> DEFINE index == IF project.now.rate \in ListedRates THEN project.now.rate ELSE NothingShown
  <2>1. index \in ListedRates \cup {CustomRate, NothingShown}
    OBVIOUS
  <2>2. project' = [project EXCEPT !.index = index]
    BY <1>8 DEF LeaveRate
  <2> HIDE DEF index
  <2>3. /\ project' \in ProjectType /\ project'.now = project.now
        /\ project'.lost = project.lost /\ project'.given = project.given
        /\ SameFiles(project, project')
    BY <1>1, <2>1, <2>2 DEF ProjectType, SameFiles
  <2>4. RateRuns(project') /\ SameLosses(project, project')
    BY <1>5, <2>3 DEF RateRuns, SameLosses
  <2>5. QED
    BY <1>1, <2>3, <2>4, StillGood DEF SameFiles
<1>9. CASE IfacesChange
  <2> DEFINE After(q) == [q EXCEPT !.edited = IF q.now.iface = project.now.iface THEN @
                                              ELSE @ \cup {"iface"}]
  <2>1. PICK o \in Offers, watched \in BOOLEAN, ok \in BOOLEAN, up \in BOOLEAN :
          \E i \in IF project.combo \in o THEN {project.combo} ELSE o :
          \E q \in AfterChange(o, i, watched, ok, up) : project' = After(q)
    BY <1>9 DEF IfacesChange
  <2>2. o \subseteq ProjectIfaces /\ ok \in BOOLEAN /\ up \in BOOLEAN
    BY <2>1, OffersAssumption
  <2>2a. PICK i \in ProjectIfaces : \E q \in AfterChange(o, i, watched, ok, up) : project' = After(q)
    BY <2>1, <2>2
  <2> DEFINE from == [project EXCEPT !.offered = o]
             p == IfaceShown(from, i, ok)
  <2>3. /\ from \in ProjectType /\ SameFiles(project, from) /\ SameLosses(project, from)
        /\ RateRuns(from) /\ from.now = project.now
    BY <1>1, <1>5, <2>2 DEF ProjectType, SameFiles, SameLosses, RateRuns
  <2>4. PICK n \in ProjectIfaces : \E q \in {p, IfaceShown(p, n, up)} : project' = After(q)
    BY <2>2, <2>2a DEF AfterChange
  <2>4a. PICK q \in {p, IfaceShown(p, n, up)} : project' = After(q)
    BY <2>4
  <2> HIDE DEF from
  <2>5. /\ p \in ProjectType /\ SameFiles(from, p) /\ SameLosses(from, p) /\ RateRuns(p)
        /\ p.now.filter = project.now.filter /\ p.now.dbc = project.now.dbc
        /\ p.now.rate = project.now.rate
    BY <2>2, <2>2a, <2>3, IfaceShownKeeps, SMTT(30)
  <2> HIDE DEF p
  <2>6. /\ q \in ProjectType /\ SameFiles(p, q) /\ SameLosses(p, q) /\ RateRuns(q)
        /\ q.now.filter = project.now.filter /\ q.now.dbc = project.now.dbc
        /\ q.now.rate = project.now.rate
    <3>1. CASE q = p
      BY <2>5, <3>1 DEF SameFiles, SameLosses
    <3>2. CASE q = IfaceShown(p, n, up)
      BY <2>2, <2>4, <2>5, <3>2, IfaceShownKeeps, SMTT(30)
    <3>3. QED
      BY <2>4a, <3>1, <3>2
  <2>7. SameFiles(project, q) /\ SameLosses(project, q)
    BY <2>3, <2>5, <2>6 DEF SameFiles, SameLosses
  <2> DEFINE edited == IF q.now.iface = project.now.iface THEN project.edited
                       ELSE project.edited \cup {"iface"}
  <2>8. project' = [q EXCEPT !.edited = edited]
    BY <2>4a, <2>6, <2>7 DEF SameFiles, ProjectType
  <2>9. /\ edited \in {project.edited, project.edited \cup {"iface"}} /\ "iface" \in SettingNames
        /\ "iface" \in edited \/ q.now.iface = project.now.iface
    BY DEF SettingNames
  <2> HIDE DEF edited
  <2>10. QED
    BY <1>4, <2>6, <2>7, <2>8, <2>9
<1>10. CASE OpenProjectFile
  <2>1. PICK f \in ProjectPaths, ok \in BOOLEAN, up \in BOOLEAN :
          /\ project.disk[f] # NoProjectFile
          /\ project' = [Applied(project, project.disk[f], ok, up)
                           EXCEPT !.path = f, !.title = f, !.recent = Recent(@, f), !.edited = {}]
    BY <1>10 DEF OpenProjectFile
  <2> DEFINE file == project.disk[f]
             q == Applied(project, file, ok, up)
             recent == Recent(project.recent, f)
  <2>2. file \in Settings
    BY <1>1, <2>1
  <2>3. /\ q \in ProjectType /\ SameFiles(project, q) /\ RateRuns(q)
        /\ q.now.filter = file.filter /\ q.now.rate = file.rate
        /\ "dbc" \in q.lost \/ q.now.dbc = file.dbc
        /\ "iface" \in q.lost \/ q.now.iface = file.iface
    BY <1>1, <2>2, AppliedKeeps
  <2>4. recent \in Seq(ProjectPaths) /\ ListedOnce(recent)
    BY <1>1, RecentKept DEF ListedOnce
  <2>5. project' = [q EXCEPT !.path = f, !.title = f, !.recent = recent, !.edited = {}]
    BY <2>1, <2>3 DEF SameFiles, ProjectType
  <2>6. q.disk[f] = file
    BY <2>3 DEF SameFiles
  <2> HIDE DEF q, recent, file
  <2>7. /\ project' \in ProjectType /\ project'.path = f /\ project'.title = f
        /\ project'.recent = recent /\ project'.edited = {} /\ project'.now = q.now
        /\ project'.lost = q.lost /\ project'.given = q.given /\ project'.disk = q.disk
    BY <2>3, <2>4, <2>5 DEF ProjectType
  <2>8. UsesFile(project') /\ RateRuns(project')
    BY <2>3, <2>6, <2>7 DEF UsesFile, Agrees, RateRuns
  <2>9. QED
    BY <2>4, <2>7, <2>8 DEF ProjectGood
<1>11. CASE NewProjectFile
  <2> DEFINE now == [project.now EXCEPT !.filter = "all"]
  <2>1. now \in Settings /\ now.iface = project.now.iface /\ now.rate = project.now.rate
    BY <1>1 DEF Settings
  <2>2. project' = [project EXCEPT !.path = NoProject, !.title = NoProject, !.now = now,
                                   !.edited = {}]
    BY <1>1, <1>11 DEF NewProjectFile, ProjectType
  <2> HIDE DEF now
  <2>3. /\ project' \in ProjectType /\ project'.path = NoProject /\ project'.title = NoProject
        /\ project'.recent = project.recent /\ project'.now = now
        /\ project'.lost = project.lost /\ project'.given = project.given
    BY <1>1, <2>1, <2>2 DEF ProjectType
  <2>4. UsesFile(project') /\ RateRuns(project')
    BY <1>5, <2>1, <2>3 DEF UsesFile, RateRuns
  <2>5. QED
    BY <1>1, <2>3, <2>4 DEF ProjectGood
<1>12. /\ Collected \in Settings /\ Collected.filter = project.now.filter
       /\ Collected.dbc = project.now.dbc /\ Collected.iface = project.now.iface
       /\ Collected.rate = project.now.rate
  BY <1>1 DEF Collected, Settings
<1>13. ASSUME NEW f \in ProjectPaths, NEW written \in BOOLEAN
       PROVE  LET q == WrittenTo(f, written) IN
              /\ q \in ProjectType /\ q.recent = project.recent /\ RateRuns(q)
              /\ q.path = project.path /\ q.title = project.title
              /\ q.disk[f] # NoProjectFile => Agrees(q, q.disk[f])
  <2> DEFINE file == IF written THEN Collected ELSE NoProjectFile
             held == [project.disk EXCEPT ![f] = file]
             lost == project.lost \cap {"rate"}
             q == WrittenTo(f, written)
  <2> HIDE DEF q
  <2>1. held \in [ProjectPaths -> Settings \cup {NoProjectFile}] /\ held[f] = file
    BY <1>1, <1>12
  <2>2. file # NoProjectFile => file = Collected
    OBVIOUS
  <2>3. /\ lost \in SUBSET SettingNames
        /\ "rate" \in lost <=> "rate" \in project.lost
    BY <1>1 DEF ProjectType, SettingNames
  <2>4. q = [project EXCEPT !.disk = held, !.edited = {}, !.lost = lost]
    BY <1>1 DEF WrittenTo, ProjectType, q
  <2> HIDE DEF file, held, lost
  <2>5. /\ q \in ProjectType /\ q.recent = project.recent /\ q.path = project.path
        /\ q.title = project.title /\ q.now = project.now /\ q.lost = lost
        /\ q.given = project.given /\ q.disk[f] = file
    BY <1>1, <2>1, <2>3, <2>4 DEF ProjectType
  <2>6. RateRuns(q)
    BY <1>5, <2>3, <2>5 DEF RateRuns
  <2>7. file # NoProjectFile => Agrees(q, file)
    BY <1>12, <2>2, <2>5 DEF Agrees
  <2>8. QED
    BY <2>5, <2>6, <2>7 DEF q
<1>14. CASE SaveProject
  <2>1. PICK written \in BOOLEAN : project' = WrittenTo(project.path, written)
    BY <1>14 DEF SaveProject
  <2>2. project.path \in ProjectPaths
    BY <1>1, <1>14 DEF SaveProject, ProjectType
  <2>3. QED
    BY <1>1, <1>13, <2>1, <2>2 DEF ProjectGood, UsesFile
<1>15. CASE SaveProjectAs
  <2> DEFINE unsaved == [project EXCEPT !.edited = DOMAIN Blank]
             At(p, f) == [p EXCEPT !.path = f, !.title = f, !.recent = Recent(@, f)]
  <2>1. PICK f \in ProjectPaths, written \in BOOLEAN :
          \E p \in {WrittenTo(f, written), unsaved} : project' = At(p, f)
    BY <1>15 DEF SaveProjectAs
  <2>1a. PICK p \in {WrittenTo(f, written), unsaved} : project' = At(p, f)
    BY <2>1
  <2> DEFINE recent == Recent(project.recent, f)
  <2>2. recent \in Seq(ProjectPaths) /\ ListedOnce(recent)
    BY <1>1, RecentKept DEF ListedOnce
  <2>3. DOMAIN Blank = SettingNames
    BY DEF Blank, SettingNames
  <2>4. /\ p \in ProjectType /\ p.recent = project.recent /\ RateRuns(p)
        /\ p.disk[f] # NoProjectFile => Agrees(p, p.disk[f])
    <3>1. CASE p = WrittenTo(f, written)
      BY <1>13, <3>1
    <3>2. CASE p = unsaved
      BY <1>1, <1>5, <2>3, <3>2 DEF ProjectType, RateRuns, Agrees, SettingNames
    <3>3. QED
      BY <2>1a, <3>1, <3>2
  <2>5. project' = [p EXCEPT !.path = f, !.title = f, !.recent = recent]
    BY <2>1a, <2>4 DEF ProjectType
  <2> HIDE DEF recent
  <2>6. /\ project' \in ProjectType /\ project'.path = f /\ project'.title = f
        /\ project'.recent = recent /\ project'.now = p.now /\ project'.edited = p.edited
        /\ project'.lost = p.lost /\ project'.given = p.given /\ project'.disk = p.disk
    BY <2>2, <2>4, <2>5 DEF ProjectType
  <2>7. UsesFile(project') /\ RateRuns(project')
    BY <2>4, <2>6 DEF UsesFile, Agrees, RateRuns
  <2>8. QED
    BY <2>2, <2>6, <2>7 DEF ProjectGood
<1>16. CASE RemoveRecent
  <2>1. PICK i \in 1..Len(project.recent) :
          project' = [project EXCEPT !.recent = RemoveAt(@, i)]
    <3>1. DOMAIN project.recent = 1..Len(project.recent)
      BY <1>1
    <3>2. QED
      BY <1>16, <3>1 DEF RemoveRecent
  <2> DEFINE recent == RemoveAt(project.recent, i)
  <2>2. recent \in Seq(ProjectPaths) /\ Distinct(recent) /\ Len(recent) = Len(project.recent) - 1
    BY <1>1, RemovedAt, RemovedDistinct DEF ListedOnce
  <2>3. project' = [project EXCEPT !.recent = recent]
    BY <1>1, <2>1 DEF ProjectType
  <2> HIDE DEF recent
  <2>4. /\ project' \in ProjectType /\ project'.path = project.path /\ project'.title = project.title
        /\ project'.now = project.now /\ project'.edited = project.edited
        /\ project'.lost = project.lost /\ project'.given = project.given
        /\ project'.disk = project.disk /\ project'.recent = recent
    BY <1>1, <2>2, <2>3 DEF ProjectType
  <2>5. UsesFile(project') /\ RateRuns(project')
    BY <1>1, <2>4 DEF ProjectGood, UsesFile, Agrees, RateRuns
  <2>6. Len(recent) <= MaxRecent
    BY <1>1, <2>2, RecentAssumption DEF ListedOnce
  <2>7. QED
    BY <1>1, <2>2, <2>4, <2>5, <2>6 DEF ProjectGood, ListedOnce
<1>17. CASE DbcMoves
  <2> DEFINE dbcs == {"d"} \ project.dbcs
  <2>1. project' = [project EXCEPT !.dbcs = dbcs]
    BY <1>1, <1>17 DEF DbcMoves, ProjectType
  <2>2. dbcs \in SUBSET {"d"}
    OBVIOUS
  <2> HIDE DEF dbcs
  <2>3. /\ project' \in ProjectType /\ project'.path = project.path /\ project'.title = project.title
        /\ project'.now = project.now /\ project'.edited = project.edited
        /\ project'.lost = project.lost /\ project'.given = project.given
        /\ project'.disk = project.disk /\ project'.recent = project.recent
    BY <1>1, <2>1, <2>2 DEF ProjectType
  <2>4. QED
    BY <1>1, <2>3 DEF ProjectGood, UsesFile, Agrees, RateRuns
<1>18. QED
  BY <1>6, <1>6a, <1>7, <1>8, <1>9, <1>10, <1>11, <1>14, <1>15, <1>16, <1>17 DEF ProjectNext

LEMMA ProjectReached == ProjectInv => ProjectSound
<1> SUFFICES ASSUME ProjectInv PROVE ProjectSound
  OBVIOUS
<1>1. project.recent \in Seq(ProjectPaths)
  BY DEF ProjectInv, ProjectGood, ProjectType
<1>2. Cardinality(Range(project.recent)) = Len(project.recent) /\ Len(project.recent) <= MaxRecent
  BY <1>1, DistinctCounted DEF ProjectInv, ProjectGood, ListedOnce
<1>3. ASSUME project.path # NoProject, project.disk[project.path] # NoProjectFile
      PROVE  /\ \A s \in Compared \ (project.edited \cup project.lost \cup {"rate"}) :
                  project.disk[project.path][s] = project.now[s]
             /\ "rate" \in project.edited \/ project.disk[project.path].rate = project.now.rate
  BY <1>3 DEF ProjectInv, ProjectGood, UsesFile, Agrees, Compared
<1>4. QED
  BY <1>2, <1>3 DEF ProjectSound, ProjectInv, ProjectGood, RateRuns

LEMMA Refreshing ==
  ASSUME NEW b, IsBuilder(b)
  PROVE  /\ IsBuilder(TableRefreshed(b)) /\ SameDocument(b, TableRefreshed(b))
         /\ SameForm(b, TableRefreshed(b)) /\ SameEdit(b, TableRefreshed(b))
         /\ TableRefreshed(b).table = TableOf(b) /\ TableRefreshed(b).pending = b.pending
<1> DEFINE t == TableOf(b)
<1>1. TableRefreshed(b) = [b EXCEPT !.table = t]
  BY DEF TableRefreshed
<1> HIDE DEF t
<1>2. QED
  BY <1>1 DEF IsBuilder, SameDocument, SameForm, SameEdit, t

LEMMA Previewing ==
  ASSUME NEW b, IsBuilder(b)
  PROVE  /\ IsBuilder(Previewed(b)) /\ SameDocument(b, Previewed(b))
         /\ SameTable(b, Previewed(b)) /\ SameEdit(b, Previewed(b))
         /\ Previewed(b).form = b.form /\ Previewed(b).chosen = b.chosen
         /\ Previewed(b).preview = PreviewOf(b)
<1> DEFINE p == PreviewOf(b)
<1>1. Previewed(b) = [[b EXCEPT !.preview = p] EXCEPT !.stale = FALSE]
  BY DEF Previewed
<1> HIDE DEF p
<1> DEFINE c == [b EXCEPT !.preview = p]
<1>2. IsBuilder(c) /\ SameDocument(b, c) /\ SameTable(b, c) /\ SameEdit(b, c)
      /\ c.form = b.form /\ c.chosen = b.chosen /\ c.preview = p
  BY DEF IsBuilder, SameDocument, SameTable, SameEdit
<1> HIDE DEF c
<1> DEFINE no == FALSE
           d == [c EXCEPT !.stale = no]
<1> HIDE DEF no
<1>3. IsBuilder(d) /\ SameDocument(c, d) /\ SameTable(c, d) /\ SameEdit(c, d)
      /\ d.form = c.form /\ d.chosen = c.chosen /\ d.preview = c.preview
  BY <1>2 DEF IsBuilder, SameDocument, SameTable, SameEdit
<1>4. Previewed(b) = d
  BY <1>1 DEF c, no
<1> HIDE DEF d
<1>5. QED
  BY <1>2, <1>3, <1>4 DEF SameDocument, SameTable, SameEdit, p

LEMMA Publishing ==
  ASSUME NEW b, IsBuilder(b)
  PROVE  /\ IsBuilder(Published(b)) /\ SameTable(b, Published(b)) /\ SameForm(b, Published(b))
         /\ SameEdit(b, Published(b)) 
         /\ Published(b).others.told = b.db /\ Published(b).others.since = "change"
         /\ Published(b).list = b.list /\ Published(b).sel = b.sel /\ Published(b).dlc = b.dlc
         /\ Published(b).db = b.db /\ Published(b).field = b.field
BY DEF Published, IsBuilder, SameTable, SameForm, SameEdit

LEMMA SigsAre ==
  ASSUME NEW b, b.db \in Db, b.sel \in {0} \cup BuildIds
  PROVE  SigsOf(b) \in Seq(Sig) /\ DOMAIN SigsOf(b) = 1..Len(SigsOf(b))
<1>1. b.sel # 0 => b.db[b.sel] \in Message
  BY DEF Db
<1>2. << >> \in Seq(Sig)
  OBVIOUS
<1>3. SigsOf(b) \in Seq(Sig)
  BY <1>1, <1>2 DEF SigsOf, Message
<1>4. QED
  BY <1>3

\* Where the signals of the message and the length of its frame are the same, so is the table.
LEMMA SameTables ==
  ASSUME NEW b, NEW c, SigsOf(c) = SigsOf(b), c.sel = b.sel,
         b.sel # 0 => c.dlc[c.sel] = b.dlc[b.sel]
  PROVE  TableOf(c) = TableOf(b)
<1>1. CASE b.sel = 0
  BY <1>1 DEF SigsOf, TableOf
<1>2. CASE b.sel # 0
  BY <1>2 DEF TableOf
<1>3. QED
  BY <1>1, <1>2

LEMMA SamePreviews ==
  ASSUME NEW b, NEW c, c.sel = b.sel, b.sel # 0 => c.dlc[c.sel] = b.dlc[b.sel],
         c.form.start = b.form.start, c.form.len = b.form.len, c.form.order = b.form.order
  PROVE  PreviewOf(c) = PreviewOf(b)
<1>1. LastByte(c.form) = LastByte(b.form)
  BY DEF LastByte
<1>2. InRange(c.form) <=> InRange(b.form)
  BY DEF InRange
<1>3. CASE b.sel = 0
  BY <1>3 DEF PreviewOf
<1>4. CASE b.sel # 0
  BY <1>1, <1>2, <1>4 DEF PreviewOf, Extracts
<1>5. QED
  BY <1>3, <1>4

LEMMA TableNames ==
  ASSUME NEW b
  PROVE  [i \in DOMAIN TableOf(b) |-> TableOf(b)[i].name]
           = [i \in DOMAIN SigsOf(b) |-> SigsOf(b)[i].name]
BY DEF TableOf

\* A change of the form, of the edit or of the preview.
LEMMA FormKept ==
  ASSUME NEW b, BuilderGood(b), NEW c, IsBuilder(c), SameDocument(b, c), SameTable(b, c),
         c.form \in Sig, c.editing \in Nat, EditsOpened(c), BitsMarked(c), PreviewFollows(c)
  PROVE  BuilderGood(c)
<1>1. SigsOf(c) = SigsOf(b)
  BY DEF SigsOf, SameDocument
<1>2. TableOf(c) = TableOf(b)
  BY <1>1, SameTables DEF SameDocument
<1>3. TableFollows(c) /\ RowsNamed(c)
  BY <1>1, <1>2 DEF BuilderGood, TableFollows, RowsNamed, SameTable
<1>4. BuilderTypes(c)
  BY DEF BuilderGood, BuilderTypes, SameDocument
<1>5. NamedOnce(c.db) /\ OthersHave(c)
  BY DEF BuilderGood, OthersHave, SameDocument
<1>6. QED
  BY <1>3, <1>4, <1>5 DEF BuilderGood

\* A change of the document: the table is made anew and the other pages get a copy.
LEMMA ChangedKept ==
  ASSUME NEW b, BuilderTypes(b), EditsOpened(b), NamedOnce(b.db), BitsMarked(b), PreviewFollows(b)
  PROVE  BuilderGood(Changed(b))
<1> DEFINE c == TableRefreshed(b)
           d == Published(c)
<1>1. /\ IsBuilder(c) /\ SameDocument(b, c) /\ SameForm(b, c) /\ SameEdit(b, c)
      /\ c.table = TableOf(b)
  BY Refreshing DEF BuilderTypes
<1> HIDE DEF c
<1>2. /\ IsBuilder(d) /\ SameTable(c, d) /\ SameForm(c, d) /\ SameEdit(c, d)
      /\ d.others.told = c.db /\ d.others.since = "change"
      /\ d.list = c.list /\ d.sel = c.sel /\ d.dlc = c.dlc /\ d.db = c.db /\ d.field = c.field
  BY <1>1, Publishing
<1>3. Changed(b) = d
  BY DEF Changed, c
<1> HIDE DEF d
<1>4. /\ d.list = b.list /\ d.sel = b.sel /\ d.dlc = b.dlc /\ d.db = b.db
      /\ d.others.told = b.db /\ d.others.since = "change"
      /\ d.field = b.field /\ d.form = b.form /\ d.chosen = b.chosen /\ d.editing = b.editing
      /\ d.table = TableOf(b) /\ d.preview = b.preview /\ d.stale = b.stale
      /\ d.opened = b.opened /\ d.moved = b.moved
  BY <1>1, <1>2 DEF SameDocument, SameTable, SameForm, SameEdit
<1>5. SigsOf(d) = SigsOf(b)
  BY <1>4 DEF SigsOf
<1>6. TableOf(d) = TableOf(b) /\ PreviewOf(d) = PreviewOf(b)
  BY <1>4, <1>5, SameTables, SamePreviews
<1>7. TableFollows(d) /\ RowsNamed(d)
  BY <1>4, <1>5, <1>6, TableNames DEF TableFollows, RowsNamed
<1>8. BuilderTypes(d)
  BY <1>2, <1>4 DEF BuilderTypes
<1>9. EditsOpened(d)
  BY <1>4 DEF EditsOpened
<1>10. NamedOnce(d.db) /\ OthersHave(d)
  BY <1>4 DEF OthersHave
<1>11. BitsMarked(d) /\ PreviewFollows(d)
  BY <1>4, <1>6 DEF BitsMarked, PreviewFollows
<1>12. QED
  BY <1>3, <1>7, <1>8, <1>9, <1>10, <1>11 DEF BuilderGood

LEMMA FormPreviewed ==
  ASSUME NEW b, BuilderGood(b), NEW c, IsBuilder(c), SameDocument(b, c), SameTable(b, c),
         c.form \in Sig, c.editing \in Nat, EditsOpened(c), BitsMarked(c)
  PROVE  BuilderGood(Previewed(c))
<1> DEFINE d == Previewed(c)
<1>1. /\ IsBuilder(d) /\ SameDocument(c, d) /\ SameTable(c, d) /\ SameEdit(c, d)
      /\ d.form = c.form /\ d.chosen = c.chosen /\ d.preview = PreviewOf(c)
  BY Previewing
<1> HIDE DEF d
<1>2. PreviewOf(d) = PreviewOf(c)
  BY <1>1, SamePreviews DEF SameDocument
<1>3. SameDocument(b, d) /\ SameTable(b, d)
  BY <1>1 DEF SameDocument, SameTable
<1>4. EditsOpened(d)
  BY <1>1 DEF EditsOpened, SameDocument, SameEdit
<1>5. BitsMarked(d) /\ PreviewFollows(d) /\ d.form \in Sig /\ d.editing \in Nat
  BY <1>1, <1>2 DEF BitsMarked, PreviewFollows, SameEdit
<1>6. BuilderGood(d)
  BY <1>1, <1>3, <1>4, <1>5, FormKept
<1>7. QED
  BY <1>6 DEF d

LEMMA FormSet ==
  ASSUME NEW b, IsBuilder(b), NEW f
  PROVE  LET c == [b EXCEPT !.form = f] IN
         /\ IsBuilder(c) /\ SameDocument(b, c) /\ SameTable(b, c) /\ SameEdit(b, c)
         /\ c.form = f /\ c.chosen = b.chosen /\ c.preview = b.preview /\ c.stale = b.stale
BY DEF IsBuilder, SameDocument, SameTable, SameEdit

LEMMA ChosenSet ==
  ASSUME NEW b, IsBuilder(b), NEW bits
  PROVE  LET c == [b EXCEPT !.chosen = bits] IN
         /\ IsBuilder(c) /\ SameDocument(b, c) /\ SameTable(b, c) /\ SameEdit(b, c)
         /\ c.form = b.form /\ c.chosen = bits /\ c.preview = b.preview /\ c.stale = b.stale
BY DEF IsBuilder, SameDocument, SameTable, SameEdit

\* The form and the bits that are marked for it.
LEMMA FormMarked ==
  ASSUME BuilderInv, NEW f \in Sig, NEW bits,
         bits = {} \/ ~InRange(f) \/ bits = BitsOf(f)
  PROVE  BuilderGood(Previewed([[builder EXCEPT !.form = f] EXCEPT !.chosen = bits]))
<1> DEFINE c == [builder EXCEPT !.form = f]
           d == [c EXCEPT !.chosen = bits]
<1>1. BuilderTypes(builder)
  BY DEF BuilderInv, BuilderGood
<1>2. /\ IsBuilder(c) /\ SameDocument(builder, c) /\ SameTable(builder, c) /\ SameEdit(builder, c)
      /\ c.form = f
  BY <1>1, FormSet DEF BuilderTypes
<1> HIDE DEF c
<1>3. /\ IsBuilder(d) /\ SameDocument(c, d) /\ SameTable(c, d) /\ SameEdit(c, d)
      /\ d.form = c.form /\ d.chosen = bits
  BY <1>2, ChosenSet
<1> HIDE DEF d
<1>4. SameDocument(builder, d) /\ SameTable(builder, d) /\ SameEdit(builder, d) /\ d.form = f
  BY <1>2, <1>3 DEF SameDocument, SameTable, SameEdit
<1>5. EditsOpened(d) /\ d.editing \in Nat
  BY <1>1, <1>4 DEF BuilderInv, BuilderGood, EditsOpened, SameDocument, SameEdit, BuilderTypes
<1>6. BitsMarked(d)
  BY <1>3, <1>4 DEF BitsMarked
<1>7. BuilderGood(Previewed(d))
  BY <1>3, <1>4, <1>5, <1>6, FormPreviewed DEF BuilderInv
<1>8. QED
  BY <1>7 DEF c, d

LEMMA BitsKept ==
  ASSUME BuilderInv, DragBits \/ SpinBits
  PROVE  BuilderInv'
<1>1. builder.form \in Sig
  BY DEF BuilderInv, BuilderGood, BuilderTypes
<1>2. CASE DragBits
  <2>1. PICK s \in Starts, n \in Lengths :
          LET form == [builder.form EXCEPT !.start = s, !.len = n] IN
          /\ InRange(form)
          /\ builder' = Previewed([builder EXCEPT !.form = form, !.chosen = BitsOf(form)])
    BY <1>2 DEF DragBits
  <2> DEFINE form == [builder.form EXCEPT !.start = s, !.len = n]
             bits == BitsOf(form)
  <2>2. form \in Sig
    BY <1>1 DEF Sig
  <2>3. builder' = Previewed([[builder EXCEPT !.form = form] EXCEPT !.chosen = bits])
    BY <2>1
  <2> HIDE DEF form
  <2>4. BuilderGood(builder')
    BY <2>2, <2>3, FormMarked
  <2>5. QED
    BY <2>4 DEF BuilderInv
<1>3. CASE SpinBits
  <2>1. PICK f \in {[builder.form EXCEPT !.start = s] : s \in Starts}
                   \cup {[builder.form EXCEPT !.len = n] : n \in Lengths} :
          builder' = Previewed([builder EXCEPT !.form = f,
                                  !.chosen = IF InRange(f) THEN BitsOf(f) ELSE @])
    BY <1>3 DEF SpinBits
  <2>2. f \in Sig
    BY <1>1 DEF Sig
  <2> DEFINE bits == IF InRange(f) THEN BitsOf(f) ELSE builder.chosen
  <2>3. bits = {} \/ ~InRange(f) \/ bits = BitsOf(f)
    OBVIOUS
  <2>4. builder' = Previewed([[builder EXCEPT !.form = f] EXCEPT !.chosen = bits])
    BY <2>1 DEF BuilderInv, BuilderGood, BuilderTypes, IsBuilder
  <2> HIDE DEF bits
  <2>5. BuilderGood(builder')
    BY <2>2, <2>3, <2>4, FormMarked
  <2>6. QED
    BY <2>5 DEF BuilderInv
<1>4. QED
  BY <1>2, <1>3

\* The other fields of the form are no bits.
LEMMA FieldsKept ==
  ASSUME BuilderInv, SetOrder \/ SetName
  PROVE  BuilderInv'
<1>1. BuilderTypes(builder) /\ builder.form \in Sig
  BY DEF BuilderInv, BuilderGood, BuilderTypes
<1>2. ASSUME NEW f \in Sig, f.start = builder.form.start, f.len = builder.form.len
      PROVE  LET c == [builder EXCEPT !.form = f] IN
             /\ IsBuilder(c) /\ SameDocument(builder, c) /\ SameTable(builder, c)
             /\ SameEdit(builder, c) /\ c.form = f /\ c.preview = builder.preview
             /\ c.stale = builder.stale /\ c.editing \in Nat /\ EditsOpened(c) /\ BitsMarked(c)
  <2> DEFINE c == [builder EXCEPT !.form = f]
  <2>1. /\ IsBuilder(c) /\ SameDocument(builder, c) /\ SameTable(builder, c)
        /\ SameEdit(builder, c) /\ c.form = f /\ c.chosen = builder.chosen
        /\ c.preview = builder.preview /\ c.stale = builder.stale
    BY <1>1, FormSet DEF BuilderTypes
  <2> HIDE DEF c
  <2>2. EditsOpened(c) /\ c.editing \in Nat
    BY <1>1, <2>1 DEF BuilderInv, BuilderGood, EditsOpened, SameDocument, SameEdit, BuilderTypes
  <2>3. InRange(c.form) = InRange(builder.form) /\ BitsOf(c.form) = BitsOf(builder.form)
    BY <1>2, <2>1 DEF InRange, BitsOf
  <2>4. BitsMarked(c)
    BY <2>1, <2>3 DEF BuilderInv, BuilderGood, BitsMarked
  <2>5. QED
    BY <2>1, <2>2, <2>4 DEF c
<1>3. CASE SetOrder
  <2> DEFINE order == IF builder.form.order = "le" THEN "be" ELSE "le"
             f == [builder.form EXCEPT !.order = order]
             c == [builder EXCEPT !.form = f]
  <2>1. f \in Sig /\ f.start = builder.form.start /\ f.len = builder.form.len
    BY <1>1 DEF Sig
  <2>2. builder' = Previewed(c)
    BY <1>1, <1>3 DEF SetOrder, BuilderTypes, IsBuilder
  <2> HIDE DEF f
  <2>3. /\ IsBuilder(c) /\ SameDocument(builder, c) /\ SameTable(builder, c)
        /\ c.form \in Sig /\ c.editing \in Nat /\ EditsOpened(c) /\ BitsMarked(c)
    BY <1>2, <2>1
  <2> HIDE DEF c
  <2>4. BuilderGood(builder')
    BY <2>2, <2>3, FormPreviewed DEF BuilderInv
  <2>5. QED
    BY <2>4 DEF BuilderInv
<1>4. CASE SetName
  <2>1. PICK n \in SignalNames : builder' = [builder EXCEPT !.form.name = n]
    BY <1>4 DEF SetName
  <2> DEFINE f == [builder.form EXCEPT !.name = n]
             c == [builder EXCEPT !.form = f]
  <2>2. /\ f \in Sig /\ f.start = builder.form.start /\ f.len = builder.form.len
        /\ f.order = builder.form.order
    BY <1>1 DEF Sig
  <2>3. builder' = c
    BY <1>1, <2>1 DEF BuilderTypes, IsBuilder
  <2> HIDE DEF f
  <2>4. /\ IsBuilder(c) /\ SameDocument(builder, c) /\ SameTable(builder, c) /\ c.form = f
        /\ c.preview = builder.preview /\ c.stale = builder.stale
        /\ c.editing \in Nat /\ EditsOpened(c) /\ BitsMarked(c)
    BY <1>2, <2>2
  <2> HIDE DEF c
  <2>5. PreviewOf(c) = PreviewOf(builder)
    BY <2>2, <2>4, SamePreviews DEF SameDocument
  <2>6. PreviewFollows(c)
    BY <2>4, <2>5 DEF BuilderInv, BuilderGood, PreviewFollows
  <2>7. BuilderGood(c)
    BY <2>2, <2>4, <2>6, FormKept DEF BuilderInv
  <2>8. QED
    BY <2>3, <2>7 DEF BuilderInv
<1>5. QED
  BY <1>3, <1>4

LEMMA Cancelling ==
  ASSUME NEW b, IsBuilder(b)
  PROVE  /\ IsBuilder(EditCancelled(b)) /\ SameDocument(b, EditCancelled(b))
         /\ SameTable(b, EditCancelled(b)) /\ EditCancelled(b).editing = 0
         /\ EditCancelled(b).chosen = {} /\ EditCancelled(b).form = b.form
         /\ EditCancelled(b).preview = b.preview /\ EditCancelled(b).stale = b.stale
<1> DEFINE c == [b EXCEPT !.editing = 0]
<1>1. /\ IsBuilder(c) /\ SameDocument(b, c) /\ SameTable(b, c) /\ SameForm(b, c) /\ c.editing = 0
  BY DEF IsBuilder, SameDocument, SameTable, SameForm
<1>2. EditCancelled(b) = [c EXCEPT !.chosen = {}]
  BY DEF EditCancelled
<1> HIDE DEF c
<1>3. QED
  BY <1>1, <1>2, ChosenSet DEF SameDocument, SameTable, SameForm, SameEdit

LEMMA EditsKept ==
  ASSUME BuilderInv, EditSignal \/ CancelEdit
  PROVE  BuilderInv'
<1>1. BuilderTypes(builder) /\ builder.sel \in {0} \cup BuildIds /\ builder.db \in Db
  BY DEF BuilderInv, BuilderGood, BuilderTypes
<1>2. CASE CancelEdit
  <2> DEFINE c == EditCancelled(builder)
  <2>1. /\ IsBuilder(c) /\ SameDocument(builder, c) /\ SameTable(builder, c) /\ c.editing = 0
        /\ c.chosen = {} /\ c.form = builder.form /\ c.preview = builder.preview
        /\ c.stale = builder.stale
    BY <1>1, Cancelling DEF BuilderTypes
  <2>2. builder' = c
    BY <1>2 DEF CancelEdit
  <2> HIDE DEF c
  <2>3. PreviewOf(c) = PreviewOf(builder)
    BY <2>1, SamePreviews DEF SameDocument
  <2>4. PreviewFollows(c) /\ EditsOpened(c) /\ BitsMarked(c)
    BY <2>1, <2>3 DEF BuilderInv, BuilderGood, PreviewFollows, EditsOpened, BitsMarked
  <2>5. c.form \in Sig /\ c.editing \in Nat
    BY <1>1, <2>1 DEF BuilderTypes
  <2>6. BuilderGood(c)
    BY <2>1, <2>4, <2>5, FormKept DEF BuilderInv
  <2>7. QED
    BY <2>2, <2>6 DEF BuilderInv
<1>3. CASE EditSignal
  <2>1. PICK i \in DOMAIN builder.table :
          /\ i \in DOMAIN SigsOf(builder)
          /\ LET sig == SigsOf(builder)[i] IN
             builder' = Previewed([builder EXCEPT !.form = sig, !.chosen = BitsOf(sig), !.editing = i,
                                     !.opened = builder.table[i].name, !.moved = FALSE])
    BY <1>3 DEF EditSignal
  <2> DEFINE sig == SigsOf(builder)[i]
             bits == BitsOf(sig)
             opened == builder.table[i].name
             no == FALSE
             a == [builder EXCEPT !.form = sig]
             b == [a EXCEPT !.chosen = bits]
             c == [b EXCEPT !.editing = i]
             d == [c EXCEPT !.opened = opened]
             e == [d EXCEPT !.moved = no]
  <2>2. builder' = Previewed(e)
    BY <2>1
  <2>3. SigsOf(builder) \in Seq(Sig) /\ DOMAIN SigsOf(builder) = 1..Len(SigsOf(builder))
    BY <1>1, SigsAre
  <2>4. sig \in Sig /\ i \in Nat /\ i \in 1..Len(SigsOf(builder))
    BY <2>1, <2>3
  <2>5. sig.name = opened
    BY <2>1 DEF BuilderInv, BuilderGood, RowsNamed
  <2> HIDE DEF sig, bits, opened, no
  <2>6. IsBuilder(a) /\ SameDocument(builder, a) /\ SameTable(builder, a) /\ a.form = sig
    BY <1>1, FormSet DEF BuilderTypes
  <2> HIDE DEF a
  <2>7. /\ IsBuilder(b) /\ SameDocument(a, b) /\ SameTable(a, b) /\ b.form = a.form
        /\ b.chosen = bits
    BY <2>6, ChosenSet
  <2> HIDE DEF b
  <2>8. /\ IsBuilder(c) /\ SameDocument(b, c) /\ SameTable(b, c) /\ c.form = b.form
         /\ c.chosen = b.chosen /\ c.editing = i
    BY <2>7 DEF IsBuilder, SameDocument, SameTable
  <2> HIDE DEF c
  <2>9. /\ IsBuilder(d) /\ SameDocument(c, d) /\ SameTable(c, d) /\ d.form = c.form
         /\ d.chosen = c.chosen /\ d.editing = c.editing /\ d.opened = opened
    BY <2>8 DEF IsBuilder, SameDocument, SameTable
  <2> HIDE DEF d
  <2>10. /\ IsBuilder(e) /\ SameDocument(d, e) /\ SameTable(d, e) /\ e.form = d.form
        /\ e.chosen = d.chosen /\ e.editing = d.editing /\ e.opened = d.opened
    BY <2>9 DEF IsBuilder, SameDocument, SameTable
  <2> HIDE DEF e
  <2>11. /\ SameDocument(builder, e) /\ SameTable(builder, e) /\ e.form = sig /\ e.chosen = bits
        /\ e.editing = i /\ e.opened = opened
    BY <2>6, <2>7, <2>8, <2>9, <2>10 DEF SameDocument, SameTable
  <2>12. EditsOpened(e)
    <3>1. SUFFICES ASSUME e.sel # 0
                   PROVE  i \in 1..Len(e.db[e.sel].sigs) /\ e.db[e.sel].sigs[i].name = opened
      BY <2>11 DEF EditsOpened
    <3>2. e.db[e.sel].sigs = SigsOf(builder)
      BY <2>11, <3>1 DEF SigsOf, SameDocument
    <3>3. QED
      BY <2>4, <2>5, <3>2 DEF sig
  <2>13. BitsMarked(e)
    BY <2>11 DEF BitsMarked, bits
  <2>14. BuilderGood(builder')
    BY <2>2, <2>4, <2>10, <2>11, <2>12, <2>13, FormPreviewed DEF BuilderInv
  <2>15. QED
    BY <2>14 DEF BuilderInv
<1>4. QED
  BY <1>2, <1>3

LEMMA FrameShown ==
  ASSUME BuilderInv, BuilderFrame
  PROVE  BuilderInv'
<1>1. PICK id \in BuildIds, dlc \in {1, 8} :
        LET b == [builder EXCEPT !.dlc[id] = dlc, !.list = @ \cup {id}] IN
        builder' = IF id = b.sel THEN Previewed([b EXCEPT !.pending = TRUE]) ELSE b
  BY DEF BuilderFrame
<1> DEFINE dlcs == [builder.dlc EXCEPT ![id] = dlc]
           list == builder.list \cup {id}
           a == [builder EXCEPT !.dlc = dlcs]
           b == [a EXCEPT !.list = list]
           yes == TRUE
           c == [b EXCEPT !.pending = yes]
<1>2. BuilderTypes(builder) /\ IsBuilder(builder) /\ builder.sel \in {0} \cup BuildIds
  BY DEF BuilderInv, BuilderGood, BuilderTypes
<1>3. /\ dlcs \in [BuildIds -> {0, 1, 8}] /\ list \subseteq BuildIds
      /\ \A i \in BuildIds : i # id => dlcs[i] = builder.dlc[i]
  BY <1>2 DEF BuilderTypes
<1>4. builder' = IF id = b.sel THEN Previewed(c) ELSE b
  <2>1. b = [builder EXCEPT !.dlc[id] = dlc, !.list = @ \cup {id}]
    BY <1>2 DEF IsBuilder
  <2> HIDE DEF b
  <2>2. QED
    BY <1>1, <2>1
<1> HIDE DEF dlcs, list, yes
<1>5. /\ IsBuilder(a) /\ SameTable(builder, a) /\ SameForm(builder, a) /\ SameEdit(builder, a)
      /\ a.sel = builder.sel /\ a.db = builder.db /\ a.others = builder.others
      /\ a.field = builder.field /\ a.dlc = dlcs
  BY <1>2 DEF IsBuilder, SameTable, SameForm, SameEdit
<1> HIDE DEF a
<1>6. /\ IsBuilder(b) /\ SameTable(a, b) /\ SameForm(a, b) /\ SameEdit(a, b)
      /\ b.sel = a.sel /\ b.db = a.db /\ b.others = a.others /\ b.field = a.field
      /\ b.dlc = a.dlc /\ b.list = list
  BY <1>5 DEF IsBuilder, SameTable, SameForm, SameEdit
<1> HIDE DEF b
<1>7. /\ b.sel = builder.sel /\ b.db = builder.db /\ b.others = builder.others /\ b.dlc = dlcs
      /\ SameTable(builder, b) /\ SameForm(builder, b) /\ SameEdit(builder, b)
  BY <1>5, <1>6 DEF SameTable, SameForm, SameEdit
<1>8. BuilderTypes(b)
  BY <1>2, <1>3, <1>5, <1>6, <1>7 DEF BuilderTypes, SameForm, SameEdit
<1>9. EditsOpened(b) /\ NamedOnce(b.db) /\ OthersHave(b) /\ BitsMarked(b)
  BY <1>7 DEF BuilderInv, BuilderGood, EditsOpened, OthersHave, BitsMarked, SameForm, SameEdit
<1>10. SigsOf(b) = SigsOf(builder)
  BY <1>7 DEF SigsOf
<1>11. RowsNamed(b)
  BY <1>7, <1>10 DEF BuilderInv, BuilderGood, RowsNamed, SameTable
<1>12. CASE id # b.sel
  BY <1>2, <1>3, <1>7, <1>12, <1>10, SameTables, SamePreviews, <1>4, <1>8, <1>9, <1>11
     DEF SameForm, BuilderInv, BuilderGood, TableFollows, PreviewFollows, SameTable
<1>13. CASE id = b.sel
  <2> DEFINE d == Previewed(c)
  <2>1. /\ IsBuilder(c) /\ SameDocument(b, c) /\ SameForm(b, c) /\ SameEdit(b, c)
        /\ c.table = b.table /\ c.pending = yes
    BY <1>6 DEF IsBuilder, SameDocument, SameForm, SameEdit
  <2> HIDE DEF c
  <2>2. /\ IsBuilder(d) /\ SameDocument(c, d) /\ SameTable(c, d) /\ SameEdit(c, d)
        /\ d.form = c.form /\ d.chosen = c.chosen /\ d.preview = PreviewOf(c)
    BY <2>1, Previewing
  <2>3. builder' = d
    BY <1>4, <1>13
  <2> HIDE DEF d
  <2>4. /\ SameDocument(b, d) /\ SameEdit(b, d) /\ d.form = b.form /\ d.chosen = b.chosen
        /\ d.table = b.table /\ d.pending
    BY <2>1, <2>2 DEF SameDocument, SameForm, SameEdit, SameTable, yes
  <2>5. PreviewOf(d) = PreviewOf(c)
    BY <2>2, SamePreviews DEF SameDocument
  <2>6. BuilderTypes(d)
    BY <1>8, <2>2, <2>4 DEF BuilderTypes, SameDocument, SameEdit
  <2>7. EditsOpened(d) /\ NamedOnce(d.db) /\ OthersHave(d) /\ BitsMarked(d)
    BY <1>9, <2>4 DEF EditsOpened, OthersHave, BitsMarked, SameDocument, SameEdit
  <2>8. SigsOf(d) = SigsOf(b)
    BY <2>4 DEF SigsOf, SameDocument
  <2>9. RowsNamed(d)
    BY <1>11, <2>4, <2>8 DEF RowsNamed
  <2>10. TableFollows(d) /\ PreviewFollows(d)
    BY <2>2, <2>4, <2>5 DEF TableFollows, PreviewFollows
  <2>11. QED
    BY <2>3, <2>6, <2>7, <2>9, <2>10 DEF BuilderInv, BuilderGood
<1>14. QED
  BY <1>12, <1>13

LEMMA TickKept ==
  ASSUME BuilderInv, TableTick
  PROVE  BuilderInv'
<1> DEFINE no == FALSE
           b == [builder EXCEPT !.pending = no]
           c == TableRefreshed(b)
<1>1. BuilderTypes(builder) /\ builder' = c
  BY DEF BuilderInv, BuilderGood, TableTick
<1> HIDE DEF no
<1>2. /\ IsBuilder(b) /\ SameDocument(builder, b) /\ SameForm(builder, b) /\ SameEdit(builder, b)
  BY <1>1 DEF BuilderTypes, IsBuilder, SameDocument, SameForm, SameEdit
<1> HIDE DEF b
<1>3. /\ IsBuilder(c) /\ SameDocument(b, c) /\ SameForm(b, c) /\ SameEdit(b, c)
      /\ c.table = TableOf(b)
  BY <1>2, Refreshing
<1> HIDE DEF c
<1>4. SameDocument(builder, c) /\ SameForm(builder, c) /\ SameEdit(builder, c)
  BY <1>2, <1>3 DEF SameDocument, SameForm, SameEdit
<1>5. BuilderTypes(c)
  BY <1>1, <1>3, <1>4 DEF BuilderTypes, SameDocument, SameForm, SameEdit
<1>6. EditsOpened(c) /\ NamedOnce(c.db) /\ OthersHave(c) /\ BitsMarked(c)
  BY <1>4 DEF BuilderInv, BuilderGood, EditsOpened, OthersHave, BitsMarked, SameDocument,
       SameForm, SameEdit
<1>7. SigsOf(c) = SigsOf(b)
  BY <1>3 DEF SigsOf, SameDocument
<1>8. TableOf(c) = TableOf(b)
  BY <1>3, <1>7, SameTables DEF SameDocument
<1>9. TableFollows(c) /\ RowsNamed(c)
  BY <1>3, <1>7, <1>8, TableNames DEF TableFollows, RowsNamed
<1>10. PreviewOf(c) = PreviewOf(builder)
  BY <1>4, SamePreviews DEF SameDocument, SameForm
<1>11. PreviewFollows(c)
  BY <1>4, <1>10 DEF BuilderInv, BuilderGood, PreviewFollows, SameForm
<1>12. QED
  BY <1>1, <1>5, <1>6, <1>9, <1>11 DEF BuilderInv, BuilderGood

LEMMA SelectKept ==
  ASSUME BuilderInv, SelectBuildId
  PROVE  BuilderInv'
<1>1. PICK id \in builder.list : builder' = SelectedId(builder, id)
  BY DEF SelectBuildId
<1>2. BuilderTypes(builder) /\ IsBuilder(builder) /\ id \in BuildIds
  BY DEF BuilderInv, BuilderGood, BuilderTypes
<1> DEFINE field == FieldOf(builder, id)
           a == [builder EXCEPT !.sel = id]
           b == [a EXCEPT !.field = field]
           c == EditCancelled(b)
           d == TableRefreshed(c)
           e == Previewed(d)
<1>3. builder' = e
  BY <1>1 DEF SelectedId
<1>4. field \in Labels
  BY <1>2 DEF BuilderTypes, Db, Message, Labels, FieldOf
<1> HIDE DEF field
<1>5. /\ IsBuilder(a) /\ SameTable(builder, a) /\ SameForm(builder, a) /\ SameEdit(builder, a)
      /\ a.list = builder.list /\ a.sel = id /\ a.dlc = builder.dlc /\ a.db = builder.db
      /\ a.others = builder.others
  BY <1>2 DEF IsBuilder, SameTable, SameForm, SameEdit
<1> HIDE DEF a
<1>6. /\ IsBuilder(b) /\ SameTable(a, b) /\ SameForm(a, b) /\ SameEdit(a, b)
      /\ b.list = a.list /\ b.sel = a.sel /\ b.dlc = a.dlc /\ b.db = a.db
      /\ b.others = a.others /\ b.field = field
  BY <1>5 DEF IsBuilder, SameTable, SameForm, SameEdit
<1> HIDE DEF b
<1>7. /\ IsBuilder(c) /\ SameDocument(b, c) /\ c.editing = 0 /\ c.chosen = {} /\ c.form = b.form
  BY <1>6, Cancelling
<1> HIDE DEF c
<1>8. /\ IsBuilder(d) /\ SameDocument(c, d) /\ SameForm(c, d) /\ SameEdit(c, d)
      /\ d.table = TableOf(c)
  BY <1>7, Refreshing
<1> HIDE DEF d
<1>9. /\ IsBuilder(e) /\ SameDocument(d, e) /\ SameTable(d, e) /\ SameEdit(d, e)
      /\ e.form = d.form /\ e.chosen = d.chosen /\ e.preview = PreviewOf(d)
  BY <1>8, Previewing
<1> HIDE DEF e
<1>10. /\ e.list = builder.list /\ e.sel = id /\ e.dlc = builder.dlc /\ e.db = builder.db
       /\ e.others = builder.others /\ e.field = field /\ e.editing = 0 /\ e.chosen = {}
       /\ e.form = builder.form /\ e.table = TableOf(c) /\ SameDocument(c, e)
  BY <1>5, <1>6, <1>7, <1>8, <1>9 DEF SameDocument, SameForm, SameEdit, SameTable
<1>11. BuilderTypes(e)
  BY <1>2, <1>4, <1>9, <1>10 DEF BuilderTypes
<1>12. EditsOpened(e) /\ NamedOnce(e.db) /\ OthersHave(e) /\ BitsMarked(e)
  BY <1>10 DEF BuilderInv, BuilderGood, EditsOpened, OthersHave, BitsMarked
<1>13. SigsOf(e) = SigsOf(c)
  BY <1>10 DEF SigsOf, SameDocument
<1>14. TableOf(e) = TableOf(c)
  BY <1>10, <1>13, SameTables DEF SameDocument
<1>15. TableFollows(e) /\ RowsNamed(e)
  BY <1>10, <1>13, <1>14, TableNames DEF TableFollows, RowsNamed
<1>16. PreviewOf(e) = PreviewOf(d)
  BY <1>9, SamePreviews DEF SameDocument
<1>17. PreviewFollows(e)
  BY <1>9, <1>16 DEF PreviewFollows
<1>18. QED
  BY <1>3, <1>11, <1>12, <1>15, <1>17 DEF BuilderInv, BuilderGood

LEMMA DbSet ==
  ASSUME NEW b, IsBuilder(b), NEW db
  PROVE  LET c == [b EXCEPT !.db = db] IN
         /\ IsBuilder(c) /\ SameTable(b, c) /\ SameForm(b, c) /\ SameEdit(b, c) /\ c.db = db
         /\ c.list = b.list /\ c.sel = b.sel /\ c.dlc = b.dlc /\ c.others = b.others
         /\ c.field = b.field
BY DEF IsBuilder, SameTable, SameForm, SameEdit

\* The name of the message is in nobody's table.
LEMMA RenameKept ==
  ASSUME BuilderInv, RenameMessage
  PROVE  BuilderInv'
<1> DEFINE mine(id) == IF id = builder.sel /\ builder.db[id] # NoMessage
                       THEN [builder.db[id] EXCEPT !.label = "mine"] ELSE builder.db[id]
           db == [id \in BuildIds |-> mine(id)]
           b == [builder EXCEPT !.db = db]
           c == [b EXCEPT !.field = "mine"]
<1>1. BuilderTypes(builder) /\ IsBuilder(builder) /\ builder.sel \in {0} \cup BuildIds
  BY DEF BuilderInv, BuilderGood, BuilderTypes
<1>2. "mine" \in Labels
  BY DEF Labels
<1>3. ASSUME NEW id \in BuildIds PROVE mine(id) \in Message /\ mine(id).sigs = builder.db[id].sigs
  BY <1>1, <1>2 DEF BuilderTypes, Db, Message
<1>4. builder' = c
  BY <1>1 DEF RenameMessage, IsBuilder
<1> HIDE DEF mine
<1>5. db \in Db /\ \A id \in BuildIds : db[id].sigs = builder.db[id].sigs
  BY <1>3 DEF Db
<1> HIDE DEF db
<1>6. /\ IsBuilder(b) /\ SameTable(builder, b) /\ SameForm(builder, b) /\ SameEdit(builder, b)
      /\ b.db = db /\ b.list = builder.list /\ b.sel = builder.sel /\ b.dlc = builder.dlc
      /\ b.others = builder.others
  BY <1>1, DbSet
<1> HIDE DEF b
<1>7. /\ IsBuilder(c) /\ SameTable(b, c) /\ SameForm(b, c) /\ SameEdit(b, c)
      /\ c.db = b.db /\ c.list = b.list /\ c.sel = b.sel /\ c.dlc = b.dlc
      /\ c.others = b.others /\ c.field = "mine"
  BY <1>6 DEF IsBuilder, SameTable, SameForm, SameEdit
<1> HIDE DEF c
<1>8. /\ SameTable(builder, c) /\ SameForm(builder, c) /\ SameEdit(builder, c)
      /\ c.db = db /\ c.list = builder.list /\ c.sel = builder.sel /\ c.dlc = builder.dlc
      /\ c.others = builder.others
  BY <1>6, <1>7 DEF SameTable, SameForm, SameEdit
<1>9. BuilderTypes(c)
  BY <1>1, <1>2, <1>5, <1>7, <1>8 DEF BuilderTypes, SameForm, SameEdit
<1>10. EditsOpened(c)
  BY <1>1, <1>5, <1>8 DEF BuilderInv, BuilderGood, EditsOpened, SameEdit
<1>11. NamedOnce(c.db) /\ OthersHave(c)
  BY <1>5, <1>8 DEF BuilderInv, BuilderGood, NamedOnce, OthersHave
<1>12. SigsOf(c) = SigsOf(builder)
  BY <1>1, <1>5, <1>8 DEF SigsOf
<1>13. TableOf(c) = TableOf(builder) /\ PreviewOf(c) = PreviewOf(builder)
  BY <1>8, <1>12, SameTables, SamePreviews DEF SameForm
<1>14. TableFollows(c) /\ RowsNamed(c)
  BY <1>8, <1>12, <1>13 DEF BuilderInv, BuilderGood, TableFollows, RowsNamed, SameTable
<1>15. BitsMarked(c) /\ PreviewFollows(c)
  BY <1>8, <1>13 DEF BuilderInv, BuilderGood, BitsMarked, PreviewFollows, SameForm
<1>16. QED
  BY <1>4, <1>9, <1>10, <1>11, <1>14, <1>15 DEF BuilderInv, BuilderGood

\* The message that is selected gets other signals.
LEMMA MessageSet ==
  ASSUME BuilderInv, builder.sel # 0, NEW m \in Message, NamesOnce(m.sigs),
         NEW db, db = [builder.db EXCEPT ![builder.sel] = m],
         NEW b, b = [builder EXCEPT !.db = db]
  PROVE  /\ SameForm(builder, b) /\ SameEdit(builder, b) /\ b.sel = builder.sel
         /\ b.db[b.sel] = m /\ BuilderTypes(b) /\ NamedOnce(b.db) /\ BitsMarked(b)
         /\ PreviewFollows(b)
<1>1. /\ BuilderTypes(builder) /\ IsBuilder(builder) /\ builder.sel \in BuildIds
      /\ builder.db \in Db
  BY DEF BuilderInv, BuilderGood, BuilderTypes
<1>2. /\ db \in Db /\ db[builder.sel] = m
      /\ \A id \in BuildIds : id # builder.sel => db[id] = builder.db[id]
  BY <1>1 DEF Db
<1>3. /\ IsBuilder(b) /\ SameForm(builder, b) /\ SameEdit(builder, b)
      /\ b.db = db /\ b.list = builder.list /\ b.sel = builder.sel /\ b.dlc = builder.dlc
      /\ b.field = builder.field
  BY <1>1, DbSet
<1>4. BuilderTypes(b)
  BY <1>1, <1>2, <1>3 DEF BuilderTypes, SameForm, SameEdit
<1>5. NamedOnce(b.db)
  BY <1>2, <1>3 DEF BuilderInv, BuilderGood, NamedOnce, NamesOnce
<1>6. PreviewOf(b) = PreviewOf(builder)
  BY <1>3, SamePreviews DEF SameForm
<1>7. BitsMarked(b) /\ PreviewFollows(b)
  BY <1>3, <1>6 DEF BuilderInv, BuilderGood, BitsMarked, PreviewFollows, SameForm
<1>8. QED
  BY <1>2, <1>3, <1>4, <1>5, <1>7

LEMMA UpdateKeepsNames ==
  ASSUME NEW sigs \in Seq(Sig), NamesOnce(sigs), NEW at \in 1..Len(sigs), NEW f \in Sig,
         \A i \in DOMAIN sigs \ {at} : sigs[i].name # f.name
  PROVE  [sigs EXCEPT ![at] = f] \in Seq(Sig) /\ NamesOnce([sigs EXCEPT ![at] = f])
<1> DEFINE new == [sigs EXCEPT ![at] = f]
<1>1. /\ new \in Seq(Sig) /\ Len(new) = Len(sigs) /\ DOMAIN sigs = 1..Len(sigs)
      /\ \A i \in 1..Len(sigs) : new[i] = IF i = at THEN f ELSE sigs[i]
  OBVIOUS
<1> HIDE DEF new
<1>2. ASSUME NEW i \in 1..Len(sigs), NEW j \in 1..Len(sigs), new[i].name = new[j].name
      PROVE  i = j
  BY <1>1, <1>2 DEF NamesOnce
<1>3. NamesOnce(new)
  BY <1>1, <1>2 DEF NamesOnce
<1>4. QED
  BY <1>1, <1>3 DEF new

LEMMA AppendKeepsNames ==
  ASSUME NEW sigs \in Seq(Sig), NamesOnce(sigs), NEW f \in Sig,
         \A i \in DOMAIN sigs : sigs[i].name # f.name
  PROVE  Append(sigs, f) \in Seq(Sig) /\ NamesOnce(Append(sigs, f))
<1> DEFINE new == Append(sigs, f)
<1>1. /\ new \in Seq(Sig) /\ Len(new) = Len(sigs) + 1 /\ DOMAIN sigs = 1..Len(sigs)
      /\ new[Len(sigs) + 1] = f /\ \A i \in 1..Len(sigs) : new[i] = sigs[i]
      /\ Len(sigs) \in Nat
  OBVIOUS
<1> HIDE DEF new
<1>2. \A i \in 1..Len(new) : i = Len(sigs) + 1 \/ i \in 1..Len(sigs)
  BY <1>1
<1>3. NamesOnce(new)
  BY <1>1, <1>2 DEF NamesOnce
<1>4. QED
  BY <1>1, <1>3 DEF new

LEMMA AddSignalKept ==
  ASSUME BuilderInv, AddSignal
  PROVE  BuilderInv'
<1> DEFINE sigs == SigsOf(builder)
           at == builder.editing
           sel == builder.sel
           old == builder.db[sel]
<1>1. /\ BuilderTypes(builder) /\ IsBuilder(builder) /\ sel \in BuildIds /\ sel # 0
      /\ builder.db \in Db /\ builder.form \in Sig /\ builder.field \in Labels
  BY DEF BuilderInv, BuilderGood, BuilderTypes, AddSignal
<1>2. old \in Message /\ sigs = old.sigs /\ NamesOnce(sigs)
  BY <1>1 DEF Db, SigsOf, BuilderInv, BuilderGood, NamedOnce, NamesOnce
<1>3. sigs \in Seq(Sig) /\ DOMAIN sigs = 1..Len(sigs) /\ old.label \in Labels
      /\ old = [label |-> old.label, sigs |-> old.sigs]
  BY <1>2 DEF Message
<1>4. \A i \in DOMAIN sigs \ {at} : sigs[i].name # builder.form.name
  BY DEF AddSignal
<1>5. CASE /\ at \in DOMAIN sigs
           /\ builder' = Changed([builder EXCEPT !.db[builder.sel].sigs[at] = builder.form,
                                                 !.editing = 0])
  <2> DEFINE new == [sigs EXCEPT ![at] = builder.form]
             m == [old EXCEPT !.sigs = new]
             db == [builder.db EXCEPT ![sel] = m]
             b == [builder EXCEPT !.db = db]
             c == [b EXCEPT !.editing = 0]
  <2>1. new \in Seq(Sig) /\ NamesOnce(new)
    BY <1>1, <1>2, <1>3, <1>4, <1>5, UpdateKeepsNames
  <2>2. builder' = Changed(c)
    <3>1. db = [builder.db EXCEPT ![builder.sel].sigs[at] = builder.form]
      BY <1>1, <1>2
    <3>2. b = [builder EXCEPT !.db[builder.sel].sigs[at] = builder.form]
      BY <1>1, <3>1
    <3> HIDE DEF b
    <3>3. QED
      BY <1>5, <3>2
  <2> HIDE DEF new
  <2>3. m \in Message /\ m.sigs = new
    BY <1>2, <2>1 DEF Message
  <2> HIDE DEF m
  <2>4. /\ SameForm(builder, b) /\ b.sel = sel /\ BuilderTypes(b) /\ NamedOnce(b.db)
        /\ BitsMarked(b) /\ PreviewFollows(b)
    BY <1>1, <2>1, <2>3, MessageSet
  <2> HIDE DEF b
  <2>5. /\ IsBuilder(c) /\ SameDocument(b, c) /\ SameForm(b, c) /\ c.editing = 0
    BY <2>4 DEF BuilderTypes, IsBuilder, SameDocument, SameForm
  <2> HIDE DEF c
  <2>6. BuilderTypes(c) /\ EditsOpened(c) /\ NamedOnce(c.db)
    BY <2>4, <2>5 DEF BuilderTypes, EditsOpened, SameDocument, SameForm
  <2>7. PreviewOf(c) = PreviewOf(b)
    BY <2>5, SamePreviews DEF SameDocument, SameForm
  <2>8. BitsMarked(c) /\ PreviewFollows(c)
    BY <2>4, <2>5, <2>7 DEF BitsMarked, PreviewFollows, SameForm
  <2>9. QED
    BY <2>2, <2>6, <2>8, ChangedKept DEF BuilderInv
<1>6. CASE /\ at = 0
           /\ builder' = Changed([builder EXCEPT
                !.db[builder.sel] = [label |-> IF @ = NoMessage THEN builder.field ELSE @.label,
                                     sigs |-> Append(sigs, builder.form)],
                !.form.name = NoName, !.chosen = {}])
  <2> DEFINE new == Append(sigs, builder.form)
             label == IF old = NoMessage THEN builder.field ELSE old.label
             m == [label |-> label, sigs |-> new]
             form == [builder.form EXCEPT !.name = NoName]
             db == [builder.db EXCEPT ![sel] = m]
             b == [builder EXCEPT !.db = db]
             c == [b EXCEPT !.form = form]
             d == [c EXCEPT !.chosen = {}]
  <2>1. new \in Seq(Sig) /\ NamesOnce(new)
    BY <1>3, <1>4, <1>6, <1>1, <1>2, AppendKeepsNames
  <2>2. builder' = Changed(d)
    <3>1. b.form = builder.form
      BY <1>1 DEF IsBuilder
    <3>2. c = [b EXCEPT !.form.name = NoName]
      BY <3>1
    <3>3. b = [builder EXCEPT !.db[builder.sel] =
                [label |-> IF @ = NoMessage THEN builder.field ELSE @.label,
                 sigs |-> Append(sigs, builder.form)]]
      OBVIOUS
    <3> HIDE DEF b, c
    <3>4. QED
      BY <1>6, <3>2, <3>3
  <2>3. label \in Labels
    BY <1>1, <1>3
  <2>4. form \in Sig /\ form.start = builder.form.start /\ form.len = builder.form.len
        /\ form.order = builder.form.order
    BY <1>1 DEF Sig
  <2> HIDE DEF new, label, form
  <2>5. m \in Message /\ m.sigs = new
    BY <2>1, <2>3 DEF Message
  <2> HIDE DEF m
  <2>6. /\ SameForm(builder, b) /\ SameEdit(builder, b) /\ b.sel = sel /\ BuilderTypes(b)
        /\ NamedOnce(b.db) /\ PreviewFollows(b)
    BY <1>1, <2>1, <2>5, MessageSet
  <2> HIDE DEF b
  <2>7. /\ IsBuilder(c) /\ SameDocument(b, c) /\ SameTable(b, c) /\ SameEdit(b, c)
        /\ c.form = form /\ c.preview = b.preview /\ c.stale = b.stale
    BY <2>6, FormSet DEF BuilderTypes
  <2> HIDE DEF c
  <2>8. /\ IsBuilder(d) /\ SameDocument(c, d) /\ SameTable(c, d) /\ SameEdit(c, d)
        /\ d.form = c.form /\ d.chosen = {} /\ d.preview = c.preview /\ d.stale = c.stale
    BY <2>7, ChosenSet
  <2> HIDE DEF d
  <2>9. /\ SameDocument(b, d) /\ SameEdit(b, d) /\ d.form = form /\ d.chosen = {}
        /\ d.preview = b.preview /\ d.stale = b.stale
    BY <2>7, <2>8 DEF SameDocument, SameEdit
  <2>10. BuilderTypes(d) /\ NamedOnce(d.db)
    BY <2>4, <2>6, <2>8, <2>9 DEF BuilderTypes, SameDocument, SameEdit
  <2>11. d.editing = 0
    BY <1>6, <2>6, <2>9 DEF SameEdit
  <2>12. PreviewOf(d) = PreviewOf(b)
    BY <2>4, <2>6, <2>9, SamePreviews DEF SameDocument, SameForm
  <2>13. EditsOpened(d) /\ BitsMarked(d) /\ PreviewFollows(d)
    BY <2>6, <2>9, <2>11, <2>12 DEF EditsOpened, BitsMarked, PreviewFollows
  <2>14. QED
    BY <2>2, <2>10, <2>13, ChangedKept DEF BuilderInv
<1>7. QED
  BY <1>5, <1>6 DEF AddSignal

LEMMA RemoveKeepsNames ==
  ASSUME NEW sigs \in Seq(Sig), NamesOnce(sigs), NEW i \in 1..Len(sigs)
  PROVE  NamesOnce(RemoveAt(sigs, i))
<1> DEFINE new == RemoveAt(sigs, i)
           At(k) == IF k < i THEN k ELSE k + 1
<1>1. /\ Len(new) = Len(sigs) - 1
      /\ \A k \in 1..(Len(sigs) - 1) : new[k] = IF k < i THEN sigs[k] ELSE sigs[k + 1]
  BY RemovedAt
<1> HIDE DEF new
<1>2. \A k \in 1..Len(new) : new[k] = sigs[At(k)] /\ At(k) \in 1..Len(sigs)
  BY <1>1
<1>3. ASSUME NEW j \in 1..Len(new), NEW k \in 1..Len(new), new[j].name = new[k].name
      PROVE  j = k
  <2>1. At(j) \in 1..Len(sigs) /\ At(k) \in 1..Len(sigs) /\ sigs[At(j)].name = sigs[At(k)].name
    <3> HIDE DEF At
    <3>1. QED
      BY <1>2, <1>3
  <2>2. At(j) = At(k)
    <3> HIDE DEF At
    <3>1. QED
      BY <2>1 DEF NamesOnce
  <2>3. j \in Nat /\ k \in Nat
    BY <1>1, <1>3
  <2>4. QED
    BY <2>2, <2>3
<1>4. QED
  BY <1>3 DEF NamesOnce, new

LEMMA DeleteSignalKept ==
  ASSUME BuilderInv, DeleteSignal
  PROVE  BuilderInv'
<1> DEFINE sigs == SigsOf(builder)
           sel == builder.sel
           old == builder.db[sel]
<1>1. PICK i \in DOMAIN builder.table :
        /\ i \in DOMAIN SigsOf(builder)
        /\ builder' = Changed([builder EXCEPT !.db[builder.sel].sigs = RemoveAt(@, i),
                                              !.moved = @ \/ i <= builder.editing])
  BY DEF DeleteSignal
<1>2. /\ BuilderTypes(builder) /\ IsBuilder(builder) /\ sel \in {0} \cup BuildIds
      /\ builder.db \in Db /\ builder.editing \in Nat
  BY DEF BuilderInv, BuilderGood, BuilderTypes
<1>3. sel # 0
  BY <1>1 DEF SigsOf
<1>4. old \in Message /\ sigs = old.sigs /\ NamesOnce(sigs)
  BY <1>2, <1>3 DEF Db, SigsOf, BuilderInv, BuilderGood, NamedOnce, NamesOnce
<1>5. sigs \in Seq(Sig) /\ i \in 1..Len(sigs) /\ old.label \in Labels
      /\ old = [label |-> old.label, sigs |-> old.sigs]
  BY <1>1, <1>4 DEF Message
<1> DEFINE new == RemoveAt(sigs, i)
           m == [old EXCEPT !.sigs = new]
           db == [builder.db EXCEPT ![sel] = m]
           moved == builder.moved \/ i <= builder.editing
           b == [builder EXCEPT !.db = db]
           c == [b EXCEPT !.moved = moved]
<1>6. builder' = Changed(c)
  <2>1. db = [builder.db EXCEPT ![builder.sel].sigs = RemoveAt(@, i)]
    BY <1>2, <1>4
  <2>2. b = [builder EXCEPT !.db[builder.sel].sigs = RemoveAt(@, i)] /\ b.moved = builder.moved
    BY <1>2, <2>1 DEF IsBuilder
  <2> HIDE DEF b
  <2>3. c = [b EXCEPT !.moved = @ \/ i <= builder.editing]
    BY <2>2
  <2>4. QED
    BY <1>1, <2>2, <2>3
<1>7. /\ new \in Seq(Sig) /\ Len(new) = Len(sigs) - 1
      /\ \A k \in 1..(Len(sigs) - 1) : new[k] = IF k < i THEN sigs[k] ELSE sigs[k + 1]
  BY <1>5, RemovedAt
<1> HIDE DEF new
<1>8. NamesOnce(new)
  BY <1>4, <1>5, RemoveKeepsNames DEF new
<1>9. m \in Message /\ m.sigs = new
  BY <1>4, <1>7 DEF Message
<1> HIDE DEF m
<1>10. /\ SameForm(builder, b) /\ SameEdit(builder, b) /\ b.sel = sel /\ b.db[b.sel] = m
       /\ BuilderTypes(b) /\ NamedOnce(b.db) /\ BitsMarked(b) /\ PreviewFollows(b)
  BY <1>3, <1>8, <1>9, MessageSet
<1> HIDE DEF b, moved
<1>11. /\ IsBuilder(c) /\ SameDocument(b, c) /\ SameForm(b, c) /\ c.editing = b.editing
       /\ c.opened = b.opened /\ c.moved = moved
  BY <1>10 DEF BuilderTypes, IsBuilder, SameDocument, SameForm
<1> HIDE DEF c
<1>12. BuilderTypes(c) /\ NamedOnce(c.db)
  BY <1>10, <1>11 DEF BuilderTypes, SameDocument, SameForm
<1>13. EditsOpened(c)
  <2>1. /\ c.editing = builder.editing /\ c.opened = builder.opened /\ c.sel = sel
        /\ c.db[c.sel].sigs = new
    BY <1>9, <1>10, <1>11 DEF SameDocument, SameEdit
  <2>2. SUFFICES ASSUME builder.editing # 0, ~moved
                 PROVE  builder.editing \in 1..Len(new) /\ new[builder.editing].name = builder.opened
    BY <1>11, <2>1 DEF EditsOpened
  <2>3. ~builder.moved /\ builder.editing < i
    BY <1>2, <1>5, <2>2 DEF moved
  <2>4. builder.editing \in 1..Len(sigs) /\ sigs[builder.editing].name = builder.opened
    BY <1>3, <1>4, <2>2, <2>3 DEF BuilderInv, BuilderGood, EditsOpened
  <2>5. builder.editing \in 1..(Len(sigs) - 1)
    BY <1>5, <2>3, <2>4
  <2>6. QED
    BY <1>7, <2>3, <2>4, <2>5
<1>14. PreviewOf(c) = PreviewOf(b)
  BY <1>11, SamePreviews DEF SameDocument, SameForm
<1>15. BitsMarked(c) /\ PreviewFollows(c)
  BY <1>10, <1>11, <1>14 DEF BitsMarked, PreviewFollows, SameForm
<1>16. QED
  BY <1>6, <1>12, <1>13, <1>15, ChangedKept DEF BuilderInv

LEMMA DbsAre ==
  /\ NoDb \in Db /\ NamedOnce(NoDb)
  /\ LoadedDb \in Db /\ NamedOnce(LoadedDb)
<1>1. NoMessage \in Message /\ Len(NoMessage.sigs) = 0
  BY DEF NoMessage, Message, Labels
<1>2. NoDb \in Db /\ \A id \in BuildIds : NoDb[id] = NoMessage
  BY <1>1 DEF NoDb, Db
<1> DEFINE s1 == [name |-> "a", start |-> 0, len |-> 8, order |-> "le"]
           s2 == [name |-> "b", start |-> 60, len |-> 4, order |-> "be"]
           sigs == <<s1, s2>>
           m == [label |-> "given", sigs |-> sigs]
<1>3. s1 \in Sig /\ s2 \in Sig /\ s1.name = "a" /\ s2.name = "b"
  BY DEF Sig, SignalNames, Starts, Lengths
<1>4. LoadedDb = [NoDb EXCEPT ![1] = m]
  BY DEF LoadedDb
<1> HIDE DEF s1, s2
<1>5. /\ sigs \in Seq(Sig) /\ Len(sigs) = 2 /\ sigs[1] = s1 /\ sigs[2] = s2
  BY <1>3
<1> HIDE DEF sigs
<1>6. m \in Message /\ m.sigs = sigs
  BY <1>5 DEF Message, Labels
<1> HIDE DEF m
<1>7. 1 \in BuildIds
  BY DEF BuildIds
<1>8. LoadedDb \in Db /\ \A id \in BuildIds : LoadedDb[id] = IF id = 1 THEN m ELSE NoMessage
  BY <1>2, <1>4, <1>6, <1>7 DEF Db
<1>9. NamedOnce(NoDb)
  BY <1>1, <1>2 DEF NamedOnce
<1>10. NamesOnce(sigs)
  BY <1>3, <1>5 DEF NamesOnce
<1>11. NamedOnce(LoadedDb)
  BY <1>1, <1>6, <1>8, <1>10 DEF NamedOnce, NamesOnce
<1>12. QED
  BY <1>2, <1>8, <1>9, <1>11

\* Another DBC is loaded: nothing is selected.
LEMMA LoadBuilderKept ==
  ASSUME BuilderInv, LoadBuilder
  PROVE  BuilderInv'
<1>1. PICK db \in {LoadedDb, NoDb} :
        builder' = TableRefreshed([builder EXCEPT !.db = db, !.others = LoadedCopies(db), !.sel = 0,
          !.stale = TRUE, !.list = {id \in BuildIds : db[id] # NoMessage \/ builder.dlc[id] > 0}])
  BY DEF LoadBuilder
<1>2. BuilderTypes(builder) /\ IsBuilder(builder)
  BY DEF BuilderInv, BuilderGood, BuilderTypes
<1>3. db \in Db /\ NamedOnce(db)
  BY DbsAre
<1> DEFINE list == {id \in BuildIds : db[id] # NoMessage \/ builder.dlc[id] > 0}
           yes == TRUE
           a == [builder EXCEPT !.db = db]
           copies == LoadedCopies(db)
           b == [a EXCEPT !.others = copies]
           c == [b EXCEPT !.sel = 0]
           d == [c EXCEPT !.stale = yes]
           e == [d EXCEPT !.list = list]
           r == TableRefreshed(e)
<1>4. builder' = r
  BY <1>1
<1>5. list \subseteq BuildIds /\ copies.told = db /\ copies.protocols = db
  BY DEF LoadedCopies
<1> HIDE DEF list, yes, copies
<1>6. /\ IsBuilder(a) /\ SameForm(builder, a) /\ SameEdit(builder, a) /\ a.db = db
      /\ a.dlc = builder.dlc /\ a.field = builder.field
  BY <1>2, DbSet
<1> HIDE DEF a
<1>7. /\ IsBuilder(b) /\ SameForm(a, b) /\ SameEdit(a, b) /\ b.db = a.db
      /\ b.dlc = a.dlc /\ b.field = a.field /\ b.others = copies
  BY <1>6 DEF IsBuilder, SameForm, SameEdit
<1> HIDE DEF b
<1>8. /\ IsBuilder(c) /\ SameForm(b, c) /\ SameEdit(b, c) /\ c.db = b.db
      /\ c.dlc = b.dlc /\ c.field = b.field /\ c.others = b.others /\ c.sel = 0
  BY <1>7 DEF IsBuilder, SameForm, SameEdit
<1> HIDE DEF c
<1>9. /\ IsBuilder(d) /\ d.form = c.form /\ d.chosen = c.chosen /\ SameEdit(c, d)
      /\ d.db = c.db /\ d.dlc = c.dlc /\ d.field = c.field /\ d.others = c.others
      /\ d.sel = c.sel /\ d.stale = yes
  BY <1>8 DEF IsBuilder, SameEdit
<1> HIDE DEF d
<1>10. /\ IsBuilder(e) /\ SameForm(d, e) /\ SameEdit(d, e)
       /\ e.db = d.db /\ e.dlc = d.dlc /\ e.field = d.field /\ e.others = d.others
       /\ e.sel = d.sel /\ e.list = list
  BY <1>9 DEF IsBuilder, SameForm, SameEdit
<1> HIDE DEF e
<1>11. /\ IsBuilder(r) /\ SameDocument(e, r) /\ SameForm(e, r) /\ SameEdit(e, r)
       /\ r.table = TableOf(e)
  BY <1>10, Refreshing
<1> HIDE DEF r
<1>12. /\ r.db = db /\ r.others = copies /\ r.sel = 0 /\ r.stale /\ r.list = list
       /\ r.dlc = builder.dlc /\ r.field = builder.field /\ r.form = builder.form
       /\ r.chosen = builder.chosen /\ r.editing = builder.editing
  BY <1>6, <1>7, <1>8, <1>9, <1>10, <1>11 DEF SameDocument, SameForm, SameEdit, yes
<1>13. BuilderTypes(r)
  BY <1>2, <1>3, <1>5, <1>11, <1>12 DEF BuilderTypes
<1>14. EditsOpened(r) /\ NamedOnce(r.db) /\ OthersHave(r) /\ PreviewFollows(r)
  BY <1>3, <1>5, <1>12 DEF EditsOpened, OthersHave, PreviewFollows
<1>15. BitsMarked(r)
  BY <1>12 DEF BuilderInv, BuilderGood, BitsMarked
<1>16. SigsOf(r) = SigsOf(e)
  BY <1>11 DEF SigsOf, SameDocument
<1>17. TableOf(r) = TableOf(e)
  BY <1>11, <1>16, SameTables DEF SameDocument
<1>18. TableFollows(r) /\ RowsNamed(r)
  BY <1>11, <1>16, <1>17, TableNames DEF TableFollows, RowsNamed
<1>19. QED
  BY <1>4, <1>13, <1>14, <1>15, <1>18 DEF BuilderInv, BuilderGood

LEMMA BuilderKept ==
  ASSUME BuilderInv, BuilderNext
  PROVE  BuilderInv'
<1>1. CASE BuilderFrame \/ SelectBuildId \/ DragBits \/ SpinBits \/ SetOrder \/ SetName
  BY <1>1, FrameShown, SelectKept, BitsKept, FieldsKept
<1>2. CASE RenameMessage \/ AddSignal \/ EditSignal \/ CancelEdit \/ DeleteSignal
  BY <1>2, RenameKept, AddSignalKept, EditsKept, DeleteSignalKept
<1>3. CASE LoadBuilder \/ TableTick
  BY <1>3, LoadBuilderKept, TickKept
<1>4. QED
  BY <1>1, <1>2, <1>3 DEF BuilderNext, BuilderReacts

LEMMA BuilderReached == BuilderInv => BuilderSound
<1> SUFFICES ASSUME BuilderInv PROVE BuilderSound
  OBVIOUS
<1>1. builder.db \in Db /\ builder.sel \in {0} \cup BuildIds
  BY DEF BuilderInv, BuilderGood, BuilderTypes
<1>2. builder.editing # 0 /\ builder.sel # 0 /\ ~builder.moved =>
        /\ builder.editing \in DOMAIN SigsOf(builder)
        /\ SigsOf(builder)[builder.editing].name = builder.opened
  BY <1>1, SigsAre DEF SigsOf, BuilderInv, BuilderGood, EditsOpened
<1>3. ASSUME NEW id \in BuildIds
      PROVE  /\ \A i, j \in DOMAIN builder.db[id].sigs :
                  builder.db[id].sigs[i].name = builder.db[id].sigs[j].name => i = j
             /\ builder.db[id].sigs = builder.others.told[id].sigs
             /\ builder.others.since = "load" =>
                  builder.db[id].sigs = builder.others.protocols[id].sigs
  BY <1>1 DEF Db, Message, BuilderInv, BuilderGood, NamedOnce, OthersHave
<1>4. QED
  BY <1>2, <1>3 DEF BuilderSound, BuilderInv, BuilderGood, TableFollows, RowsNamed, BitsMarked,
     PreviewFollows

\* A project and a DBC under construction are what was edited (ProjectPages, BuilderPage),
\* through any order of opening, editing, saving, and of frames, edits and deletions.
THEOREM DocumentsFollow == Spec => []DocumentsSound
<1> DEFINE DocumentsInv == /\ On("project") => ProjectInv
                           /\ On("builder") => BuilderInv
<1>1. Init => DocumentsInv
  <2>1. ProjectInit => ProjectInv
    <3>1. SUFFICES ASSUME ProjectInit PROVE ProjectInv
      OBVIOUS
    <3>2. << >> \in Seq(ProjectPaths) /\ Len(<< >>) = 0
      OBVIOUS
    <3> DEFINE none == << >>
               At(o, c, held) ==
                 [path |-> NoProject, title |-> NoProject, now |-> Blank, dbcs |-> {"d"},
                  edited |-> {}, lost |-> {}, recent |-> none, offered |-> o, combo |-> c,
                  index |-> 500, given |-> 0, disk |-> held]
    <3>3. PICK o \in Offers, rate \in BitRates :
            \E c \in IF "vcan0" \in o THEN {"vcan0"} ELSE o : project = At(o, c, FirstFiles(rate))
      BY <3>1, ZenonT(40) DEF ProjectInit
    <3>4. PICK c \in ProjectIfaces : project = At(o, c, FirstFiles(rate))
      BY <3>3, OffersAssumption
    <3> DEFINE held == FirstFiles(rate)
    <3>5. held \in [ProjectPaths -> Settings \cup {NoProjectFile}] /\ Blank \in Settings
      BY DEF Settings, Blank, ProjectIfaces, BitRates, ListedRates, FirstFiles
    <3>6. none \in Seq(ProjectPaths) /\ Len(none) = 0
      BY <3>2
    <3>7. project = At(o, c, held)
      BY <3>4
    <3> HIDE DEF none, held
    <3>8. o \subseteq ProjectIfaces /\ 500 \in ListedRates
      BY OffersAssumption DEF ListedRates
    <3>9. project \in ProjectType
      BY <3>5, <3>6, <3>7, <3>8 DEF ProjectType
    <3>10. ListedOnce(none)
      BY <3>6, RecentAssumption DEF ListedOnce, Distinct
    <3>11. UsesFile(project) /\ RateRuns(project)
      BY <3>7 DEF UsesFile, RateRuns, Blank
    <3>12. QED
      BY <3>7, <3>9, <3>10, <3>11 DEF ProjectInv, ProjectGood
  <2>2. BuilderInit => BuilderInv
    <3>1. SUFFICES ASSUME BuilderInit PROVE BuilderGood(builder)
      BY DEF BuilderInv
    <3> DEFINE none == << >>
               dlc == [i \in BuildIds |-> 0]
               form == [name |-> NoName, start |-> 0, len |-> 8, order |-> "le"]
               copies == LoadedCopies(NoDb)
               no == FALSE
               yes == TRUE
    <3>2. /\ none \in Seq(Sig) /\ Len(none) = 0 /\ DOMAIN none = {}
          /\ dlc \in [BuildIds -> {0, 1, 8}] /\ form \in Sig
      BY DEF Sig, Starts, Lengths
    <3>3. NoDb \in Db /\ \A id \in BuildIds : NoDb[id].sigs = none
      BY DEF NoDb, NoMessage, Db, Message, Labels
    <3>3a. copies.told = NoDb /\ copies.protocols = NoDb
      BY DEF LoadedCopies
    <3> HIDE DEF none, dlc, form, copies, no, yes
    <3>4. builder =
            [list |-> {}, sel |-> 0, dlc |-> dlc, db |-> NoDb, others |-> copies, form |-> form,
             field |-> NoName, chosen |-> {}, editing |-> 0, table |-> none, pending |-> no,
             preview |-> "none", opened |-> NoName, moved |-> no, stale |-> yes]
      BY <3>1 DEF BuilderInit, none, dlc, form, copies, no, yes
    <3>5. /\ IsBuilder(builder) /\ builder.list = {} /\ builder.sel = 0 /\ builder.dlc = dlc
          /\ builder.db = NoDb /\ builder.others = copies /\ builder.form = form
          /\ builder.field = NoName /\ builder.chosen = {} /\ builder.editing = 0
          /\ builder.table = none /\ builder.stale = yes
      BY <3>4 DEF IsBuilder
    <3>6. BuilderTypes(builder)
      BY <3>2, <3>3, <3>5 DEF BuilderTypes, Labels
    <3>7. EditsOpened(builder) /\ BitsMarked(builder) /\ OthersHave(builder) /\ PreviewFollows(builder)
      BY <3>3a, <3>5 DEF EditsOpened, BitsMarked, OthersHave, PreviewFollows, yes
    <3>8. NamedOnce(builder.db)
      BY <3>2, <3>3, <3>5 DEF NamedOnce
    <3>9. SigsOf(builder) = none
      BY <3>5 DEF SigsOf, none
    <3>10. TableFollows(builder) /\ RowsNamed(builder)
      BY <3>2, <3>9, <3>5 DEF TableOf, none, TableFollows, RowsNamed
    <3>11. QED
      BY <3>6, <3>7, <3>8, <3>10 DEF BuilderGood
  <2>3. QED
    BY <2>1, <2>2 DEF Init
<1>2. DocumentsInv /\ [Next]_pagesVars => DocumentsInv'
  BY PageSteps, ProjectKept, BuilderKept DEF ProjectInv, BuilderInv, On
<1>3. DocumentsInv => DocumentsSound
  BY ProjectReached, BuilderReached DEF DocumentsSound
<1>4. QED
  BY <1>1, <1>2, <1>3, PTL DEF Spec

-------------------------------------------------------------------------------
LEMMA RowsAre ==
  ASSUME NEW d, d.capA \in Captures, d.capB \in Captures
  PROVE  /\ DiffRows(d) \in SUBSET ((1..2) \X Verdicts)
         /\ \A r \in DiffRows(d) : r[2] = Status(d.capA[r[1]], d.capB[r[1]])
<1>1. \A i \in 1..2 : Status(d.capA[i], d.capB[i]) \in Verdicts
  BY DEF Status, Verdicts
<1>2. ASSUME NEW r \in DiffRows(d)
      PROVE  r \in (1..2) \X Verdicts /\ r[2] = Status(d.capA[r[1]], d.capB[r[1]])
  <2>1. PICK i \in 1..2 : r = <<i, Status(d.capA[i], d.capB[i])>>
    BY <1>2 DEF DiffRows
  <2>2. QED
    BY <1>1, <2>1
<1>3. QED
  BY <1>2

LEMMA DiffKept ==
  ASSUME DiffInv, DiffNext
  PROVE  DiffInv'
<1>1. diff \in DiffType
  BY DEF DiffInv
<1>2. NoCapture \in Captures
  BY DEF NoCapture, Captures
<1>3. CASE OpenCapture
  <2>1. PICK f \in DiffPaths : \/ diff' = [diff EXCEPT !.a = f, !.capA = NoCapture]
                               \/ diff' = [diff EXCEPT !.b = f, !.capB = NoCapture]
    BY <1>3 DEF OpenCapture
  <2>2. /\ diff' \in DiffType /\ ~Read(diff') /\ diff'.rows = diff.rows /\ diff'.of = diff.of
        /\ diff'.halved = diff.halved
    BY <1>1, <1>2, <2>1 DEF DiffType, Read
  <2>3. QED
    BY <2>2 DEF DiffInv, Judged, FilledAsAsked
<1>4. CASE Compare
  <2>1. PICK readable \in BOOLEAN :
          LET d == [diff EXCEPT !.capA = diff.files[diff.a], !.halved = FALSE,
                                !.of = <<diff.files[diff.a], diff.files[diff.b]>>,
                                !.capB = IF readable THEN diff.files[diff.b] ELSE NoCapture] IN
          diff' = [d EXCEPT !.rows = IF readable THEN DiffRows(d) ELSE {}]
    BY <1>4 DEF Compare
  <2> DEFINE x == diff.files[diff.a]
             y == diff.files[diff.b]
             no == FALSE
             z == IF readable THEN y ELSE NoCapture
             d == [[[[diff EXCEPT !.capA = x] EXCEPT !.halved = no] EXCEPT !.of = <<x, y>>]
                    EXCEPT !.capB = z]
             rows == IF readable THEN DiffRows(d) ELSE {}
  <2>2. x \in Captures /\ y \in Captures
    BY <1>1, <1>4 DEF DiffType, Compare
  <2>3. diff' = [d EXCEPT !.rows = rows]
    BY <2>1
  <2> HIDE DEF x, y, no
  <2>4. z \in Captures
    BY <1>2, <2>2
  <2>5. readable => z = y
    OBVIOUS
  <2> HIDE DEF z
  <2>6. no = FALSE
    BY DEF no
  <2>7. /\ d \in DiffType /\ d.capA = x /\ d.capB = z /\ d.of = <<x, y>> /\ d.halved = no
    BY <1>1, <2>2, <2>4, <2>6 DEF DiffType
  <2>8. readable \/ z = NoCapture
    BY DEF z
  <2> HIDE DEF d
  <2>9. /\ DiffRows(d) \in SUBSET ((1..2) \X Verdicts)
        /\ \A r \in DiffRows(d) : r[2] = Status(x[r[1]], z[r[1]])
    BY <2>2, <2>4, <2>7, RowsAre
  <2>10. /\ rows \in SUBSET ((1..2) \X Verdicts)
         /\ \A r \in rows : r[2] = Status(x[r[1]], y[r[1]])
         /\ readable => rows = DiffRows(d)
    BY <2>5, <2>9
  <2> HIDE DEF rows
  <2>11. /\ diff' \in DiffType /\ diff'.capA = x /\ diff'.capB = z /\ diff'.of = <<x, y>>
         /\ diff'.rows = rows /\ diff'.diffOnly = d.diffOnly /\ diff'.commonOnly = d.commonOnly
    BY <2>3, <2>7, <2>10 DEF DiffType
  <2>12. DiffRows(diff') = DiffRows(d)
    BY <2>7, <2>11 DEF DiffRows
  <2>13. Judged(diff')
    BY <2>10, <2>11 DEF Judged
  <2>14. FilledAsAsked(diff')
    BY <2>5, <2>8, <2>10, <2>11, <2>12 DEF FilledAsAsked, Read
  <2>15. QED
    BY <2>11, <2>13, <2>14 DEF DiffInv
<1>5. CASE DiffFilterChanged
  <2>1. PICK d \in {[diff EXCEPT !.diffOnly = ~@], [diff EXCEPT !.commonOnly = ~@]} :
          diff' = IF d.capA = NoCapture /\ d.capB = NoCapture THEN d
                  ELSE [d EXCEPT !.rows = DiffRows(d), !.halved = NoCapture \in {d.capA, d.capB}]
    BY <1>5 DEF DiffFilterChanged
  <2>2. /\ d \in DiffType /\ d.capA = diff.capA /\ d.capB = diff.capB /\ d.of = diff.of
        /\ d.rows = diff.rows /\ d.halved = diff.halved
    <3> DEFINE p == ~diff.diffOnly
               q == ~diff.commonOnly
    <3>1. p \in BOOLEAN /\ q \in BOOLEAN
      OBVIOUS
    <3>2. d = [diff EXCEPT !.diffOnly = p] \/ d = [diff EXCEPT !.commonOnly = q]
      BY <2>1
    <3> HIDE DEF p, q
    <3>3. QED
      BY <1>1, <3>1, <3>2 DEF DiffType
  <2>3. CASE d.capA = NoCapture /\ d.capB = NoCapture
    BY <2>1, <2>3, <2>2 DEF Read, DiffInv, Judged, FilledAsAsked
  <2>4. CASE ~(d.capA = NoCapture /\ d.capB = NoCapture)
    <3> DEFINE rows == DiffRows(d)
               halved == NoCapture \in {d.capA, d.capB}
    <3>1. diff' = [[d EXCEPT !.rows = rows] EXCEPT !.halved = halved]
      BY <2>1, <2>4
    <3>2. /\ rows \in SUBSET ((1..2) \X Verdicts)
          /\ \A r \in rows : r[2] = Status(d.capA[r[1]], d.capB[r[1]])
      BY <2>2, RowsAre DEF DiffType
    <3>3. halved \in BOOLEAN /\ (halved <=> ~Read(d))
      BY DEF Read
    <3> HIDE DEF rows, halved
    <3>4. /\ diff' \in DiffType /\ diff'.capA = d.capA /\ diff'.capB = d.capB /\ diff'.of = d.of
          /\ diff'.rows = rows /\ diff'.diffOnly = d.diffOnly
          /\ diff'.commonOnly = d.commonOnly /\ diff'.halved = halved
      BY <2>2, <3>1, <3>2, <3>3 DEF DiffType
    <3>5. DiffRows(diff') = rows
      BY <3>4 DEF DiffRows, rows
    <3>6. Read(d) => d.of = <<d.capA, d.capB>>
      BY <2>2 DEF DiffInv, FilledAsAsked, Read
    <3>7. Judged(diff')
      BY <3>2, <3>3, <3>4, <3>6 DEF Judged
    <3>8. FilledAsAsked(diff')
      BY <3>4, <3>5, <3>6 DEF FilledAsAsked, Read
    <3>9. QED
      BY <3>4, <3>7, <3>8 DEF DiffInv
  <2>5. QED
    BY <2>3, <2>4
<1>6. QED
  BY <1>3, <1>4, <1>5 DEF DiffNext

LEMMA DiffReached == DiffInv => DiffSound
<1> SUFFICES ASSUME DiffInv PROVE DiffSound
  OBVIOUS
<1> DEFINE x == diff.of[1]
           y == diff.of[2]
<1>1. diff \in DiffType /\ x \in Captures /\ y \in Captures
  BY DEF DiffInv, DiffType
<1>2. diff.halved \/ \A r \in diff.rows : r[2] = Status(x[r[1]], y[r[1]])
  BY DEF DiffInv, Judged
<1>3. ASSUME Read(diff)
      PROVE  {r[1] : r \in diff.rows} =
               {i \in 1..2 : /\ {x[i], y[i]} # {0}
                             /\ diff.commonOnly => 0 \notin {x[i], y[i]}
                             /\ diff.diffOnly => x[i] # y[i]}
  <2>1. diff.rows = DiffRows(diff) /\ diff.capA = x /\ diff.capB = y
    BY <1>1, <1>3 DEF DiffInv, FilledAsAsked, DiffType
  <2> HIDE DEF x, y
  <2> DEFINE Shown == {j \in 1..2 : /\ x[j] + y[j] > 0
                                    /\ ~(diff.commonOnly /\ 0 \in {x[j], y[j]})
                                    /\ ~(diff.diffOnly /\ x[j] = y[j])}
  <2>2. diff.rows = {<<i, Status(x[i], y[i])>> : i \in Shown}
    BY <2>1 DEF DiffRows
  <2>3. \A i \in 1..2 : x[i] \in 0..2 /\ y[i] \in 0..2
    BY <1>1 DEF Captures
  <2>4. \A i \in 1..2 : x[i] + y[i] > 0 <=> {x[i], y[i]} # {0}
    BY <2>3
  <2>5. ASSUME NEW i \in 1..2
        PROVE  i \in Shown <=> /\ {x[i], y[i]} # {0}
                               /\ diff.commonOnly => 0 \notin {x[i], y[i]}
                               /\ diff.diffOnly => x[i] # y[i]
    BY <2>4
  <2>6. Shown \subseteq 1..2
    OBVIOUS
  <2> HIDE DEF Shown
  <2>7. {r[1] : r \in diff.rows} = Shown
    <3>1. ASSUME NEW r \in diff.rows PROVE r[1] \in Shown
      BY <2>2
    <3>2. ASSUME NEW i \in Shown PROVE \E r \in diff.rows : r[1] = i
      <4>1. <<i, Status(x[i], y[i])>> \in diff.rows
        BY <2>2
      <4>2. QED
        BY <4>1
    <3>3. QED
      BY <3>1, <3>2
  <2>8. QED
    BY <2>5, <2>6, <2>7
<1>4. QED
  BY <1>2, <1>3 DEF DiffSound, Read

LEMMA DiffStarts ==
  ASSUME DiffInit
  PROVE  DiffInv
<1>1. PICK x \in {<<1, 0>>, <<1, 2>>}, y \in {<<0, 2>>, <<1, 1>>} :
        diff = [files |-> [f \in DiffPaths |-> IF f = "x" THEN x ELSE y], a |-> "none",
                b |-> "none", capA |-> NoCapture, capB |-> NoCapture, diffOnly |-> FALSE,
                commonOnly |-> FALSE, rows |-> {}, of |-> <<x, y>>, halved |-> FALSE]
  BY DEF DiffInit
<1>2. x \in Captures /\ y \in Captures /\ NoCapture \in Captures
  BY DEF Captures, NoCapture
<1> DEFINE files == [f \in DiffPaths |-> IF f = "x" THEN x ELSE y]
<1>3. files \in [DiffPaths -> Captures]
  BY <1>2
<1> HIDE DEF files
<1>4. diff = [files |-> files, a |-> "none",
                b |-> "none", capA |-> NoCapture, capB |-> NoCapture, diffOnly |-> FALSE,
                commonOnly |-> FALSE, rows |-> {}, of |-> <<x, y>>, halved |-> FALSE]
  BY <1>1 DEF files
<1>5. diff \in DiffType /\ diff.rows = {} /\ diff.capA = NoCapture
  BY <1>2, <1>3, <1>4 DEF DiffType
<1>6. QED
  BY <1>5 DEF DiffInv, Judged, FilledAsAsked, Read

-------------------------------------------------------------------------------
(* Induction and recursion over the indices of a sequence *)

LEMMA NatSetInduction ==
  ASSUME NEW T \in SUBSET Nat, 0 \in T, \A n \in T : n + 1 \in T
  PROVE  T = Nat
<1> DEFINE less == OpToRel(<, Nat)
           U == Nat \ T
<1>1. IsWellFoundedOn(less, Nat)
  BY NatLessThanWellFounded
<1>2. \A m \in Nat, n \in Nat : m < n => <<m, n>> \in less
  BY DEF OpToRel
<1> HIDE DEF less
<1>3. SUFFICES ASSUME U # {} PROVE FALSE
  OBVIOUS
<1>4. U \subseteq Nat
  OBVIOUS
<1>5. PICK n \in U : \A m \in U : ~(<<m, n>> \in less)
  BY ONLY <1>1, <1>3, <1>4, WFMin
<1>6. n \in Nat /\ n # 0 /\ n - 1 \in Nat /\ n - 1 < n
  OBVIOUS
<1>7. n - 1 \in T
  BY <1>2, <1>5, <1>6
<1>8. (n - 1) + 1 = n
  BY <1>6
<1>9. n \in T
  BY <1>7, <1>8
<1>10. QED
  BY <1>9

LEMMA RangeInduction ==
  ASSUME NEW n \in Nat, NEW T, 0 \in T, \A k \in 0..(n - 1) : k \in T => k + 1 \in T
  PROVE  0..n \subseteq T
<1> DEFINE U == {k \in Nat : k <= n => k \in T}
<1>1. U \in SUBSET Nat /\ 0 \in U
  OBVIOUS
<1>2. ASSUME NEW k \in U PROVE k + 1 \in U
  OBVIOUS
<1>3. U = Nat
  <2> HIDE DEF U
  <2>1. QED
    BY <1>1, <1>2, NatSetInduction
<1>4. QED
  BY <1>3

LEMMA RecursionExists ==
  ASSUME NEW S, NEW e, NEW n, NEW G, e \in S, n \in Nat, G \in [S \X (1..n) -> S]
  PROVE  \E f \in [0..n -> S] : Follows(f, e, n, G)
<1> DEFINE Upto(m) == {f \in [0..m -> S] : f[0] = e /\ \A k \in 1..m : f[k] = G[<<f[k - 1], k>>]}
           T == {m \in Nat : m <= n => Upto(m) # {}}
<1>1. 0 \in T
  <2>1. [k \in 0..0 |-> e] \in Upto(0)
    OBVIOUS
  <2>2. QED
    BY <2>1
<1>2. ASSUME NEW m \in T, m + 1 <= n PROVE Upto(m + 1) # {}
  <2>1. m \in Nat /\ m <= n /\ Upto(m) # {}
    BY <1>2
  <2>2. PICK f \in Upto(m) : TRUE
    BY <2>1
  <2>3. /\ f \in [0..m -> S] /\ f[0] = e /\ f[m] \in S /\ m + 1 \in 1..n
        /\ \A k \in 1..m : f[k] = G[<<f[k - 1], k>>]
    BY <1>2, <2>1
  <2> DEFINE v == G[<<f[m], m + 1>>]
             g == [k \in 0..(m + 1) |-> IF k = m + 1 THEN v ELSE f[k]]
  <2>4. v \in S
    BY <2>3
  <2> HIDE DEF v
  <2>5. g \in [0..(m + 1) -> S] /\ g[m + 1] = v /\ \A k \in 0..m : g[k] = f[k]
    BY <2>1, <2>3, <2>4
  <2> HIDE DEF g
  <2>6. g[0] = e
    BY <2>1, <2>3, <2>5
  <2>7. ASSUME NEW k \in 1..(m + 1) PROVE g[k] = G[<<g[k - 1], k>>]
    <3>1. CASE k = m + 1
      <4>1. k - 1 = m /\ m \in 0..m
        BY <2>1, <3>1
      <4>2. QED
        BY <2>5, <3>1, <4>1 DEF v
    <3>2. CASE k # m + 1
      BY <2>1, <3>2, <2>3, <2>5
    <3>3. QED
      BY <3>1, <3>2
  <2>8. g \in Upto(m + 1)
    BY <2>5, <2>6, <2>7
  <2>9. QED
    BY <2>8
<1>3. \A m \in T : m + 1 \in T
  BY <1>2
<1> DEFINE P == Upto(n) # {}
<1>4. T \in SUBSET Nat
  OBVIOUS
<1>5. n \in T => P
  OBVIOUS
<1>6. P => \E f \in [0..n -> S] : Follows(f, e, n, G)
  BY DEF Follows
<1> HIDE DEF T, P
<1>7. T = Nat
  BY <1>1, <1>3, <1>4, NatSetInduction
<1>8. QED
  BY <1>5, <1>6, <1>7

-------------------------------------------------------------------------------
(* Views *)

LEMMA EndsAre ==
  ASSUME NEW lengths \in Seq(FieldLengths)
  PROVE  /\ FieldEnds(lengths) \in [0..Len(lengths) -> Nat] /\ FieldEnds(lengths)[0] = 0
         /\ \A k \in 1..Len(lengths) : FieldEnds(lengths)[k] = FieldEnds(lengths)[k - 1] + lengths[k]
<1> DEFINE n == Len(lengths)
           G == [x \in Nat \X (1..n) |-> x[1] + lengths[x[2]]]
           ends[k \in 0..n] == IF k = 0 THEN 0 ELSE ends[k - 1] + lengths[k]
<1>1. n \in Nat /\ \A k \in 1..n : lengths[k] \in Nat
  <2>1. \A l \in FieldLengths : l \in Nat
    BY DEF FieldLengths
  <2>2. QED
    BY <2>1
<1>2. 0 \in Nat /\ G \in [Nat \X (1..n) -> Nat]
  BY <1>1
<1>3. PICK h \in [0..n -> Nat] : Follows(h, 0, n, G)
  <2> HIDE DEF G, n
  <2>1. QED
    BY ONLY <1>1, <1>2, RecursionExists
<1>4. /\ h[0] = 0
      /\ \A k \in 1..n : h[k] = h[k - 1] + lengths[k]
  <2>1. \A k \in 1..n : k - 1 \in 0..n
    BY <1>1
  <2>2. QED
    BY <1>3, <2>1 DEF Follows
<1>5. h = [k \in 0..n |-> IF k = 0 THEN 0 ELSE h[k - 1] + lengths[k]]
  BY <1>1, <1>3, <1>4
<1>6. ends = [k \in 0..n |-> IF k = 0 THEN 0 ELSE ends[k - 1] + lengths[k]]
  BY <1>5 DEF ends
<1>7. FieldEnds(lengths) = ends
  BY DEF FieldEnds
<1> HIDE DEF ends, G
<1>8. /\ DOMAIN ends = 0..n /\ ends[0] = 0
      /\ \A k \in 1..n : ends[k] = ends[k - 1] + lengths[k]
  BY <1>6, <1>1
<1>9. \A k \in 0..n : ends[k] \in Nat
  <2> DEFINE T == {k \in 0..n : ends[k] \in Nat}
  <2>1. 0 \in T
    BY ONLY <1>1, <1>8
  <2>2. ASSUME NEW k \in 0..(n - 1), k \in T PROVE k + 1 \in T
    BY <1>1, <2>2, <1>8
  <2> HIDE DEF T
  <2>3. 0..n \subseteq T
    BY ONLY <1>1, <2>1, <2>2, RangeInduction
  <2>4. QED
    BY ONLY <2>3 DEF T
<1>10. ends \in [0..n -> Nat]
  BY <1>6, <1>9
<1>11. QED
  BY <1>7, <1>8, <1>10

LEMMA FieldsCounted ==
  ASSUME NEW dlc \in 0..8, NEW lengths \in Seq(FieldLengths), NEW k \in 0..Len(lengths)
  PROVE  /\ IsFiniteSet(FieldsUpTo(dlc, lengths, k))
         /\ Cardinality(FieldsUpTo(dlc, lengths, k)) \in Nat
         /\ \A i \in FieldsUpTo(dlc, lengths, k) :
              Cardinality(FieldsUpTo(dlc, lengths, i)) \in 1..Cardinality(FieldsUpTo(dlc, lengths, k))
<1> DEFINE F(i) == FieldsUpTo(dlc, lengths, i)
<1>1. ASSUME NEW i \in 0..Len(lengths)
      PROVE  IsFiniteSet(F(i)) /\ Cardinality(F(i)) \in Nat
  <2>1. IsFiniteSet(1..i)
    BY FS_Interval
  <2>2. F(i) \subseteq 1..i
    BY DEF FieldsUpTo
  <2> HIDE DEF F
  <2>3. IsFiniteSet(F(i))
    BY <2>1, <2>2, FS_Subset
  <2>4. QED
    BY <2>3, FS_CardinalityType
<1>2. ASSUME NEW i \in F(k)
      PROVE  Cardinality(F(i)) \in 1..Cardinality(F(k))
  <2>1. /\ i \in 1..Len(lengths) /\ F(i) \subseteq F(k) /\ i \in F(i)
    BY <1>2 DEF FieldsUpTo
  <2>2. i \in 0..Len(lengths) /\ k \in 0..Len(lengths)
    BY <2>1
  <2> HIDE DEF F
  <2>3. /\ IsFiniteSet(F(i)) /\ Cardinality(F(i)) \in Nat
        /\ IsFiniteSet(F(k)) /\ Cardinality(F(k)) \in Nat
    BY <1>1, <2>2
  <2>4. Cardinality(F(i)) <= Cardinality(F(k))
    BY <2>1, <2>3, FS_Subset
  <2>5. Cardinality(F(i)) # 0
    BY <2>1, <2>3, FS_EmptySet
  <2>6. QED
    BY <2>3, <2>4, <2>5
<1>3. QED
  BY <1>1, <1>2

LEMMA OffsetInByte ==
  /\ \A x \in 0..255 : x \in Nat
  /\ \A x \in Nat : x < 256 => x % 256 = x
  /\ \A x \in Nat, dlc \in 0..8 : x <= 8 * dlc => x \in 0..255
<1>1. \A x \in 0..255 : x \in Nat
  OBVIOUS
<1>2. \A x \in Nat : x < 256 => x % 256 = x
  OBVIOUS
<1>3. \A x \in Nat, dlc \in 0..8 : x <= 8 * dlc => x \in 0..255
  OBVIOUS
<1>4. QED
  BY <1>1, <1>2, <1>3

LEMMA NextFieldGood ==
  ASSUME NEW dlc \in 0..8, NEW lengths \in Seq(FieldLengths), NEW k \in 0..(Len(lengths) - 1),
         EndsFit(dlc, lengths), NEW state, PdoGood(dlc, lengths, k, state)
  PROVE  PdoGood(dlc, lengths, k + 1, NextField(state, lengths[k + 1]))
<1> DEFINE n == Len(lengths)
           ends == FieldEnds(lengths)
           l == lengths[k + 1]
           F(i) == FieldsUpTo(dlc, lengths, i)
           end == (state.at + l) % 256
           next == NextField(state, l)
<1>1. /\ n \in Nat /\ k \in 0..n /\ k + 1 \in 1..n /\ k + 1 \in 0..n /\ (k + 1) - 1 = k
      /\ l \in FieldLengths /\ l \in Nat
  <2>1. \A x \in FieldLengths : x \in Nat
    BY DEF FieldLengths
  <2>2. QED
    BY <2>1
<1>2. ends[k] \in Nat /\ ends[k + 1] \in Nat /\ ends[k + 1] = ends[k] + l
  BY <1>1, EndsAre
<1>3. state \in PdoState /\ state.dlc = dlc /\ state.at \in 0..255 /\ state.done \in BOOLEAN
  BY DEF PdoGood, PdoState
<1>4. F(k + 1) = IF l > 0 /\ ends[k + 1] <= 8 * dlc THEN F(k) \cup {k + 1} ELSE F(k)
  BY <1>1 DEF FieldsUpTo
<1>5. /\ next = IF state.done \/ l = 0 THEN state
                ELSE IF end > 8 * dlc THEN [state EXCEPT !.done = TRUE]
                ELSE [state EXCEPT !.at = end, !.out = Append(state.out, <<state.at, l>>)]
  BY <1>3 DEF NextField, PdoState
<1>6. ~state.done => end = ends[k + 1] /\ state.at = ends[k]
  <2>1. ASSUME ~state.done PROVE end = state.at + l
    <3> DEFINE sum == state.at + l
    <3>1. sum = ends[k + 1] /\ ends[k] <= 8 * dlc
      BY <1>2, <2>1 DEF PdoGood
    <3>2. sum \in Nat /\ sum < 256
      BY <1>1, <1>2, <3>1 DEF EndsFit
    <3>3. end = sum % 256
      OBVIOUS
    <3> HIDE DEF sum, end
    <3>4. end = sum
      BY <3>2, <3>3, OffsetInByte
    <3>5. QED
      BY <3>4 DEF sum
  <2>2. QED
    BY <1>2, <2>1 DEF PdoGood
<1> HIDE DEF ends, l, end, next, F, n
<1>7. CASE state.done \/ l = 0
  <2>0. next = state
    BY <1>5, <1>7
  <2>1. F(k + 1) = F(k)
    <3>1. CASE l = 0
      BY <1>1, <1>4, <3>1
    <3>2. CASE state.done
      <4>1. ends[k] > 8 * dlc
        BY <3>2 DEF PdoGood, ends
      <4>2. ~(ends[k + 1] <= 8 * dlc)
        BY <1>1, <1>2, <4>1
      <4>3. QED
        BY <1>4, <4>2
    <3>3. QED
      BY <1>7, <3>1, <3>2
  <2>2. ASSUME state.done PROVE ends[k + 1] > 8 * dlc
    <3>1. ends[k] > 8 * dlc
      BY <2>2 DEF PdoGood, ends
    <3>2. QED
      BY <1>1, <1>2, <3>1
  <2>3. ~state.done => state.at = ends[k + 1] /\ ends[k + 1] <= 8 * dlc
    BY <1>1, <1>2, <1>7 DEF PdoGood, ends
  <2>4. QED
    BY <2>0, <2>1, <2>2, <2>3 DEF PdoGood, F, ends, next, l
<1>8. CASE ~state.done /\ l # 0 /\ end > 8 * dlc
  <2>1. next = [state EXCEPT !.done = TRUE] /\ F(k + 1) = F(k) /\ ends[k + 1] > 8 * dlc
    BY <1>2, <1>4, <1>5, <1>6, <1>8
  <2> DEFINE yes == TRUE
  <2>2. next = [state EXCEPT !.done = yes]
    BY <2>1
  <2>3. yes \in BOOLEAN /\ yes
    OBVIOUS
  <2> HIDE DEF yes
  <2>4. next \in PdoState /\ next.dlc = dlc /\ next.done /\ next.out = state.out
    BY <1>3, <2>2, <2>3 DEF PdoState
  <2>5. QED
    BY <2>1, <2>4 DEF PdoGood, F, ends, next, l
<1>9. CASE ~state.done /\ l # 0 /\ ~(end > 8 * dlc)
  <2> DEFINE out == Append(state.out, <<state.at, l>>)
  <2>1. /\ F(k + 1) = F(k) \cup {k + 1} /\ ends[k + 1] <= 8 * dlc /\ end = ends[k + 1]
        /\ state.at = ends[k]
    BY <1>1, <1>2, <1>4, <1>6, <1>9
  <2>2. next = [[state EXCEPT !.at = end] EXCEPT !.out = out]
    BY <1>3, <1>5, <1>9 DEF PdoState
  <2>3. /\ state.out \in Seq(Nat \X Nat) /\ Len(state.out) \in Nat
        /\ out \in Seq(Nat \X Nat) /\ Len(out) = Len(state.out) + 1
        /\ out[Len(state.out) + 1] = <<ends[k], l>>
        /\ \A i \in 1..Len(state.out) : out[i] = state.out[i]
    <3> DEFINE old == state.out
               field == <<state.at, l>>
    <3>1. old \in Seq(Nat \X Nat)
      BY <1>3 DEF PdoState
    <3>2. field \in Nat \X Nat /\ field = <<ends[k], l>>
      BY <1>3, <1>1, <2>1, OffsetInByte DEF field
    <3>3. out = Append(old, field)
      OBVIOUS
    <3> HIDE DEF old, field, out
    <3>4. /\ Len(old) \in Nat /\ out \in Seq(Nat \X Nat) /\ Len(out) = Len(old) + 1
          /\ out[Len(old) + 1] = field /\ \A i \in 1..Len(old) : out[i] = old[i]
      BY ONLY <3>1, <3>2, <3>3
    <3>5. QED
      BY <3>1, <3>2, <3>4 DEF old
  <2> HIDE DEF out
  <2>4. end \in 0..255
    BY <1>2, <2>1, OffsetInByte
  <2>5. /\ next \in PdoState /\ next.dlc = dlc /\ next.done = state.done /\ next.at = end
        /\ next.out = out
    BY <1>3, <2>2, <2>3, <2>4 DEF PdoState
  <2>6. /\ IsFiniteSet(F(k)) /\ Cardinality(F(k)) \in Nat
        /\ \A i \in F(k) : Cardinality(F(i)) \in 1..Cardinality(F(k))
    BY <1>1, FieldsCounted DEF F, n
  <2>7. k + 1 \notin F(k)
    BY <1>1 DEF F, FieldsUpTo
  <2>8. Cardinality(F(k + 1)) = Cardinality(F(k)) + 1
    BY <2>1, <2>6, <2>7, FS_AddElement
  <2>9. /\ Len(state.out) = Cardinality(F(k))
        /\ \A i \in F(k) : state.out[Cardinality(F(i))] = <<ends[i - 1], lengths[i]>>
    BY DEF PdoGood, F, ends
  <2>10. ASSUME NEW i \in F(k + 1)
         PROVE  out[Cardinality(F(i))] = <<ends[i - 1], lengths[i]>>
    BY <2>3, <2>6, <2>9, <1>1, <2>8, <2>1, <2>10 DEF l
  <2>11. Len(out) = Cardinality(F(k + 1))
    BY <2>3, <2>8, <2>9
  <2>12. QED
    BY <1>9, <2>1, <2>5, <2>10, <2>11 DEF PdoGood, F, ends, next, l
<1>10. QED
  BY <1>3, <1>7, <1>8, <1>9 DEF next, l

LEMMA NextFieldType ==
  ASSUME NEW state \in PdoState, NEW l \in FieldLengths
  PROVE  NextField(state, l) \in PdoState
<1> DEFINE end == (state.at + l) % 256
           out == Append(state.out, <<state.at, l>>)
           yes == TRUE
<1>1. state.at \in 0..255 /\ state.at \in Nat /\ l \in Nat /\ state.out \in Seq(Nat \X Nat)
  <2>1. state.at \in 0..255 /\ state.out \in Seq(Nat \X Nat)
    BY DEF PdoState
  <2>2. state.at \in Nat
    BY ONLY <2>1, OffsetInByte
  <2>3. l \in Nat
    BY DEF FieldLengths
  <2>4. QED
    BY <2>1, <2>2, <2>3
<1>2. \A x, y \in Nat : (x + y) % 256 \in 0..255
  OBVIOUS
<1>3. end \in 0..255
  BY <1>1, <1>2
<1>4. <<state.at, l>> \in Nat \X Nat
  BY ONLY <1>1
<1>5. out \in Seq(Nat \X Nat)
  BY <1>1, <1>4
<1>6. yes \in BOOLEAN
  OBVIOUS
<1>7. NextField(state, l) \in {state, [state EXCEPT !.done = yes],
                               [[state EXCEPT !.at = end] EXCEPT !.out = out]}
  BY DEF NextField, PdoState
<1> HIDE DEF end, out, yes
<1> DEFINE Outs == Seq(Nat \X Nat)
<1> HIDE DEF Outs
<1>8. PdoState = [at : 0..255, dlc : 0..8, done : BOOLEAN, out : Outs] /\ out \in Outs
  BY <1>5 DEF PdoState, Outs
<1>9. [state EXCEPT !.done = yes] \in PdoState
  BY ONLY <1>6, <1>8, state \in PdoState
<1>10. [state EXCEPT !.at = end] \in PdoState
  BY ONLY <1>3, <1>8, state \in PdoState
<1>11. [[state EXCEPT !.at = end] EXCEPT !.out = out] \in PdoState
  BY ONLY <1>8, <1>10
<1>12. QED
  BY <1>7, <1>9, <1>10, <1>11

LEMMA PdoDecodedGood ==
  ASSUME NEW dlc \in 0..8, NEW lengths \in Seq(FieldLengths), EndsFit(dlc, lengths)
  PROVE  \E s : PdoGood(dlc, lengths, Len(lengths), s) /\ PdoDecoded(dlc, lengths) = s.out
<1> DEFINE n == Len(lengths)
           e == [at |-> 0, dlc |-> dlc, done |-> FALSE, out |-> <<>>]
           G == [x \in PdoState \X (1..n) |-> NextField(x[1], lengths[x[2]])]
           state[k \in 0..n] ==
             IF k = 0 THEN [at |-> 0, dlc |-> dlc, done |-> FALSE, out |-> <<>>]
             ELSE NextField(state[k - 1], lengths[k])
<1>1. n \in Nat /\ \A k \in 1..n : lengths[k] \in FieldLengths
  OBVIOUS
<1>2. e \in PdoState
  BY DEF PdoState
<1>3. G \in [PdoState \X (1..n) -> PdoState]
  BY <1>1, NextFieldType
<1>4. PICK h \in [0..n -> PdoState] : Follows(h, e, n, G)
  <2> HIDE DEF G, n, e
  <2>1. QED
    BY ONLY <1>1, <1>2, <1>3, RecursionExists
<1> HIDE DEF e
<1>5. /\ h[0] = e
      /\ \A k \in 1..n : h[k] = NextField(h[k - 1], lengths[k])
  BY <1>1, <1>4, SMTT(30) DEF Follows
<1>6. h = [k \in 0..n |-> IF k = 0 THEN e ELSE NextField(h[k - 1], lengths[k])]
  BY <1>1, <1>4, <1>5
<1>7. state = [k \in 0..n |-> IF k = 0 THEN e ELSE NextField(state[k - 1], lengths[k])]
  BY <1>6 DEF state, e
<1>8. PdoDecoded(dlc, lengths) = state[n].out
  BY DEF PdoDecoded
<1> HIDE DEF state, G
<1>9. state[0] = e /\ \A k \in 1..n : state[k] = NextField(state[k - 1], lengths[k])
  BY <1>7, <1>1
<1> DEFINE T == {k \in 0..n : PdoGood(dlc, lengths, k, state[k])}
<1>10. 0 \in T
  <2> DEFINE F == FieldsUpTo(dlc, lengths, 0)
  <2>1. F = {}
    BY DEF FieldsUpTo
  <2>2. Cardinality(F) = 0
    BY <2>1, FS_EmptySet
  <2>3. e.at = 0 /\ e.dlc = dlc /\ ~e.done /\ e.out = << >> /\ Len(e.out) = 0
    BY DEF e
  <2>4. FieldEnds(lengths)[0] = 0 /\ 0 <= 8 * dlc
    BY EndsAre
  <2> HIDE DEF F
  <2>5. PdoGood(dlc, lengths, 0, e)
    BY <1>2, <2>1, <2>2, <2>3, <2>4 DEF PdoGood, F
  <2>6. QED
    BY <1>1, <1>9, <2>5
<1>11. ASSUME NEW k \in 0..(n - 1), k \in T PROVE k + 1 \in T
  BY <1>1, <1>11, <1>9, NextFieldGood
<1> HIDE DEF T
<1>12. 0..n \subseteq T
  BY ONLY <1>1, <1>10, <1>11, RangeInduction
<1>13. n \in 0..n
  BY <1>1
<1>14. PdoGood(dlc, lengths, n, state[n])
  BY <1>12, <1>13 DEF T
<1>15. QED
  BY <1>8, <1>14

LEMMA PdoReached ==
  ASSUME PdoInv
  PROVE  PdoSound
<1> DEFINE n == Len(pdo.lengths)
           F(i) == FieldsUpTo(pdo.dlc, pdo.lengths, i)
           Fields == {k \in DOMAIN pdo.lengths :
                        pdo.lengths[k] > 0 /\ FieldEnds(pdo.lengths)[k] <= 8 * pdo.dlc}
<1>1. pdo.dlc \in 0..8 /\ pdo.lengths \in Seq(FieldLengths) /\ n \in Nat
      /\ DOMAIN pdo.lengths = 1..n
  BY DEF PdoInv
<1>1a. SUFFICES ASSUME EndsFit(pdo.dlc, pdo.lengths)
                PROVE  /\ Len(pdo.out) = Cardinality(Fields)
                       /\ \A k \in Fields : pdo.out[Cardinality({j \in Fields : j <= k})]
                                             = <<FieldEnds(pdo.lengths)[k - 1], pdo.lengths[k]>>
  BY <1>1 DEF PdoSound, EndsFit
<1>2. PICK s : PdoGood(pdo.dlc, pdo.lengths, n, s) /\ PdoDecoded(pdo.dlc, pdo.lengths) = s.out
  BY <1>1, <1>1a, PdoDecodedGood
<1>3. Fields = F(n)
  BY <1>1 DEF FieldsUpTo
<1>4. \A k \in F(n) : {j \in Fields : j <= k} = F(k)
  BY <1>1 DEF FieldsUpTo
<1>5. /\ Len(pdo.out) = Cardinality(F(n))
      /\ \A k \in F(n) : pdo.out[Cardinality(F(k))] = <<FieldEnds(pdo.lengths)[k - 1], pdo.lengths[k]>>
  BY <1>2 DEF PdoGood, PdoInv
<1> HIDE DEF Fields, F
<1>6. QED
  BY <1>3, <1>4, <1>5

LEMMA PdoStarts ==
  ASSUME PdoInit
  PROVE  PdoInv
<1>1. 0 \in 0..8
  OBVIOUS
<1>2. << >> \in Seq(FieldLengths)
  OBVIOUS
<1>3. pdo.dlc = 0 /\ pdo.lengths = << >> /\ pdo.out = << >>
  BY DEF PdoInit
<1>3a. EndsFit(0, << >>)
  BY DEF EndsFit
<1>4. PICK s : PdoGood(0, << >>, 0, s) /\ PdoDecoded(0, << >>) = s.out
  BY <1>1, <1>2, <1>3a, PdoDecodedGood
<1>5. s.out \in Seq(Nat \X Nat) /\ Len(s.out) = 0
  BY <1>4, FS_EmptySet DEF FieldsUpTo, PdoGood, PdoState
<1>6. QED
  BY <1>1, <1>2, <1>3, <1>4, <1>5 DEF PdoInv

LEMMA PdoKept ==
  ASSUME PdoInv, PdoNext \/ UNCHANGED pdo
  PROVE  PdoInv'
<1>1. CASE PdoNext
  <2>1. PICK dlc \in 0..8, lengths \in Mappings :
          pdo' = [dlc |-> dlc, lengths |-> lengths, out |-> PdoDecoded(dlc, lengths)]
    BY <1>1 DEF PdoNext, PdoFrame
  <2>2. lengths \in Seq(FieldLengths)
    <3>1. PICK n \in 0..8 : lengths \in [1..n -> 0..255]
      BY MappingAssumption
    <3>2. n \in Nat
      OBVIOUS
    <3>3. QED
      BY <3>1, <3>2 DEF FieldLengths
  <2> DEFINE out == PdoDecoded(dlc, lengths)
  <2>3. pdo' = [dlc |-> dlc, lengths |-> lengths, out |-> out]
    BY <2>1
  <2> HIDE DEF out
  <2>4. pdo'.dlc = dlc /\ pdo'.lengths = lengths /\ pdo'.out = out
    BY <2>3
  <2>5. QED
    BY <2>2, <2>4 DEF PdoInv, out
<1>2. CASE UNCHANGED pdo
  BY <1>2 DEF PdoInv
<1>3. QED
  BY <1>1, <1>2

\* The answers of CANopen servers.
LEMMA MinReached ==
  ASSUME NEW x \in Int, NEW y \in Int
  PROVE  Min({x, y}) = IF x <= y THEN x ELSE y
<1> DEFINE z == IF x <= y THEN x ELSE y
<1>1. z \in {x, y} /\ \A w \in {x, y} : z <= w
  OBVIOUS
<1>2. \A v \in {x, y} : (\A w \in {x, y} : v <= w) => v = z
  OBVIOUS
<1> HIDE DEF z
<1>3. Min({x, y}) = z
  BY <1>1, <1>2 DEF Min
<1>4. QED
  BY <1>3 DEF z

LEMMA SdoSame ==
  ASSUME NEW a, NEW b, NEW c, NEW d, NEW e, sdo = SdoRead(a, b, c, d, e)
  PROVE  SdoOf(a, b, c, d, e) = [f \in DOMAIN SdoOf(a, b, c, d, e) |-> sdo[f]]
<1> DEFINE copied == Min({c, 4})
<1>1. sdo = [cs |-> a, type |-> b, len |-> c, toggle |-> d, last |-> e, copied |-> copied]
  BY DEF SdoRead
<1> HIDE DEF copied
<1>2. sdo.cs = a /\ sdo.type = b /\ sdo.len = c /\ sdo.toggle = d /\ sdo.last = e
  BY <1>1
<1>3. QED
  BY <1>2 DEF SdoOf

\* What decode_sdo_response makes of each kind of command byte.
LEMMA SdoKinds ==
  ASSUME NEW cs \in 0..255
  PROVE  /\ cs = 128 => SdoDecoded(cs) = SdoRead(cs, "abort", 0, 0, 0)
         /\ Field(cs, 32, 8) = 2 /\ Field(cs, 2, 2) = 1 =>
              SdoDecoded(cs) = SdoRead(cs, "expedited",
                4 - (IF Field(cs, 1, 2) = 1 THEN Field(cs, 4, 4) ELSE 0), 0, 0)
         /\ Field(cs, 32, 8) = 2 /\ Field(cs, 2, 2) = 0 =>
              SdoDecoded(cs) = SdoRead(cs, "segmented", 4, 0, 0)
         /\ Field(cs, 32, 8) = 0 =>
              SdoDecoded(cs) = SdoRead(cs, "segment", 7 - Field(cs, 2, 8), Field(cs, 16, 2), Field(cs, 1, 2))
         /\ cs = 96 => SdoDecoded(cs) = SdoRead(cs, "downloaded", 0, 0, 0)
         /\ Field(cs, 32, 8) = 1 => SdoDecoded(cs) = SdoRead(cs, "stored", 0, Field(cs, 16, 2), 0)
         /\ \/ cs \in {96, 128} \/ Field(cs, 32, 8) \in {0, 1, 2}
            \/ \E type \in {"block", "unknown"} : SdoDecoded(cs) = SdoRead(cs, type, 0, 0, 0)
<1>1. Field(cs, 32, 8) \in 0..7 /\ Field(cs, 2, 2) \in 0..1
  BY DEF Field
<1>2. /\ cs = 128 => Field(cs, 32, 8) = 4
      /\ cs = 96 => Field(cs, 32, 8) = 3
  BY DEF Field
<1> DEFINE upper == Field(cs, 32, 8)
           more == Field(cs, 2, 2)
           unused == IF upper = 2 THEN (IF Field(cs, 1, 2) = 1 THEN Field(cs, 4, 4) ELSE 0)
                     ELSE Field(cs, 2, 8)
<1>3. SdoDecoded(cs) =
        CASE cs = 128               -> SdoRead(cs, "abort", 0, 0, 0)
          [] upper = 2 /\ more = 1  -> SdoRead(cs, "expedited", 4 - unused, 0, 0)
          [] upper = 2 /\ more = 0  -> SdoRead(cs, "segmented", 4, 0, 0)
          [] upper = 0              -> SdoRead(cs, "segment", 7 - unused, Field(cs, 16, 2), Field(cs, 1, 2))
          [] cs = 96                -> SdoRead(cs, "downloaded", 0, 0, 0)
          [] upper = 1              -> SdoRead(cs, "stored", 0, Field(cs, 16, 2), 0)
          [] upper = 6              -> SdoRead(cs, "block", 0, 0, 0)
          [] OTHER                  -> SdoRead(cs, "unknown", 0, 0, 0)
  BY DEF SdoDecoded, SdoRead, ToggleOf
<1>4. /\ upper = 2 => unused = IF Field(cs, 1, 2) = 1 THEN Field(cs, 4, 4) ELSE 0
      /\ upper # 2 => unused = Field(cs, 2, 8)
  OBVIOUS
<1>5. upper \in 0..7 /\ more \in 0..1 /\ (cs = 128 => upper = 4) /\ (cs = 96 => upper = 3)
  BY <1>1, <1>2
<1> HIDE DEF upper, more, unused
<1>6. /\ cs = 128 => SdoDecoded(cs) = SdoRead(cs, "abort", 0, 0, 0)
      /\ upper = 2 /\ more = 1 => SdoDecoded(cs) = SdoRead(cs, "expedited", 4 - unused, 0, 0)
      /\ upper = 2 /\ more = 0 => SdoDecoded(cs) = SdoRead(cs, "segmented", 4, 0, 0)
      /\ upper = 0 => SdoDecoded(cs) = SdoRead(cs, "segment", 7 - unused, Field(cs, 16, 2), Field(cs, 1, 2))
      /\ cs = 96 => SdoDecoded(cs) = SdoRead(cs, "downloaded", 0, 0, 0)
      /\ upper = 1 => SdoDecoded(cs) = SdoRead(cs, "stored", 0, Field(cs, 16, 2), 0)
      /\ \/ cs \in {96, 128} \/ upper \in {0, 1, 2}
         \/ \E type \in {"block", "unknown"} : SdoDecoded(cs) = SdoRead(cs, type, 0, 0, 0)
  BY <1>3, <1>5
<1>7. QED
  BY <1>4, <1>6 DEF upper, more

LEMMA SdoReached ==
  ASSUME SdoInv
  PROVE  SdoSound
<1>1. CASE sdo = [cs |-> 0, type |-> "none", len |-> 0, toggle |-> 0, last |-> 0, copied |-> 0]
  BY <1>1 DEF SdoSound
<1>2. ASSUME NEW cs \in 0..255, sdo = SdoDecoded(cs) PROVE SdoSound
  <2>1. \A type, len, toggle, last : sdo = SdoRead(cs, type, len, toggle, last) =>
          sdo.cs = cs /\ sdo.type = type /\ sdo.len = len /\ sdo.copied = Min({len, 4})
    BY DEF SdoRead
  <2>2. sdo.cs = cs
    <3>1. \E type, len, toggle, last : sdo = SdoRead(cs, type, len, toggle, last)
      BY <1>2, SdoKinds DEF Field
    <3>2. QED
      BY <2>1, <3>1
  <2>3. ASSUME NEW n \in 1..4, cs = 64 + 4 * (4 - n) + 3
        PROVE  sdo = SdoRead(cs, "expedited", n, 0, 0)
    BY <2>3, <1>2, SdoKinds DEF Field
  <2>4. cs = 65 => sdo = SdoRead(cs, "segmented", 4, 0, 0)
    BY <1>2, SdoKinds DEF Field
  <2>5. /\ cs = 96 => sdo = SdoRead(cs, "downloaded", 0, 0, 0)
        /\ cs = 128 => sdo = SdoRead(cs, "abort", 0, 0, 0)
    BY <1>2, SdoKinds
  <2>6. ASSUME NEW t \in 0..1, NEW n \in 1..7, NEW l \in 0..1, cs = 16 * t + 2 * (7 - n) + l
        PROVE  sdo = SdoRead(cs, "segment", n, t, l)
    BY <2>6, <1>2, SdoKinds DEF Field
  <2>7. ASSUME NEW t \in 0..1, cs = 32 + 16 * t
        PROVE  sdo = SdoRead(cs, "stored", 0, t, 0)
    BY <2>7, <1>2, SdoKinds DEF Field
  <2>8. ASSUME NEW m \in SdoMeant, m.cs = sdo.cs
        PROVE  m = [f \in DOMAIN m |-> sdo[f]]
    <3>1. CASE \E n \in 1..4 : m = SdoOf(64 + 4 * (4 - n) + 3, "expedited", n, 0, 0)
      <4>1. PICK n \in 1..4 : m = SdoOf(64 + 4 * (4 - n) + 3, "expedited", n, 0, 0)
        BY <3>1
      <4>2. cs = 64 + 4 * (4 - n) + 3
        BY <2>2, <2>8, <4>1 DEF SdoOf
      <4>3. QED
        BY <2>3, <4>1, <4>2, SdoSame
    <3>2. CASE m \in {SdoOf(65, "segmented", 4, 0, 0), SdoOf(96, "downloaded", 0, 0, 0),
                      SdoOf(128, "abort", 0, 0, 0)}
      <4>1. CASE m = SdoOf(65, "segmented", 4, 0, 0)
        BY <2>2, <2>8, <4>1, <2>4, SdoSame DEF SdoOf
      <4>2. CASE m = SdoOf(96, "downloaded", 0, 0, 0)
        BY <2>2, <2>8, <4>2, <2>5, SdoSame DEF SdoOf
      <4>3. CASE m = SdoOf(128, "abort", 0, 0, 0)
        BY <2>2, <2>8, <4>3, <2>5, SdoSame DEF SdoOf
      <4>4. QED
        BY <3>2, <4>1, <4>2, <4>3
    <3>3. CASE \E t \in 0..1, n \in 1..7, l \in 0..1 : m = SdoOf(16 * t + 2 * (7 - n) + l, "segment", n, t, l)
      <4>1. PICK t \in 0..1, n \in 1..7, l \in 0..1 : m = SdoOf(16 * t + 2 * (7 - n) + l, "segment", n, t, l)
        BY <3>3
      <4>2. cs = 16 * t + 2 * (7 - n) + l
        BY <2>2, <2>8, <4>1 DEF SdoOf
      <4>3. QED
        BY <2>6, <4>1, <4>2, SdoSame
    <3>4. CASE \E t \in 0..1 : m = SdoOf(32 + 16 * t, "stored", 0, t, 0)
      <4>1. PICK t \in 0..1 : m = SdoOf(32 + 16 * t, "stored", 0, t, 0)
        BY <3>4
      <4>2. cs = 32 + 16 * t
        BY <2>2, <2>8, <4>1 DEF SdoOf
      <4>3. QED
        BY <2>7, <4>1, <4>2, SdoSame
    <3>5. QED
      BY <3>1, <3>2, <3>3, <3>4 DEF SdoMeant, SdoOf
  <2>9. sdo.len > sdo.copied => sdo.type = "segment"
    <3>1. CASE cs \in {96, 128}
      <4>1. sdo.len = 0 /\ sdo.copied = Min({0, 4})
        BY <2>1, <2>5, <3>1
      <4>2. QED
        BY <4>1, MinReached
    <3>2. CASE Field(cs, 32, 8) = 0
      <4>1. sdo = SdoRead(cs, "segment", 7 - Field(cs, 2, 8), Field(cs, 16, 2), Field(cs, 1, 2))
        BY <1>2, <3>2, SdoKinds
      <4>2. sdo.type = "segment"
        BY <2>1, <4>1
      <4>3. QED
        BY <4>2
    <3>3. CASE Field(cs, 32, 8) = 1
      <4>1. sdo.len = 0 /\ sdo.copied = Min({0, 4})
        <5>1. sdo = SdoRead(cs, "stored", 0, Field(cs, 16, 2), 0)
          BY <1>2, <3>3, SdoKinds
        <5>2. QED
          BY <2>1, <5>1
      <4>2. QED
        BY <4>1, MinReached
    <3>4. CASE Field(cs, 32, 8) = 2
      <4> DEFINE len == 4 - (IF Field(cs, 1, 2) = 1 THEN Field(cs, 4, 4) ELSE 0)
      <4>1. len \in 1..4
        BY DEF Field
      <4>2. Field(cs, 2, 2) \in {0, 1}
        BY DEF Field
      <4>3. CASE Field(cs, 2, 2) = 1
        <5>1. sdo = SdoRead(cs, "expedited", len, 0, 0)
          BY <1>2, <3>4, <4>3, SdoKinds
        <5> HIDE DEF len
        <5>2. sdo.len = len /\ sdo.copied = Min({len, 4})
          BY <2>1, <5>1
        <5>3. len \in Int /\ 4 \in Int /\ len <= 4
          BY <4>1
        <5>4. sdo.copied = len
          BY <5>2, <5>3, MinReached
        <5>5. QED
          BY <5>2, <5>3, <5>4
      <4>4. CASE Field(cs, 2, 2) = 0
        <5>1. sdo = SdoRead(cs, "segmented", 4, 0, 0)
          BY <1>2, <3>4, <4>4, SdoKinds
        <5>2. sdo.len = 4 /\ sdo.copied = Min({4, 4})
          BY <2>1, <5>1
        <5>3. QED
          BY <5>2, MinReached
      <4>5. QED
        BY <4>2, <4>3, <4>4
    <3>5. CASE \E type \in {"block", "unknown"} : SdoDecoded(cs) = SdoRead(cs, type, 0, 0, 0)
      <4>1. sdo.len = 0 /\ sdo.copied = Min({0, 4})
        BY <1>2, <2>1, <3>5
      <4>2. QED
        BY <4>1, MinReached
    <3>6. QED
      BY <3>1, <3>2, <3>3, <3>4, <3>5, SdoKinds
  <2>10. QED
    BY <2>8, <2>9 DEF SdoSound
<1>3. QED
  BY <1>1, <1>2 DEF SdoInv

LEMMA SdoKept ==
  ASSUME SdoInv, SdoNext \/ UNCHANGED sdo
  PROVE  SdoInv'
<1>1. CASE SdoNext
  BY <1>1 DEF SdoNext, SdoFrame, SdoInv
<1>2. CASE UNCHANGED sdo
  BY <1>2 DEF SdoInv
<1>3. QED
  BY <1>1, <1>2

LEMMA PayloadBytes ==
  ASSUME NEW p \in Payloads
  PROVE  p \in Seq(Bytes) /\ Len(p) \in 1..2 /\ \A b \in 1..Len(p) : p[b] \in Bytes
<1>1. PICK n \in 1..2 : p \in [1..n -> 0..255]
  BY WiggleAssumption
<1>2. n \in Nat
  OBVIOUS
<1>3. p \in Seq(Bytes) /\ Len(p) = n
  BY <1>1, <1>2 DEF Bytes
<1>4. QED
  BY <1>3

LEMMA WiggleReached ==
  ASSUME WiggleInv
  PROVE  WiggleSound
<1>1. /\ wiggle.before = LastFew(wiggle.came["baseline"]) /\ wiggle.after = LastFew(wiggle.came["after"])
      /\ (wiggle.start <=> wiggle.state \in {"idle", "results"})
      /\ (wiggle.done <=> wiggle.state = "waiting")
      /\ wiggle.timers = {wiggle.state} \cap {"baseline", "after"}
      /\ wiggle.start \in BOOLEAN /\ wiggle.done \in BOOLEAN
      /\ wiggle.before \in Seq(Payloads) /\ wiggle.after \in Seq(Payloads)
  BY DEF WiggleInv, WindowsKept, ButtonsShown, WiggleType, Windows
<1>2. /\ wiggle.start = (wiggle.state \in {"idle", "results"})
      /\ wiggle.done = (wiggle.state = "waiting")
  BY <1>1
<1>3. ASSUME NEW window \in Seq(Payloads), NEW b \in 1..2, NEW x \in Values(window, b),
             \A f \in Range(window) : b <= Len(f) /\ f[b] = x
      PROVE  x \in Bytes /\ Steady(window, b, x)
  <2>1. PICK f \in Range(window) : b <= Len(f) /\ x = f[b]
    BY DEF Values
  <2>2. \A k \in 1..Len(window) : window[k] \in Range(window)
    BY DEF Range
  <2>3. f \in Payloads /\ window # <<>>
    BY <2>1 DEF Range
  <2>4. b \in 1..Len(f)
    BY <2>1, <2>3, PayloadBytes
  <2>5. QED
    BY <1>3, <2>1, <2>2, <2>3, <2>4, PayloadBytes DEF Steady
<1>4. ASSUME wiggle.state = "results", NEW b \in 1..2,
             NEW x \in Values(wiggle.before, b), NEW y \in Values(wiggle.after, b),
             \A f \in Range(wiggle.before) : b <= Len(f) /\ f[b] = x,
             \A f \in Range(wiggle.after) : b <= Len(f) /\ f[b] = y
      PROVE  ByteFound(wiggle, b, x, y)
  BY <1>1, <1>3, <1>4 DEF WiggleInv, ResultsKept
<1>5. \A b \in 1..2 : Width(b) = SpreadOf(wiggle.stats, b)
  BY DEF Width, SpreadOf, Spread
<1>6. QED
  BY <1>1, <1>2, <1>4, <1>5 DEF WiggleSound, ByteFound

LEMMA LastFewAfter ==
  ASSUME NEW s \in Seq(Payloads), NEW p \in Payloads
  PROVE  LastFew(s) \in Seq(Payloads) /\ LastFew(Append(s, p)) = Windowed(LastFew(s), p)
<1> DEFINE n == Len(s)
           m == MaxSnapshot
           more == Append(s, p)
           few == LastFew(s)
<1>1. m \in Nat /\ m >= 1 /\ n \in Nat
  BY WiggleAssumption
<1>2. more \in Seq(Payloads) /\ Len(more) = n + 1 /\ more[n + 1] = p /\ \A k \in 1..n : more[k] = s[k]
  OBVIOUS
<1>3. CASE n < m
  <2>1. few = s /\ LastFew(more) = more
    BY <1>1, <1>2, <1>3 DEF LastFew
  <2>2. QED
    BY <1>1, <1>2, <1>3, <2>1 DEF Windowed
<1>4. CASE n >= m
  <2>1. few \in Seq(Payloads) /\ Len(few) = m /\ \A k \in 1..m : few[k] = s[n - m + k]
    <3>1. CASE n = m
      BY <1>1, <3>1 DEF LastFew
    <3>2. CASE n > m
      <4>1. few = SubSeq(s, n - m + 1, n) /\ n - m + 1 \in Int /\ n \in Int
        BY <1>1, <3>2 DEF LastFew
      <4>2. \A i \in (n - m + 1)..n : s[i] \in Payloads
        BY <1>1, <3>2
      <4>3. /\ few \in Seq(Payloads)
            /\ Len(few) = IF n - m + 1 <= n THEN n - (n - m + 1) + 1 ELSE 0
            /\ \A i \in 1..(n - (n - m + 1) + 1) : few[i] = s[(n - m + 1) + i - 1]
        BY <4>1, <4>2, SubSeqProperties
      <4> HIDE DEF few
      <4>4. QED
        BY <1>1, <3>2, <4>3
    <3>3. QED
      BY <1>1, <1>4, <3>1, <3>2
  <2> DEFINE last == LastFew(more)
             kept == Windowed(few, p)
  <2>2. last \in Seq(Payloads) /\ Len(last) = m /\ \A k \in 1..m : last[k] = more[n + 1 - m + k]
    <3>1. last = SubSeq(more, n + 1 - m + 1, n + 1) /\ n + 1 - m + 1 \in Int /\ n + 1 \in Int
      BY <1>1, <1>2, <1>4 DEF LastFew
    <3>2. \A i \in (n + 1 - m + 1)..(n + 1) : more[i] \in Payloads
      BY <1>1, <1>2, <1>4
    <3> HIDE DEF last, more
    <3>3. /\ last \in Seq(Payloads)
          /\ Len(last) = IF n + 1 - m + 1 <= n + 1 THEN (n + 1) - (n + 1 - m + 1) + 1 ELSE 0
          /\ \A i \in 1..((n + 1) - (n + 1 - m + 1) + 1) : last[i] = more[(n + 1 - m + 1) + i - 1]
      BY <3>1, <3>2, SubSeqProperties
    <3>4. QED
      BY <1>1, <1>4, <3>3
  <2> HIDE DEF last, few, more
  <2>3. kept \in Seq(Payloads) /\ Len(kept) = m
        /\ \A k \in 1..m : kept[k] = IF k = m THEN p ELSE few[k + 1]
    <3> DEFINE long == Append(few, p)
    <3>1. /\ long \in Seq(Payloads) /\ Len(long) = m + 1 /\ long # <<>>
          /\ long[m + 1] = p /\ \A k \in 1..m : long[k] = few[k]
      BY <1>1, <2>1
    <3>2. kept = Tail(long)
      BY <1>1, <3>1 DEF Windowed
    <3> HIDE DEF long
    <3>3. /\ Tail(long) \in Seq(Payloads) /\ Len(Tail(long)) = Len(long) - 1
          /\ \A i \in 1..Len(Tail(long)) : Tail(long)[i] = long[i + 1]
      BY <3>1, HeadTailProperties
    <3> HIDE DEF kept
    <3>4. QED
      BY <1>1, <3>1, <3>2, <3>3
  <2>4. \A k \in 1..m : last[k] = kept[k]
    <3>1. ASSUME NEW k \in 1..m PROVE last[k] = kept[k]
      <4>1. CASE k = m
        BY <1>1, <1>2, <1>4, <2>2, <2>3, <4>1
      <4>2. CASE k # m
        <5>1. k + 1 \in 1..m /\ n + 1 - m + k \in 1..n /\ n - m + (k + 1) = n + 1 - m + k
          BY <1>1, <1>4, <4>2
        <5>2. last[k] = s[n + 1 - m + k] /\ kept[k] = s[n - m + (k + 1)]
          BY <1>2, <2>1, <2>2, <2>3, <4>2, <5>1
        <5>3. QED
          BY <5>1, <5>2
      <4>3. QED
        BY <4>1, <4>2
    <3>2. QED
      BY <3>1
  <2> HIDE DEF kept
  <2>5. last = kept
    BY <2>2, <2>3, <2>4, SeqEqual
  <2>6. QED
    BY <2>1, <2>5 DEF few, last, kept, more
<1>5. QED
  BY <1>1, <1>3, <1>4

\* The values a byte has in whole frames, when it has but one.
LEMMA OneValue ==
  ASSUME NEW window \in Seq(Payloads), NEW b \in 1..2, NEW x, Steady(window, b, x)
  PROVE  Values(window, b) = {x}
<1>1. /\ 1 \in 1..Len(window) /\ \A k \in 1..Len(window) : window[k] \in Range(window)
      /\ \A f \in Range(window) : b <= Len(f) /\ f[b] = x
  BY DEF Range, Steady
<1>2. QED
  BY <1>1 DEF Values

LEMMA ByteTimes ==
  ASSUME NEW v \in Nat, NEW k \in Nat
  PROVE  v * k \in Nat /\ v * (k + 1) = v * k + v /\ v * 0 = 0
OBVIOUS

LEMMA SumOfOneValue ==
  ASSUME NEW window \in Seq(Payloads), NEW b \in 1..2, NEW v \in Nat, Steady(window, b, v)
  PROVE  SumOf(window, b) = v * Len(window)
<1> DEFINE n == Len(window)
           byte(k) == IF b <= Len(window[k]) THEN window[k][b] ELSE 0
           sum[k \in 0..n] ==
             IF k = 0 THEN 0 ELSE sum[k - 1] + IF b <= Len(window[k]) THEN window[k][b] ELSE 0
           h == [k \in 0..n |-> v * k]
<1>1. n \in Nat /\ \A k \in 1..n : byte(k) = v
  BY DEF Steady
<1>2. h = [k \in 0..n |-> IF k = 0 THEN 0 ELSE h[k - 1] + byte(k)]
  <2>1. \A k \in 0..n : h[k] = v * k
    OBVIOUS
  <2>2. \A k \in 0..n : v * k = IF k = 0 THEN 0 ELSE h[k - 1] + byte(k)
    <3>1. ASSUME NEW k \in 0..n, k # 0 PROVE v * k = h[k - 1] + byte(k)
      <4>1. k \in 1..n /\ k - 1 \in 0..n /\ k - 1 \in Nat /\ (k - 1) + 1 = k
        BY <1>1, <3>1
      <4>2. v * k = v * (k - 1) + v
        BY <4>1, ByteTimes
      <4>3. h[k - 1] = v * (k - 1) /\ byte(k) = v
        BY <1>1, <4>1
      <4>4. QED
        BY ONLY <4>2, <4>3
    <3>2. v * 0 = 0
      BY ByteTimes
    <3>3. QED
      BY <3>1, <3>2
  <2> HIDE DEF byte
  <2>3. QED
    BY <2>2
<1>3. sum = [k \in 0..n |-> IF k = 0 THEN 0 ELSE sum[k - 1] + byte(k)]
  <2> HIDE DEF h
  <2>1. QED
    BY <1>2 DEF sum
<1>4. SumOf(window, b) = sum[n]
  BY DEF SumOf
<1> HIDE DEF sum, h, byte
<1>5. sum[0] = 0 /\ \A k \in 1..n : sum[k] = sum[k - 1] + byte(k)
  <2>1. \A k \in 0..n : sum[k] = IF k = 0 THEN 0 ELSE sum[k - 1] + byte(k)
    BY ONLY <1>3
  <2>2. 0 \in 0..n /\ \A k \in 1..n : k \in 0..n /\ k # 0
    BY <1>1
  <2>3. QED
    BY ONLY <2>1, <2>2
<1> DEFINE T == {k \in 0..n : sum[k] = v * k}
<1>6. 0 \in T
  <2>1. 0 \in 0..n
    BY <1>1
  <2>2. v * 0 = 0
    BY ByteTimes
  <2>3. QED
    BY ONLY <1>5, <2>1, <2>2
<1>7. ASSUME NEW k \in 0..(n - 1), k \in T PROVE k + 1 \in T
  <2>1. k \in Nat /\ k + 1 \in 1..n /\ k + 1 \in 0..n /\ (k + 1) - 1 = k /\ sum[k] = v * k
    BY <1>1, <1>7
  <2>2. sum[k + 1] = sum[k] + v
    BY ONLY <1>1, <1>5, <2>1
  <2>3. v * (k + 1) = v * k + v
    BY <2>1, ByteTimes
  <2>4. QED
    BY ONLY <2>1, <2>2, <2>3 DEF T
<1> HIDE DEF T
<1>8. 0..n \subseteq T
  BY ONLY <1>1, <1>6, <1>7, RangeInduction
<1>9. n \in 0..n
  BY <1>1
<1>10. sum[n] = v * n
  BY <1>8, <1>9 DEF T
<1>11. QED
  BY <1>4, <1>10

LEMMA Scaled ==
  ASSUME NEW w \in Int, NEW n \in Int, NEW m \in Int
  PROVE  (w * n) * m = w * (n * m) /\ (w * m) * n = w * (n * m)
OBVIOUS

LEMMA ScaledMore ==
  ASSUME NEW a \in Int, NEW b \in Int, NEW p \in Nat \ {0}
  PROVE  /\ (a - b) * p = a * p - b * p /\ (20 * a) * p = 20 * (a * p)
         /\ a > b <=> a * p > b * p
OBVIOUS

\* Two values are apart by more than 5 % of a range if and only if their sums over the windows are.
LEMMA ScoreOf ==
  ASSUME NEW v \in Nat, NEW x \in Nat, NEW n \in Nat \ {0}, NEW m \in Nat \ {0}, NEW w \in Nat \ {0}
  PROVE  /\ w * (n * m) \in Nat \ {0}
         /\ Abs((x * m) * n - (v * n) * m) \in Nat
         /\ v = x => Abs((x * m) * n - (v * n) * m) = 0
         /\ 20 * Abs((x * m) * n - (v * n) * m) > w * (n * m) <=> 20 * Abs(v - x) > w
<1> DEFINE p == n * m
           d == Abs(v - x)
<1>1. p \in Nat \ {0} /\ d \in Nat
  BY DEF Abs
<1>2. (x * m) * n = x * p /\ (v * n) * m = v * p
  BY Scaled
<1> HIDE DEF p
<1>3. Abs(x * p - v * p) = d * p
  <2>1. (x - v) * p = x * p - v * p /\ (v - x) * p = v * p - x * p
    BY <1>1, ScaledMore
  <2>2. x - v >= 0 <=> x * p - v * p >= 0
    <3>1. v > x <=> v * p > x * p
      BY <1>1, ScaledMore
    <3>2. x * p \in Int /\ v * p \in Int
      BY <1>1
    <3>3. QED
      BY <3>1, <3>2
  <2>3. x * p \in Int /\ v * p \in Int
    BY <1>1
  <2>4. CASE v = x
    <3>1. d = 0 /\ x * p - v * p = 0 /\ 0 * p = 0
      BY <2>3, <2>4, <1>1 DEF Abs
    <3>2. QED
      BY <3>1 DEF Abs
  <2>5. CASE v < x
    <3>1. d = x - v
      BY <2>5 DEF Abs
    <3>2. Abs(x * p - v * p) = x * p - v * p
      BY <2>2, <2>3, <2>5 DEF Abs
    <3> HIDE DEF d
    <3>3. QED
      BY <2>1, <3>1, <3>2
  <2>6. CASE v > x
    <3>1. d = v - x
      BY <2>6 DEF Abs
    <3>2. Abs(x * p - v * p) = v * p - x * p
      BY <2>2, <2>3, <2>6 DEF Abs
    <3> HIDE DEF d
    <3>3. QED
      BY <2>1, <3>1, <3>2
  <2>7. QED
    BY <2>4, <2>5, <2>6
<1> HIDE DEF d
<1>4. w * p \in Nat \ {0} /\ d * p \in Nat
  BY <1>1
<1>5. (20 * d) * p = 20 * (d * p) /\ (20 * d > w <=> (20 * d) * p > w * p)
  <2>1. 20 * d \in Int
    BY <1>1
  <2>2. QED
    BY <1>1, <2>1, ScaledMore
<1>6. v = x => d * p = 0
  <2>1. v = x => d = 0
    BY DEF d, Abs
  <2>2. QED
    BY <1>1, <2>1
<1>7. QED
  BY <1>2, <1>3, <1>4, <1>5, <1>6 DEF p, d

LEMMA BoundsReached ==
  ASSUME NEW S \in SUBSET Bytes, S # {}
  PROVE  /\ Max(S) \in S /\ Min(S) \in S
         /\ \A y \in S : Min(S) <= y /\ y <= Max(S)
<1> DEFINE T == {255 - y : y \in S}
<1>1. Max(S) \in S /\ \A y \in S : y <= Max(S)
  <2>1. Max(S) \in S /\ \A y \in S : Max(S) >= y
    BY MaxReached DEF Bytes
  <2>2. \A y \in S : y \in Int
    BY DEF Bytes
  <2>3. QED
    BY <2>1, <2>2
<1>2. T \in SUBSET (0..255) /\ T # {}
  <2>1. \A y \in S : y \in 0..255
    BY DEF Bytes
  <2>2. \A y \in 0..255 : 255 - y \in 0..255
    OBVIOUS
  <2>3. QED
    BY <2>1, <2>2
<1>3. Max(T) \in T /\ \A t \in T : Max(T) >= t
  BY <1>2, MaxReached, ZenonT(40)
<1>4. PICK x \in S : Max(T) = 255 - x
  BY <1>3
<1>5. \A y \in S : x <= y
  <2>1. ASSUME NEW y \in S PROVE x <= y
    <3>1. 255 - y \in T /\ x \in Int /\ y \in Int
      BY DEF Bytes
    <3>2. 255 - x >= 255 - y
      BY <1>3, <1>4, <3>1
    <3>3. QED
      BY <3>1, <3>2
  <2>2. QED
    BY <2>1
<1>6. Min(S) \in S /\ \A y \in S : Min(S) =< y
  BY <1>5 DEF Min
<1>7. QED
  BY <1>1, <1>6

LEMMA SpreadGrows ==
  ASSUME NEW S \in SUBSET Bytes, NEW T \in SUBSET Bytes, S # {}, S \subseteq T
  PROVE  Spread(S) \in 1..255 /\ Spread(T) \in 1..255 /\ Spread(S) <= Spread(T)
<1>1. ASSUME NEW U \in SUBSET Bytes, U # {}
      PROVE  /\ Max(U) - Min(U) \in 0..255
             /\ Spread(U) = IF Max(U) - Min(U) > 1 THEN Max(U) - Min(U) ELSE 1
  <2> DEFINE d == Max(U) - Min(U)
  <2>1. d \in 0..255
    <3>1. Max(U) \in Bytes /\ Min(U) \in Bytes /\ Min(U) <= Max(U)
      BY <1>1, BoundsReached
    <3>2. \A x, y \in 0..255 : y <= x => x - y \in 0..255
      OBVIOUS
    <3>3. QED
      BY <3>1, <3>2 DEF Bytes
  <2> HIDE DEF d
  <2>2. {1, d} \in SUBSET (0..255) /\ {1, d} # {} /\ 255 \in Nat
    BY <2>1
  <2>3. Max({1, d}) \in {1, d} /\ \A y \in {1, d} : Max({1, d}) >= y
    BY ONLY <2>2, MaxReached
  <2>4. Max({1, d}) = IF d > 1 THEN d ELSE 1
    BY <2>1, <2>3
  <2>5. QED
    BY <2>1, <2>4, SMTT(30) DEF Spread, d
<1>2. T # {}
  OBVIOUS
<1>3. Max(T) - Min(T) >= Max(S) - Min(S)
  <2>1. Max(S) \in S /\ Min(S) \in S /\ Max(T) \in T /\ Min(T) \in T
    BY <1>2, BoundsReached
  <2>2. Min(T) <= Min(S) /\ Max(S) <= Max(T)
    BY <1>2, <2>1, BoundsReached
  <2>3. \A y \in T : y \in Int
    BY DEF Bytes
  <2>4. Max(S) \in Int /\ Min(S) \in Int /\ Max(T) \in Int /\ Min(T) \in Int
    BY <2>1, <2>3
  <2>5. QED
    BY <2>2, <2>4
<1>4. QED
  BY <1>1, <1>2, <1>3

LEMMA SpreadIsInt ==
  ASSUME NEW w, w.stats \in StatsType, StatsKept(w), NEW b \in 1..2
  PROVE  SpreadOf(w.stats, b) \in 1..255
<1>1. w.stats.dlc \in 0..2 /\ w.stats.seen[b] \in SUBSET Bytes
  BY DEF StatsType
<1>2. CASE b <= w.stats.dlc
  <2>1. w.stats.seen[b] # {}
    BY <1>1, <1>2 DEF StatsKept
  <2>2. QED
    BY <1>1, <1>2, <2>1, SpreadGrows DEF SpreadOf
<1>3. CASE ~(b <= w.stats.dlc)
  BY <1>3 DEF SpreadOf
<1>4. QED
  BY <1>2, <1>3

\* computeWiggleDiff: what a byte that is steady in both windows scores.
LEMMA DiffOfWindows ==
  ASSUME wiggle \in WiggleType, StatsKept(wiggle), NEW kind, NEW b \in 1..2,
         NEW x \in Bytes, NEW y \in Bytes, Steady(wiggle.before, b, x), Steady(wiggle.after, b, y)
  PROVE  IF x = y THEN b \notin Scoring(kind)
         ELSE b \in Scoring(kind) \/ 20 * Abs(x - y) <= SpreadOf(wiggle.stats, b)
<1> DEFINE before == wiggle.before
           after == wiggle.after
           n == Len(before)
           m == Len(after)
           w == SpreadOf(wiggle.stats, b)
           means == Abs(SumOf(after, b) * n - SumOf(before, b) * m)
           whole == w * (n * m)
           d == Abs(x - y)
<1>1. /\ before \in Seq(Payloads) /\ after \in Seq(Payloads)
      /\ n \in Nat \ {0} /\ m \in Nat \ {0} /\ x \in Nat /\ y \in Nat
  BY DEF WiggleType, Steady, Bytes
<1>2. w \in 1..255
  BY SpreadIsInt DEF WiggleType
<1>3. Width(b) = w /\ Whole(b) = whole
  BY DEF Width, SpreadOf, Spread, Whole
<1>4. b <= Len(before[1]) /\ before # <<>> /\ after # <<>>
  BY <1>1 DEF Steady
<1>5. Values(before, b) = {x} /\ Values(after, b) = {y}
  BY <1>1, OneValue
<1>6. SumOf(before, b) = x * n /\ SumOf(after, b) = y * m
  BY <1>1, SumOfOneValue
<1> HIDE DEF before, after, n, m, w
<1>7. /\ whole \in Nat \ {0} /\ means \in Nat /\ (x = y => means = 0)
      /\ (20 * means > whole <=> 20 * d > w)
  <2>1. means = Abs((y * m) * n - (x * n) * m)
    BY <1>6
  <2> HIDE DEF means
  <2>2. w \in Nat \ {0}
    BY <1>2
  <2>3. QED
    BY <1>1, <2>1, <2>2, ScoreOf, SMTT(30)
<1> DEFINE moved == IF kind # "binary" THEN IF means < whole THEN means ELSE whole
                    ELSE IF x # y THEN whole ELSE 0
<1>8. Moved(b, kind) = moved
  <2>1. Values(before, b) # Values(after, b) <=> x # y
    BY <1>5
  <2> HIDE DEF whole
  <2>2. QED
    BY <1>3, <2>1 DEF Moved, before, after, n, m
<1>9. b \in Scoring(kind) <=> 20 * moved > whole
  BY <1>3, <1>4, <1>8 DEF Scoring, before, after
<1>10. d \in Nat
  BY <1>1 DEF Abs
<1> HIDE DEF means, whole, d
<1>11. x = y => ~(20 * moved > whole)
  BY <1>7
<1>12. x # y => 20 * moved > whole \/ 20 * d <= w
  BY <1>2, <1>7, <1>10
<1>13. QED
  BY <1>9, <1>11, <1>12 DEF w, d

LEMMA WiggleStarts ==
  ASSUME WiggleInit
  PROVE  WiggleInv
<1> DEFINE none == << >>
           seen == <<{}, {}>>
           yes == TRUE
           no == FALSE
           came == [w \in {"baseline", "after"} |-> <<>>]
           stats == [dlc |-> 0, seen |-> seen, frames |-> 0]
<1>1. wiggle = [state |-> "idle", before |-> none, after |-> none, collecting |-> {}, timers |-> {},
                count |-> 0, start |-> yes, done |-> no, stats |-> stats, candidates |-> {},
                rows |-> 0, came |-> came]
  BY DEF WiggleInit, NoStats
<1>2. none \in Seq(Payloads) /\ LastFew(none) = none
  <2>1. none \in Seq(Payloads) /\ Len(none) = 0
    OBVIOUS
  <2>2. QED
    BY <2>1, WiggleAssumption DEF LastFew
<1>3. came \in [Windows -> Seq(Payloads)] /\ came["baseline"] = none /\ came["after"] = none
  BY <1>2 DEF Windows
<1>4. yes /\ ~no /\ yes \in BOOLEAN /\ no \in BOOLEAN /\ 0 \in Nat
  OBVIOUS
<1>5. stats \in StatsType /\ stats.dlc = 0
  <2>1. seen \in [1..2 -> SUBSET Bytes]
    OBVIOUS
  <2> HIDE DEF seen
  <2>2. QED
    BY <2>1 DEF StatsType, EnoughFrames
<1> HIDE DEF none, yes, no, came, stats
<1>6. wiggle \in WiggleType
  BY <1>1, <1>2, <1>3, <1>4, <1>5 DEF WiggleType, WiggleStates
<1>7. WindowsKept(wiggle)
  BY <1>1, <1>2, <1>3 DEF WindowsKept
<1>8. ButtonsShown(wiggle)
  BY <1>1, <1>4 DEF ButtonsShown, Windows
<1>9. StatsKept(wiggle) /\ ResultsKept(wiggle)
  BY <1>1, <1>5 DEF StatsKept, ResultsKept
<1>10. QED
  BY <1>6, <1>7, <1>8, <1>9 DEF WiggleInv

LEMMA WiggleFrameKeeps ==
  ASSUME WiggleInv, WiggleFrame
  PROVE  WiggleInv'
<1>1. PICK p \in Payloads :
        LET dlc == IF wiggle.stats.dlc = 0 THEN Len(p) ELSE wiggle.stats.dlc
            seen == [b \in 1..2 |-> IF b <= dlc /\ b <= Len(p) THEN wiggle.stats.seen[b] \cup {p[b]}
                                                              ELSE wiggle.stats.seen[b]] IN
        wiggle' = [wiggle EXCEPT
         !.stats = [dlc |-> dlc, seen |-> seen,
                    frames |-> IF @.frames < EnoughFrames THEN @.frames + 1 ELSE @.frames],
         !.before = IF "before" \in wiggle.collecting THEN Windowed(@, p) ELSE @,
         !.after = IF "after" \in wiggle.collecting THEN Windowed(@, p) ELSE @,
         !.came = [w \in DOMAIN @ |-> IF w = wiggle.state THEN Append(@[w], p) ELSE @[w]]]
  BY DEF WiggleFrame
<1> DEFINE dlc == IF wiggle.stats.dlc = 0 THEN Len(p) ELSE wiggle.stats.dlc
           seen == [b \in 1..2 |-> IF b <= dlc /\ b <= Len(p) THEN wiggle.stats.seen[b] \cup {p[b]}
                                                             ELSE wiggle.stats.seen[b]]
           counted == IF wiggle.stats.frames < EnoughFrames THEN wiggle.stats.frames + 1
                                                            ELSE wiggle.stats.frames
           stats == [dlc |-> dlc, seen |-> seen, frames |-> counted]
           before == IF "before" \in wiggle.collecting THEN Windowed(wiggle.before, p) ELSE wiggle.before
           after == IF "after" \in wiggle.collecting THEN Windowed(wiggle.after, p) ELSE wiggle.after
           came == [w \in DOMAIN wiggle.came |-> IF w = wiggle.state THEN Append(wiggle.came[w], p)
                                                                    ELSE wiggle.came[w]]
<1>2. wiggle' = [[[[wiggle EXCEPT !.stats = stats] EXCEPT !.before = before] EXCEPT !.after = after]
                   EXCEPT !.came = came]
  <2>1. wiggle' = [wiggle EXCEPT !.stats = stats, !.before = before, !.after = after, !.came = came]
    BY ONLY <1>1
  <2>2. wiggle \in WiggleType
    BY DEF WiggleInv
  <2> HIDE DEF stats, before, after, came
  <2>3. QED
    BY <2>1, <2>2 DEF WiggleType
<1>3. Len(p) \in 1..2 /\ \A b \in 1..Len(p) : p[b] \in Bytes
  BY PayloadBytes
<1>4. /\ wiggle.stats \in [dlc : 0..2, seen : [1..2 -> SUBSET Bytes], frames : 0..EnoughFrames]
      /\ wiggle.before \in Seq(Payloads) /\ wiggle.after \in Seq(Payloads)
      /\ wiggle.came \in [Windows -> Seq(Payloads)]
  BY DEF WiggleInv, WiggleType, StatsType
<1>5. dlc \in 0..2 /\ (wiggle.stats.dlc = 0 => dlc = Len(p)) /\ (wiggle.stats.dlc # 0 => dlc = wiggle.stats.dlc)
  BY <1>3, <1>4
<1> HIDE DEF dlc
<1>6. seen \in [1..2 -> SUBSET Bytes]
  BY <1>3, <1>4
<1>7. \A b \in 1..dlc : seen[b] # {}
  <2>1. ASSUME NEW b \in 1..dlc PROVE seen[b] # {}
    <3>1. b \in 1..2
      BY <1>5
    <3>2. CASE wiggle.stats.dlc = 0
      <4>1. b <= dlc /\ b <= Len(p)
        BY <1>5, <3>2
      <4>2. seen[b] = wiggle.stats.seen[b] \cup {p[b]}
        BY <3>1, <4>1
      <4>3. QED
        BY <4>2
    <3>3. CASE wiggle.stats.dlc # 0
      BY <1>5, <3>1, <3>3 DEF WiggleInv, StatsKept
    <3>4. QED
      BY <3>2, <3>3
  <2>2. QED
    BY <2>1
<1>7a. ASSUME NEW b \in 1..2 PROVE SpreadOf(wiggle.stats, b) <= SpreadOf([dlc |-> dlc, seen |-> seen], b)
  <2> DEFINE old == wiggle.stats.seen[b]
  <2>1. old \in SUBSET Bytes /\ seen[b] \in SUBSET Bytes /\ old \subseteq seen[b]
    BY <1>4, <1>6
  <2>2. b <= wiggle.stats.dlc => old # {} /\ b <= dlc
    BY <1>4, <1>5 DEF WiggleInv, StatsKept
  <2>3. b <= dlc => seen[b] # {}
    BY <1>5, <1>7
  <2> HIDE DEF old, seen
  <2>4. b <= dlc => Spread(seen[b]) \in 1..255
    BY <2>1, <2>3, SpreadGrows
  <2>5. b <= wiggle.stats.dlc => Spread(old) <= Spread(seen[b])
    BY <2>1, <2>2, SpreadGrows
  <2>6. QED
    BY <2>2, <2>4, <2>5 DEF SpreadOf, old
<1> HIDE DEF seen
<1>8. /\ stats \in StatsType /\ stats.dlc = dlc /\ stats.seen = seen
      /\ \A b \in 1..2 : SpreadOf(wiggle.stats, b) <= SpreadOf(stats, b)
  <2>1. counted \in 0..EnoughFrames
    BY <1>4 DEF EnoughFrames
  <2> HIDE DEF counted
  <2>2. QED
    BY <1>5, <1>6, <1>7a, <2>1 DEF StatsType, SpreadOf
<1>9. \A w \in Windows : LastFew(wiggle.came[w]) \in Seq(Payloads)
                         /\ LastFew(Append(wiggle.came[w], p)) = Windowed(LastFew(wiggle.came[w]), p)
                         /\ LastFew(Append(wiggle.came[w], p)) \in Seq(Payloads)
  <2>1. ASSUME NEW w \in Windows PROVE wiggle.came[w] \in Seq(Payloads) /\ Append(wiggle.came[w], p) \in Seq(Payloads)
    BY <1>4
  <2>2. QED
    BY <2>1, LastFewAfter
<1>10. ("before" \in wiggle.collecting <=> wiggle.state = "baseline") /\ ("after" \in wiggle.collecting <=> wiggle.state = "after")
  BY DEF WiggleInv, ButtonsShown
<1>11. LastFew(wiggle.came["baseline"]) = wiggle.before /\ LastFew(wiggle.came["after"]) = wiggle.after
  BY DEF WiggleInv, WindowsKept
<1>12. /\ came \in [Windows -> Seq(Payloads)] /\ LastFew(came["baseline"]) = before
       /\ LastFew(came["after"]) = after /\ before \in Seq(Payloads) /\ after \in Seq(Payloads)
  <2>1. "baseline" \in Windows /\ "after" \in Windows
    BY DEF Windows
  <2>2. \A w \in Windows : came[w] = IF w = wiggle.state THEN Append(wiggle.came[w], p) ELSE wiggle.came[w]
    BY <1>4
  <2>3. came \in [Windows -> Seq(Payloads)]
    BY <1>4
  <2> HIDE DEF came
  <2>4. QED
    BY <1>9, <1>10, <1>11, <2>1, <2>2, <2>3
<1>13. wiggle.state = "results" => before = wiggle.before /\ after = wiggle.after
  BY <1>10
<1> HIDE DEF stats, before, after, came
<1>14. /\ wiggle' \in WiggleType /\ wiggle'.stats = stats /\ wiggle'.before = before /\ wiggle'.after = after
       /\ wiggle'.came = came /\ wiggle'.state = wiggle.state /\ wiggle'.collecting = wiggle.collecting
       /\ wiggle'.timers = wiggle.timers /\ wiggle'.start = wiggle.start /\ wiggle'.done = wiggle.done
       /\ wiggle'.candidates = wiggle.candidates /\ wiggle'.rows = wiggle.rows
  BY <1>2, <1>8, <1>12 DEF WiggleInv, WiggleType
<1>15. WindowsKept(wiggle')
  BY <1>12, <1>14 DEF WindowsKept
<1>16. ButtonsShown(wiggle')
  BY <1>14 DEF WiggleInv, ButtonsShown
<1>17. StatsKept(wiggle')
  BY <1>7, <1>8, <1>14 DEF StatsKept
<1>18. ResultsKept(wiggle')
  <2>1. ASSUME wiggle'.state = "results", NEW b \in 1..2, NEW x \in Bytes, NEW y \in Bytes,
               Steady(wiggle'.before, b, x), Steady(wiggle'.after, b, y)
        PROVE  ByteFound(wiggle', b, x, y)
    <3>1. ByteFound(wiggle, b, x, y)
      BY <1>13, <1>14, <2>1 DEF WiggleInv, ResultsKept
    <3>2. SpreadOf(wiggle.stats, b) <= SpreadOf(wiggle'.stats, b)
      BY <1>8, <1>14
    <3>3. 20 * Abs(x - y) \in Int
      BY DEF Abs, Bytes
    <3>4. wiggle.stats \in StatsType /\ wiggle'.stats \in StatsType
      BY <1>8, <1>14 DEF WiggleInv, WiggleType
    <3>5. SpreadOf(wiggle.stats, b) \in Int
      BY <3>4, SpreadIsInt DEF WiggleInv
    <3>6. SpreadOf(wiggle'.stats, b) \in Int
      BY <1>17, <3>4, SpreadIsInt
    <3>7. 20 * Abs(x - y) <= SpreadOf(wiggle.stats, b) => 20 * Abs(x - y) <= SpreadOf(wiggle'.stats, b)
      BY <3>2, <3>3, <3>5, <3>6
    <3>8. QED
      BY <1>14, <3>1, <3>7 DEF ByteFound
  <2>2. QED
    BY <2>1 DEF ResultsKept
<1>19. QED
  BY <1>14, <1>15, <1>16, <1>17, <1>18, SMTT(30) DEF WiggleInv, WindowsKept, ButtonsShown, StatsKept, ResultsKept

LEMMA WiggleStepKeeps ==
  ASSUME WiggleInv, StartWiggle \/ BaselineTick \/ ActionDone \/ AfterTick
  PROVE  WiggleInv'
<1> DEFINE none == << >>
           yes == TRUE
           no == FALSE
<1>1. yes /\ ~no /\ yes \in BOOLEAN /\ no \in BOOLEAN /\ none \in Seq(Payloads) /\ LastFew(none) = none
  <2>1. none \in Seq(Payloads) /\ Len(none) = 0
    OBVIOUS
  <2>2. QED
    BY <2>1, WiggleAssumption DEF LastFew
<1>2. /\ wiggle \in WiggleType /\ WindowsKept(wiggle) /\ ButtonsShown(wiggle) /\ StatsKept(wiggle)
      /\ ResultsKept(wiggle)
  BY DEF WiggleInv
<1>3. /\ wiggle.came \in [Windows -> Seq(Payloads)] /\ wiggle.count + 1 \in Nat /\ 0 \in Nat
      /\ TickCount \in Nat
  BY <1>2 DEF WiggleType, TickCount
<1>4. CASE StartWiggle
  <2> DEFINE came == [w \in DOMAIN wiggle.came |-> none]
             timers == wiggle.timers \cup {"baseline"}
  <2>1. wiggle' = [wiggle EXCEPT !.state = "baseline", !.before = none, !.after = none, !.count = 0,
                     !.collecting = {"before"}, !.timers = timers, !.start = no, !.done = no,
                     !.candidates = {}, !.rows = 0, !.came = came]
    BY <1>4 DEF StartWiggle
  <2>2. came \in [Windows -> Seq(Payloads)] /\ came["baseline"] = none /\ came["after"] = none
    BY <1>1, <1>3 DEF Windows
  <2>3. timers = {"baseline"}
    BY <1>4, <1>2 DEF StartWiggle, ButtonsShown, Windows
  <2> HIDE DEF none, yes, no, came, timers
  <2>4. /\ wiggle' \in WiggleType /\ wiggle'.state = "baseline" /\ wiggle'.before = none
        /\ wiggle'.after = none /\ wiggle'.collecting = {"before"} /\ wiggle'.timers = timers
        /\ wiggle'.start = no /\ wiggle'.done = no /\ wiggle'.came = came
        /\ wiggle'.stats = wiggle.stats
    BY <1>1, <1>2, <1>3, <2>1, <2>2, <2>3 DEF WiggleType, WiggleStates, Windows
  <2>5. WindowsKept(wiggle') /\ StatsKept(wiggle') /\ ResultsKept(wiggle')
    BY <1>1, <1>2, <2>2, <2>4 DEF WindowsKept, StatsKept, ResultsKept
  <2>6. ButtonsShown(wiggle')
    BY <1>1, <2>3, <2>4 DEF ButtonsShown, Windows
  <2>7. QED
    BY <2>4, <2>5, <2>6 DEF WiggleInv, WindowsKept, ButtonsShown, StatsKept, ResultsKept
<1>5. CASE BaselineTick
  <2>1. wiggle.state = "baseline" /\ wiggle.timers = {"baseline"}
    BY <1>2, <1>5 DEF BaselineTick, ButtonsShown, Windows
  <2>2. CASE wiggle.count + 1 < TickCount
    <3>1. wiggle' = [wiggle EXCEPT !.count = wiggle.count + 1]
      BY <1>5, <2>2 DEF BaselineTick
    <3>2. /\ wiggle' \in WiggleType /\ wiggle'.state = wiggle.state /\ wiggle'.before = wiggle.before
          /\ wiggle'.after = wiggle.after /\ wiggle'.collecting = wiggle.collecting
          /\ wiggle'.timers = wiggle.timers /\ wiggle'.start = wiggle.start
          /\ wiggle'.done = wiggle.done /\ wiggle'.came = wiggle.came
          /\ wiggle'.stats = wiggle.stats /\ wiggle'.candidates = wiggle.candidates
          /\ wiggle'.rows = wiggle.rows
      BY <1>2, <1>3, <3>1 DEF WiggleType
    <3>3. QED
      BY <1>2, <3>2 DEF WiggleInv, WindowsKept, ButtonsShown, StatsKept, ResultsKept, ByteFound
  <2>3. CASE ~(wiggle.count + 1 < TickCount)
    <3> DEFINE collecting == wiggle.collecting \ {"before"}
               timers == wiggle.timers \ {"baseline"}
    <3>1. wiggle' = [wiggle EXCEPT !.timers = timers, !.collecting = collecting, !.count = TickCount,
                                   !.state = "waiting", !.done = yes]
      BY <1>5, <2>3 DEF BaselineTick
    <3>2. timers = {} /\ collecting = {}
      BY <1>2, <2>1 DEF ButtonsShown, WiggleType
    <3> HIDE DEF yes, no, none, timers, collecting
    <3>3. /\ wiggle' \in WiggleType /\ wiggle'.state = "waiting" /\ wiggle'.before = wiggle.before
          /\ wiggle'.after = wiggle.after /\ wiggle'.collecting = {} /\ wiggle'.timers = {}
          /\ wiggle'.start = wiggle.start /\ wiggle'.done = yes /\ wiggle'.came = wiggle.came
          /\ wiggle'.stats = wiggle.stats
      BY <1>1, <1>2, <1>3, <3>1, <3>2 DEF WiggleType, WiggleStates
    <3>4. ButtonsShown(wiggle')
      BY <1>1, <1>2, <2>1, <3>3 DEF ButtonsShown, Windows
    <3>5. WindowsKept(wiggle') /\ StatsKept(wiggle') /\ ResultsKept(wiggle')
      BY <1>2, <3>3 DEF WindowsKept, StatsKept, ResultsKept
    <3>6. QED
      BY <3>3, <3>4, <3>5 DEF WiggleInv, WindowsKept, ButtonsShown, StatsKept, ResultsKept
  <2>4. QED
    BY <2>2, <2>3
<1>6. CASE ActionDone
  <2> DEFINE collecting == wiggle.collecting \cup {"after"}
             timers == wiggle.timers \cup {"after"}
  <2>1. wiggle' = [wiggle EXCEPT !.done = no, !.state = "after", !.collecting = collecting,
                                 !.count = 0, !.timers = timers]
    BY <1>6 DEF ActionDone
  <2>2. wiggle.state = "waiting"
    BY <1>2, <1>6 DEF ActionDone, ButtonsShown
  <2>3. timers = {"after"} /\ collecting = {"after"}
    BY <1>2, <2>2 DEF ButtonsShown, Windows, WiggleType
  <2> HIDE DEF yes, no, none, timers, collecting
  <2>4. /\ wiggle' \in WiggleType /\ wiggle'.state = "after" /\ wiggle'.before = wiggle.before
        /\ wiggle'.after = wiggle.after /\ wiggle'.collecting = {"after"} /\ wiggle'.timers = {"after"}
        /\ wiggle'.start = wiggle.start /\ wiggle'.done = no /\ wiggle'.came = wiggle.came
        /\ wiggle'.stats = wiggle.stats
    BY <1>1, <1>2, <1>3, <2>1, <2>3 DEF WiggleType, WiggleStates, Windows
  <2>5. ButtonsShown(wiggle')
    BY <1>1, <1>2, <2>2, <2>4 DEF ButtonsShown, Windows
  <2>6. WindowsKept(wiggle') /\ StatsKept(wiggle') /\ ResultsKept(wiggle')
    BY <1>2, <2>4 DEF WindowsKept, StatsKept, ResultsKept
  <2>7. QED
    BY <2>4, <2>5, <2>6 DEF WiggleInv, WindowsKept, ButtonsShown, StatsKept, ResultsKept
<1>7. CASE AfterTick
  <2>1. wiggle.state = "after" /\ wiggle.timers = {"after"}
    BY <1>2, <1>7 DEF AfterTick, ButtonsShown, Windows
  <2>2. CASE wiggle.count + 1 < TickCount
    <3>1. wiggle' = [wiggle EXCEPT !.count = wiggle.count + 1]
      BY <1>7, <2>2 DEF AfterTick
    <3>2. /\ wiggle' \in WiggleType /\ wiggle'.state = wiggle.state /\ wiggle'.before = wiggle.before
          /\ wiggle'.after = wiggle.after /\ wiggle'.collecting = wiggle.collecting
          /\ wiggle'.timers = wiggle.timers /\ wiggle'.start = wiggle.start
          /\ wiggle'.done = wiggle.done /\ wiggle'.came = wiggle.came
          /\ wiggle'.stats = wiggle.stats /\ wiggle'.candidates = wiggle.candidates
          /\ wiggle'.rows = wiggle.rows
      BY <1>2, <1>3, <3>1 DEF WiggleType
    <3>3. QED
      BY <1>2, <3>2 DEF WiggleInv, WindowsKept, ButtonsShown, StatsKept, ResultsKept, ByteFound
  <2>3. CASE ~(wiggle.count + 1 < TickCount)
    <3> DEFINE collecting == wiggle.collecting \ {"after"}
               timers == wiggle.timers \ {"after"}
    <3>1. PICK counters \in SUBSET Varying, others \in 0..MaxResults :
            LET kind == Kind(counters) IN
            \E best \in SUBSET Scoring(kind) :
              /\ counters = {} \/ wiggle.stats.frames = EnoughFrames
              /\ Cardinality(best) + others <= MaxResults
              /\ best = Scoring(kind) \/ Cardinality(best) + others = MaxResults
              /\ \A b \in best, c \in Scoring(kind) \ best :
                   Moved(c, kind) * Whole(b) <= Moved(b, kind) * Whole(c)
              /\ wiggle' = [wiggle EXCEPT !.timers = timers, !.collecting = collecting,
                   !.count = TickCount, !.state = "results", !.done = no, !.start = yes,
                   !.candidates = best, !.rows = Cardinality(best) + others]
      BY <1>7, <2>3 DEF AfterTick
    <3> DEFINE scoring == Scoring(Kind(counters))
    <3>2. PICK best \in SUBSET scoring :
              /\ best = scoring \/ Cardinality(best) + others = MaxResults
              /\ wiggle' = [wiggle EXCEPT !.timers = timers, !.collecting = collecting,
                   !.count = TickCount, !.state = "results", !.done = no, !.start = yes,
                   !.candidates = best, !.rows = Cardinality(best) + others]
      BY <3>1
    <3>2a. scoring \subseteq 1..2
      BY DEF Scoring
    <3>2b. \A b \in 1..2 : \A x, y \in Bytes :
             Steady(wiggle.before, b, x) /\ Steady(wiggle.after, b, y) =>
               IF x = y THEN b \notin scoring
               ELSE b \in scoring \/ 20 * Abs(x - y) <= SpreadOf(wiggle.stats, b)
      BY <1>2, DiffOfWindows
    <3> DEFINE rows == Cardinality(best) + others
    <3> HIDE DEF scoring
    <3>2c. rows \in Nat
      <4>1. best \subseteq 1..2 /\ 1 \in Int /\ 2 \in Int
        BY <3>2a
      <4>1a. IsFiniteSet(1..2)
        BY <4>1, FS_Interval
      <4>2. Cardinality(best) \in Nat
        BY <4>1, <4>1a, FS_Subset, FS_CardinalityType
      <4>3. others \in Nat
        BY WiggleAssumption
      <4>4. QED
        BY <4>2, <4>3
    <3>3. timers = {} /\ collecting = {}
      BY <1>2, <2>1 DEF ButtonsShown, WiggleType
    <3> HIDE DEF yes, no, none, timers, collecting, rows
    <3>4. /\ wiggle' \in WiggleType /\ wiggle'.state = "results" /\ wiggle'.before = wiggle.before
          /\ wiggle'.after = wiggle.after /\ wiggle'.collecting = {} /\ wiggle'.timers = {}
          /\ wiggle'.start = yes /\ wiggle'.done = no /\ wiggle'.came = wiggle.came
          /\ wiggle'.stats = wiggle.stats /\ wiggle'.candidates = best /\ wiggle'.rows = rows
      BY <1>1, <1>2, <1>3, <3>2, <3>2a, <3>2c, <3>3 DEF WiggleType, WiggleStates, rows
    <3>5. ButtonsShown(wiggle')
      BY <1>1, <3>4 DEF ButtonsShown, Windows
    <3>6. WindowsKept(wiggle') /\ StatsKept(wiggle')
      BY <1>2, <3>4 DEF WindowsKept, StatsKept
    <3>7. ResultsKept(wiggle')
      <4>1. best = scoring \/ rows = MaxResults
        BY <3>2 DEF rows
      <4>2. QED
        BY <3>2, <3>2b, <3>4, <4>1 DEF ResultsKept, ByteFound
    <3>8. QED
      BY <3>4, <3>5, <3>6, <3>7 DEF WiggleInv, WindowsKept, ButtonsShown, StatsKept, ResultsKept
  <2>4. QED
    BY <2>2, <2>3
<1>8. QED
  BY <1>4, <1>5, <1>6, <1>7

LEMMA WiggleKept ==
  ASSUME WiggleInv, WiggleNext \/ UNCHANGED wiggle
  PROVE  WiggleInv'
<1>1. CASE UNCHANGED wiggle
  BY <1>1 DEF WiggleInv, WindowsKept, ButtonsShown, StatsKept, ResultsKept
<1>2. CASE WiggleNext
  BY <1>2, WiggleFrameKeeps, WiggleStepKeeps DEF WiggleNext, WiggleReacts
<1>3. QED
  BY <1>1, <1>2

LEMMA FrameParts ==
  ASSUME NEW f \in MonFrame
  PROVE  f[1] \in MonIds /\ f[2] \in MonData /\ f = <<f[1], f[2]>>
BY DEF MonFrame

LEMMA LogReached ==
  ASSUME MonitorInv, ~monitor.track
  PROVE  MonitorSound
<1>1. /\ monitor.rows \in Seq(MonRow) /\ monitor.came \in Seq(MonFrame) /\ LogGood(monitor)
      /\ DOMAIN monitor.rows = 1..Len(monitor.rows) /\ DOMAIN monitor.came = 1..Len(monitor.came)
  BY DEF MonitorInv, MonitorGood, MonitorType
<1>2. Len(monitor.rows) <= MaxRows
  BY <1>1 DEF LogGood, RowsLogged
<1>3. ASSUME NEW r \in DOMAIN monitor.rows
      PROVE  /\ <<monitor.rows[r].id, monitor.rows[r].data>>
                   = monitor.came[Len(monitor.came) - Len(monitor.rows) + r]
             /\ monitor.rows[r].hidden = ~Found(monitor, monitor.rows[r].id)
  <2>1. monitor.rows[r] \in MonRow
    BY <1>1
  <2>2. monitor.rows[r].hidden \in BOOLEAN
    BY <2>1 DEF MonRow
  <2>3. monitor.rows[r].hidden <=> ~Found(monitor, monitor.rows[r].id)
    BY <1>1 DEF LogGood, LogHidden
  <2>4. monitor.rows[r].hidden = ~Found(monitor, monitor.rows[r].id)
    BY ONLY <2>2, <2>3
  <2>5. QED
    BY <1>1, <2>4 DEF LogGood, RowsLogged
<1>4. ~monitor.lapsed => \A j, k \in DOMAIN monitor.came :
        j < k /\ LastUpTo(j, k - 1) => monitor.came[j] # monitor.came[k]
  BY <1>1 DEF LogGood, Changing, LastUpTo, LastOf
<1>5. QED
  BY <1>2, <1>3, <1>4 DEF MonitorSound

LEMMA TrackReached ==
  ASSUME MonitorInv, monitor.track
  PROVE  MonitorSound
<1> DEFINE rows == monitor.rows
           came == monitor.came
           tracked == monitor.tracked
<1>1. /\ rows \in Seq(MonRow) /\ came \in Seq(MonFrame) /\ TrackGood(monitor)
      /\ DOMAIN rows = 1..Len(rows) /\ DOMAIN came = 1..Len(came)
  BY DEF MonitorInv, MonitorGood, MonitorType
<1>2. /\ \A r \in 1..Len(rows) : rows[r].id \in MonIds /\ rows[r].hidden \in BOOLEAN
      /\ \A k \in 1..Len(came) : came[k][1] \in MonIds /\ came[k][2] \in MonData /\ came[k] = <<came[k][1], came[k][2]>>
  <2>1. \A r \in 1..Len(rows) : rows[r] \in MonRow
    BY <1>1
  <2>2. \A k \in 1..Len(came) : came[k] \in MonFrame
    BY <1>1
  <2>3. QED
    BY <2>1, <2>2, FrameParts DEF MonRow
<1>3. /\ \A r \in 1..Len(rows) : tracked[rows[r].id].row = r
      /\ \A id \in MonIds : EntryGood(tracked[id], rows, came, id)
      /\ \A r \in 1..Len(rows) : rows[r].hidden <=> Hidden(monitor, rows[r].id)
  BY <1>1 DEF TrackGood, EntriesGood, RowsTracked, TrackHidden
<1>4. \A r \in 1..Len(rows) :
        LET id == rows[r].id
            e == tracked[id] IN
        /\ e.row = r /\ rows[r].data = e.last
        /\ \E k \in 1..Len(came) : /\ came[k] = <<id, e.last>>
                                   /\ \A i \in (k + 1)..Len(came) : came[i][1] # id
        /\ ~e.ever <=> \A k \in 1..Len(came) : came[k][1] = id => came[k][2] = e.last
  <2>1. ASSUME NEW r \in 1..Len(rows)
        PROVE  LET id == rows[r].id
                   e == tracked[id] IN
               /\ e.row = r /\ rows[r].data = e.last
               /\ \E k \in 1..Len(came) : /\ came[k] = <<id, e.last>>
                                          /\ \A i \in (k + 1)..Len(came) : came[i][1] # id
               /\ ~e.ever <=> \A k \in 1..Len(came) : came[k][1] = id => came[k][2] = e.last
    <3> DEFINE id == rows[r].id
               e == tracked[id]
    <3>1. id \in MonIds /\ e.row = r
      BY <1>2, <1>3
    <3>2. EntryGood(e, rows, came, id)
      BY <1>3, <3>1
    <3>3. e.row # 0
      BY <1>1, <3>1
    <3> HIDE DEF e, id, rows, came, tracked
    <3>4. /\ rows[e.row].data = e.last
          /\ \E k \in 1..Len(came) : /\ came[k] = <<id, e.last>>
                                     /\ \A i \in (k + 1)..Len(came) : came[i][1] # id
          /\ ~e.ever <=> \A k \in 1..Len(came) : came[k][1] = id => came[k][2] = e.last
      BY <3>2, <3>3 DEF EntryGood
    <3>5. QED
      BY <3>1, <3>4 DEF e, id
  <2>2. QED
    BY <2>1
<1> HIDE DEF rows, came, tracked
<1>5. {r.id : r \in Range(rows)} = {f[1] : f \in Range(came)}
  <2>1. ASSUME NEW r \in 1..Len(rows) PROVE \E k \in 1..Len(came) : came[k][1] = rows[r].id
    <3> DEFINE id == rows[r].id
               last == tracked[id].last
    <3>1. \E k \in 1..Len(came) : came[k] = <<id, last>>
      BY <1>4
    <3> HIDE DEF last
    <3>2. PICK k \in 1..Len(came) : came[k] = <<id, last>>
      BY <3>1
    <3>3. came[k][1] = id
      BY <3>2
    <3>4. QED
      BY <3>3
  <2>2. ASSUME NEW k \in 1..Len(came) PROVE \E r \in 1..Len(rows) : rows[r].id = came[k][1]
    <3> DEFINE id == came[k][1]
               e == tracked[id]
    <3>1. id \in MonIds
      BY <1>2
    <3>2. EntryGood(e, rows, came, id)
      BY <1>3, <3>1
    <3>3. ~(e.row = 0)
      BY <3>2 DEF EntryGood
    <3> HIDE DEF e
    <3>4. e.row \in 1..Len(rows) /\ rows[e.row].id = id
      BY <3>2, <3>3 DEF EntryGood
    <3>5. QED
      BY <3>4
  <2>3. \A x \in {r.id : r \in Range(rows)} : x \in {f[1] : f \in Range(came)}
    BY <1>1, <2>1 DEF Range
  <2>4. \A x \in {f[1] : f \in Range(came)} : x \in {r.id : r \in Range(rows)}
    BY <1>1, <2>2 DEF Range
  <2>5. QED
    BY <2>3, <2>4
<1>6. ASSUME NEW r \in DOMAIN rows
      PROVE  LET id == rows[r].id IN
             /\ tracked[id].row = r
             /\ \E k \in DOMAIN came : LastOf(came, k, Len(came)) /\ came[k] = <<id, rows[r].data>>
             /\ rows[r].hidden =
                  (~Found(monitor, id) \/ (/\ monitor.changedOnly /\ id \notin monitor.pinned
                                          /\ \A f, g \in Range(came) : f[1] = id /\ g[1] = id => f = g))
  <2> DEFINE id == rows[r].id
             e == tracked[id]
             same == \A f, g \in Range(came) : f[1] = id /\ g[1] = id => f = g
             lost == ~Found(monitor, id)
             plain == monitor.changedOnly /\ id \notin monitor.pinned
  <2>1. r \in 1..Len(rows) /\ id \in MonIds
    BY <1>1, <1>2
  <2>2. /\ e.row = r /\ rows[r].data = e.last
        /\ \E k \in 1..Len(came) : /\ came[k] = <<id, e.last>>
                                   /\ \A i \in (k + 1)..Len(came) : came[i][1] # id
        /\ ~e.ever <=> \A k \in 1..Len(came) : came[k][1] = id => came[k][2] = e.last
    BY <1>4, <2>1
  <2>3. PICK k \in 1..Len(came) : /\ came[k] = <<id, e.last>>
                                  /\ \A i \in (k + 1)..Len(came) : came[i][1] # id
    BY <2>2
  <2>4. LastOf(came, k, Len(came)) /\ came[k] = <<id, rows[r].data>>
    BY <1>1, <2>2, <2>3 DEF LastOf
  <2>5. ~e.ever <=> same
    <3>1. ASSUME ~e.ever PROVE same
      <4>1. \A i \in 1..Len(came) : came[i][1] = id => came[i] = <<id, e.last>>
        BY <1>2, <2>2, <3>1
      <4>2. ASSUME NEW f \in Range(came), f[1] = id PROVE f = <<id, e.last>>
        <5>1. PICK i \in 1..Len(came) : f = came[i]
          BY <1>1 DEF Range
        <5>2. QED
          BY <4>1, <4>2, <5>1
      <4>3. QED
        BY <4>2
    <3>2. ASSUME same PROVE ~e.ever
      <4>1. ASSUME NEW i \in 1..Len(came), came[i][1] = id PROVE came[i][2] = e.last
        <5>1. came[i] \in Range(came) /\ came[k] \in Range(came)
          BY <1>1 DEF Range
        <5>2. came[k][1] = id /\ came[k][2] = e.last
          BY <2>3
        <5>3. came[i] = came[k]
          BY <3>2, <4>1, <5>1, <5>2
        <5>4. QED
          BY <5>2, <5>3
      <4>2. QED
        BY <2>2, <4>1
    <3>3. QED
      BY <3>1, <3>2
  <2>6. Hidden(monitor, id) <=> (plain /\ ~e.ever) \/ lost
    BY DEF Hidden, tracked
  <2>7. rows[r].hidden <=> Hidden(monitor, id)
    BY <1>3, <2>1
  <2>8. rows[r].hidden \in BOOLEAN
    BY <1>2, <2>1
  <2> HIDE DEF same, lost, plain, e
  <2>9. rows[r].hidden <=> lost \/ (plain /\ same)
    BY <2>5, <2>6, <2>7
  <2>10. rows[r].hidden = (lost \/ (plain /\ same))
    BY ONLY <2>8, <2>9
  <2>11. rows[r].hidden =
                  (~Found(monitor, id) \/ (/\ monitor.changedOnly /\ id \notin monitor.pinned
                                          /\ \A f, g \in Range(came) : f[1] = id /\ g[1] = id => f = g))
    BY ONLY <2>10 DEF lost, plain, same
  <2>12. QED
    BY <1>1, <2>2, <2>4, <2>11 DEF e
<1>7. QED
  BY <1>1, <1>5, <1>6 DEF MonitorSound, LastUpTo, LastOf, rows, came, tracked

LEMMA MonitorReached ==
  ASSUME MonitorInv
  PROVE  MonitorSound
BY LogReached, TrackReached

\* A row more, or another payload in the row, and what came with it.
LEMMA EntryOfOther ==
  ASSUME NEW e \in MonEntry, NEW rows \in Seq(MonRow), NEW came \in Seq(MonFrame), NEW id \in MonIds,
         NEW data \in MonData, NEW i \in MonIds, NEW more, i # id, Len(rows) <= Len(more), Len(more) \in Nat,
         \A r \in 1..Len(rows) : rows[r].id = i => more[r] = rows[r], EntryGood(e, rows, came, i)
  PROVE  EntryGood(e, more, Append(came, <<id, data>>), i)
<1> DEFINE f == <<id, data>>
           then == Append(came, f)
           n == Len(came)
<1>1. f \in MonFrame /\ f[1] = id
  BY DEF MonFrame
<1> HIDE DEF f
<1>2. /\ n \in Nat /\ Len(then) = n + 1 /\ then[n + 1] = f /\ \A k \in 1..n : then[k] = came[k]
  BY <1>1, AppendProperties
<1> HIDE DEF then
<1>3. \A k \in 1..(n + 1) : k \in 1..n \/ k = n + 1
  BY <1>2
<1>4. CASE e.row = 0
  BY <1>4, <1>1, <1>2, <1>3 DEF EntryGood, then, f
<1>5. CASE e.row # 0
  <2>1. /\ e.row \in 1..Len(rows) /\ rows[e.row].id = i /\ rows[e.row].data = e.last
        /\ \E k \in 1..n : /\ came[k] = <<i, e.last>>
                           /\ \A j \in (k + 1)..n : came[j][1] # i
        /\ ~e.ever <=> \A k \in 1..n : came[k][1] = i => came[k][2] = e.last
    BY <1>5 DEF EntryGood
  <2>2. e.row \in 1..Len(more) /\ more[e.row] = rows[e.row]
    BY <2>1
  <2>3. PICK k \in 1..n : /\ came[k] = <<i, e.last>>
                          /\ \A j \in (k + 1)..n : came[j][1] # i
    BY <2>1
  <2>4. k \in 1..(n + 1) /\ then[k] = <<i, e.last>>
    BY <1>2, <2>3
  <2>5. \A j \in (k + 1)..(n + 1) : then[j][1] # i
    <3>0. n \in Nat /\ k \in 1..n
      BY <1>2
    <3> HIDE DEF n
    <3>1. \A j \in (k + 1)..(n + 1) : j \in (k + 1)..n \/ j = n + 1
      BY ONLY <3>0
    <3>2. \A j \in (k + 1)..n : j \in 1..n
      BY <1>2
    <3>3. QED
      BY <1>1, <1>2, <2>3, <3>1, <3>2
  <2>6. (\A j \in 1..n : came[j][1] = i => came[j][2] = e.last)
          <=> (\A j \in 1..(n + 1) : then[j][1] = i => then[j][2] = e.last)
    BY <1>2, <1>1, <1>3
  <2>7. QED
    BY <1>2, <1>5, <2>1, <2>2, <2>4, <2>5, <2>6 DEF EntryGood, then, f
<1>6. QED
  BY <1>4, <1>5

LEMMA EntryOfFrame ==
  ASSUME NEW e \in MonEntry, NEW rows \in Seq(MonRow), NEW came \in Seq(MonFrame), NEW id \in MonIds,
         NEW data \in MonData, NEW then \in MonEntry, NEW more, then.row # 0, then.row \in 1..Len(more),
         more[then.row].id = id, more[then.row].data = data, then.last = data,
         EntryGood(e, rows, came, id),
         e.row = 0 => ~then.ever, e.row # 0 => (then.ever <=> e.ever \/ data # e.last)
  PROVE  EntryGood(then, more, Append(came, <<id, data>>), id)
<1> DEFINE f == <<id, data>>
           all == Append(came, f)
           n == Len(came)
<1>1. f \in MonFrame /\ f[1] = id /\ f[2] = data
  BY DEF MonFrame
<1>2. f = <<id, then.last>>
  OBVIOUS
<1> HIDE DEF f
<1>3. /\ n \in Nat /\ Len(all) = n + 1 /\ all[n + 1] = f /\ \A k \in 1..n : all[k] = came[k]
  BY <1>1, AppendProperties
<1> HIDE DEF all
<1>4. \A k \in 1..(n + 1) : k \in 1..n \/ k = n + 1
  BY <1>3
<1>5. /\ n + 1 \in 1..Len(all) /\ all[n + 1] = <<id, then.last>>
      /\ \A j \in ((n + 1) + 1)..Len(all) : all[j][1] # id
  BY <1>2, <1>3
<1>6. ~then.ever <=> \A k \in 1..Len(all) : all[k][1] = id => all[k][2] = then.last
  <2>1. (\A k \in 1..Len(all) : all[k][1] = id => all[k][2] = data)
          <=> (\A k \in 1..n : came[k][1] = id => came[k][2] = data)
    BY <1>3, <1>1, <1>4
  <2>2. CASE e.row = 0
    BY <2>2, <2>1 DEF EntryGood
  <2>3. CASE e.row # 0
    <3>1. /\ \E k \in 1..n : came[k] = <<id, e.last>>
          /\ ~e.ever <=> \A k \in 1..n : came[k][1] = id => came[k][2] = e.last
      BY <2>3 DEF EntryGood
    <3>2. PICK k \in 1..n : came[k] = <<id, e.last>>
      BY <3>1
    <3>3. came[k][1] = id /\ came[k][2] = e.last
      BY <3>2
    <3>4. CASE data = e.last
      BY <2>1, <2>3, <3>1, <3>4
    <3>5. CASE data # e.last
      BY <2>1, <2>3, <3>3, <3>5
    <3>6. QED
      BY <3>4, <3>5
  <2>4. QED
    BY <2>2, <2>3
<1>7. QED
  BY <1>5, <1>6 DEF EntryGood, all, f

\* appendLogRow.
LEMMA SeenAfter ==
  ASSUME NEW came \in Seq(MonFrame), NEW lastSeen \in [MonIds -> MonData \cup {NoData}],
         NEW id \in MonIds, NEW data \in MonData, SeenLogged(came, lastSeen), Changing(came),
         lastSeen[id] # data
  PROVE  /\ SeenLogged(Append(came, <<id, data>>), [lastSeen EXCEPT ![id] = data])
         /\ Changing(Append(came, <<id, data>>))
<1> DEFINE f == <<id, data>>
           all == Append(came, f)
           n == Len(came)
           seen == [lastSeen EXCEPT ![id] = data]
<1>1. f \in MonFrame /\ f[1] = id /\ f[2] = data
  BY DEF MonFrame
<1> HIDE DEF f
<1>2. /\ n \in Nat /\ Len(all) = n + 1 /\ all[n + 1] = f /\ \A k \in 1..n : all[k] = came[k]
      /\ \A k \in 1..n : came[k] \in MonFrame
  BY <1>1, AppendProperties
<1>3. seen[id] = data /\ \A i \in MonIds : i # id => seen[i] = lastSeen[i]
  OBVIOUS
<1>4. \A k \in 1..n : LastOf(came, k, n) => lastSeen[came[k][1]] = came[k][2]
  BY DEF SeenLogged
<1>5. \A j, k \in 1..n : j < k /\ LastOf(came, j, k - 1) => came[j] # came[k]
  BY DEF Changing
<1>6. \A k \in 1..n : came[k][1] \in MonIds
  BY <1>2, FrameParts
<1>7. /\ \A k \in 1..(n + 1) : k \in 1..n \/ k = n + 1
      /\ \A k \in 1..n : k <= n /\ n + 1 \in (k + 1)..(n + 1)
  <2>1. n \in Nat
    BY <1>2
  <2> HIDE DEF n
  <2>2. QED
    BY ONLY <2>1
<1>8. \A k \in 1..n, m \in 0..n : LastOf(all, k, m) <=> LastOf(came, k, m)
  <2>1. \A k \in 1..n, m \in 0..n : \A i \in (k + 1)..m : i \in 1..n
    <3>1. n \in Nat
      BY <1>2
    <3> HIDE DEF n
    <3>2. QED
      BY ONLY <3>1
  <2> HIDE DEF all
  <2>2. QED
    BY <1>2, <2>1 DEF LastOf
<1> HIDE DEF all, seen
<1>9. \A k \in 1..n : LastOf(all, k, n + 1) => came[k][1] # id /\ LastOf(came, k, n)
  <2>1. ASSUME NEW k \in 1..n, LastOf(all, k, n + 1) PROVE came[k][1] # id /\ LastOf(came, k, n)
    <3>1. all[n + 1][1] # all[k][1]
      BY <1>7, <2>1 DEF LastOf
    <3>2. \A i \in (k + 1)..n : i \in (k + 1)..(n + 1)
      <4>1. n \in Nat /\ k \in 1..n
        BY <1>2
      <4> HIDE DEF n
      <4>2. QED
        BY ONLY <4>1
    <3>3. LastOf(all, k, n)
      BY <1>7, <2>1, <3>2 DEF LastOf
    <3>4. n \in 0..n
      BY <1>2
    <3>5. QED
      BY <1>1, <1>2, <1>8, <3>1, <3>3, <3>4
  <2>2. QED
    BY <2>1
<1>10. ASSUME NEW k \in 1..Len(all), LastOf(all, k, Len(all))
       PROVE  seen[all[k][1]] = all[k][2]
  BY <1>1, <1>2, <1>3, <1>9, <1>10, <1>4, <1>6, <1>7
<1>11. ASSUME NEW j \in 1..Len(all), NEW k \in 1..Len(all), j < k, LastOf(all, j, k - 1)
       PROVE  all[j] # all[k]
  <2>1. n \in Nat /\ j \in 1..(n + 1) /\ k \in 1..(n + 1) /\ j < k
    BY <1>2, <1>11
  <2>2. j \in 1..n /\ k - 1 \in 0..n
    <3> HIDE DEF n
    <3>1. QED
      BY ONLY <2>1
  <2>3. LastOf(came, j, k - 1)
    BY <1>8, <1>11, <2>2
  <2>4. CASE k = n + 1
    BY <1>2, <2>4, <1>4, <2>2, <2>3, <1>1
  <2>5. CASE k \in 1..n
    BY <1>2, <1>5, <1>11, <2>2, <2>3, <2>5
  <2>6. QED
    BY <1>7, <2>1, <2>4, <2>5
<1>12. SeenLogged(all, seen)
  BY <1>10 DEF SeenLogged
<1>13. Changing(all)
  BY <1>11 DEF Changing
<1>14. QED
  BY <1>12, <1>13 DEF all, seen, f

LEMMA RowsAfter ==
  ASSUME NEW rows \in Seq(MonRow), NEW came \in Seq(MonFrame), RowsLogged(rows, came),
         NEW id \in MonIds, NEW data \in MonData, NEW row \in MonRow, row.id = id, row.data = data,
         NEW more, more = Append(RowsKept(rows), row)
  PROVE  /\ more \in Seq(MonRow) /\ RowsLogged(more, Append(came, <<id, data>>))
         /\ RowsFrom(more, rows, row)
<1> DEFINE f == <<id, data>>
           then == Append(came, f)
           n == Len(came)
           l == Len(rows)
           kept == IF l >= MaxRows THEN Tail(rows) ELSE rows
           c == IF l >= MaxRows THEN 1 ELSE 0
<1>1. f \in MonFrame
  BY DEF MonFrame
<1>2. f = <<row.id, row.data>>
  OBVIOUS
<1> HIDE DEF f
<1>3. /\ n \in Nat /\ Len(then) = n + 1 /\ then[n + 1] = f /\ \A k \in 1..n : then[k] = came[k]
  BY <1>1, AppendProperties
<1>4. l \in Nat /\ MaxRows \in Nat /\ MaxRows >= 1 /\ l <= MaxRows /\ l <= n
  BY RowsAssumption DEF RowsLogged
<1>5. \A r \in 1..l : <<rows[r].id, rows[r].data>> = came[n - l + r]
  BY DEF RowsLogged
<1>6. c \in 0..1 /\ l - c \in Nat /\ l - c + 1 <= MaxRows
  <2> HIDE DEF l
  <2>1. QED
    BY ONLY <1>4 DEF c
<1>7. kept \in Seq(MonRow) /\ Len(kept) = l - c /\ \A r \in 1..(l - c) : kept[r] = rows[r + c]
  BY <1>4, HeadTailProperties
<1>8. more = Append(kept, row)
  BY DEF RowsKept
<1> HIDE DEF then, kept, c
<1>9. /\ more \in Seq(MonRow) /\ Len(more) = l - c + 1 /\ more[l - c + 1] = row
      /\ \A r \in 1..(l - c) : more[r] = kept[r]
  <2>1. /\ Append(kept, row) \in Seq(MonRow) /\ Len(Append(kept, row)) = Len(kept) + 1
        /\ Append(kept, row)[Len(kept) + 1] = row
        /\ \A r \in 1..Len(kept) : Append(kept, row)[r] = kept[r]
    BY <1>7, AppendProperties
  <2>2. Len(kept) = l - c
    BY <1>7
  <2> HIDE DEF l
  <2>3. QED
    BY ONLY <1>8, <2>1, <2>2
<1>10. Len(more) <= MaxRows /\ Len(more) <= n + 1
  <2> DEFINE k == Len(more)
  <2>1. k = l - c + 1
    BY <1>9
  <2> HIDE DEF k, l, n
  <2>2. k <= MaxRows /\ k <= n + 1
    BY ONLY <1>3, <1>4, <1>6, <2>1
  <2>3. QED
    BY <2>2 DEF k
<1>11. ASSUME NEW r \in 1..Len(more)
       PROVE  /\ <<more[r].id, more[r].data>> = then[Len(then) - Len(more) + r]
              /\ more[r] = row \/ \E s \in 1..Len(rows) : more[r] = rows[s]
  <2>1. r \in 1..(l - c + 1)
    BY <1>9
  <2>2. r \in 1..(l - c) \/ r = l - c + 1
    <3> HIDE DEF l
    <3>1. QED
      BY ONLY <1>4, <1>6, <2>1
  <2>3. CASE r = l - c + 1
    <3>1. Len(then) - Len(more) + r = n + 1
      <4> DEFINE k == Len(more)
                 m == Len(then)
      <4>1. k = l - c + 1 /\ m = n + 1
        BY <1>3, <1>9
      <4> HIDE DEF k, m, l, n
      <4>2. m - k + r = n + 1
        BY ONLY <1>3, <1>4, <1>6, <2>3, <4>1
      <4>3. QED
        BY <4>2 DEF k, m
    <3>2. more[r] = row
      BY <1>9, <2>3
    <3>3. QED
      BY <1>2, <1>3, <3>1, <3>2
  <2>4. CASE r \in 1..(l - c)
    <3>1. /\ r + c \in 1..l /\ n - l + (r + c) \in 1..n
          /\ (n + 1) - (l - c + 1) + r = n - l + (r + c)
      <4> HIDE DEF l, n
      <4>1. QED
        BY ONLY <1>3, <1>4, <1>6, <2>4
    <3>2. more[r] = rows[r + c]
      BY <1>7, <1>9, <2>4
    <3>3. Len(then) - Len(more) + r = n - l + (r + c)
      BY <1>3, <1>9, <3>1
    <3>4. then[n - l + (r + c)] = came[n - l + (r + c)]
      BY <1>3, <3>1
    <3>5. <<rows[r + c].id, rows[r + c].data>> = came[n - l + (r + c)]
      BY <1>5, <3>1
    <3>6. QED
      BY <3>1, <3>2, <3>3, <3>4, <3>5
  <2>5. QED
    BY <2>2, <2>3, <2>4
<1>12. RowsLogged(more, then)
  BY <1>3, <1>10, <1>11 DEF RowsLogged
<1>13. QED
  BY <1>9, <1>11, <1>12 DEF then, f, RowsFrom

LEMMA LoggedKeeps ==
  ASSUME NEW m, MonitorGood(m), ~m.track, NEW id \in MonIds, NEW data \in MonData
  PROVE  MonitorGood(Logged(m, id, data))
<1> DEFINE found == Found(m, id)
           row == [id |-> id, data |-> data, hidden |-> ~found]
           more == Append(IF Len(m.rows) >= MaxRows THEN Tail(m.rows) ELSE m.rows, row)
           came == Append(m.came, <<id, data>>)
           lapsed == m.lapsed \/ ~m.changedOnly
           seen == IF m.changedOnly THEN [m.lastSeen EXCEPT ![id] = data] ELSE m.lastSeen
           then == Logged(m, id, data)
<1>1. /\ m \in MonitorType /\ LogGood(m) /\ m.rows \in Seq(MonRow) /\ m.came \in Seq(MonFrame)
      /\ m.lastSeen \in [MonIds -> MonData \cup {NoData}] /\ m.lapsed \in BOOLEAN
      /\ m.changedOnly \in BOOLEAN
  BY DEF MonitorGood, MonitorType
<1>2. CASE m.changedOnly /\ m.lastSeen[id] = data
  BY <1>2 DEF Logged
<1>3. CASE ~(m.changedOnly /\ m.lastSeen[id] = data)
  <2>1. then = [m EXCEPT !.rows = more, !.came = came, !.lapsed = lapsed, !.lastSeen = seen]
    <3>1. CASE m.changedOnly
      <4>1. then = [m EXCEPT !.rows = more, !.came = came, !.lapsed = lapsed, !.lastSeen[id] = data]
        BY <1>3, <3>1 DEF Logged
      <4> HIDE DEF more, came, lapsed, then
      <4>2. QED
        BY <1>1, <3>1, <4>1 DEF MonitorType
    <3>2. CASE ~m.changedOnly
      <4>1. then = [m EXCEPT !.rows = more, !.came = came, !.lapsed = lapsed, !.lastSeen[id] = m.lastSeen[id]]
        BY <1>1, <1>3, <3>2 DEF Logged, MonitorType
      <4>2. [m.lastSeen EXCEPT ![id] = m.lastSeen[id]] = m.lastSeen
        BY <1>1
      <4> HIDE DEF more, came, lapsed, then
      <4>3. QED
        BY <1>1, <3>2, <4>1, <4>2 DEF MonitorType
    <3>3. QED
      BY <3>1, <3>2
  <2>2. row \in MonRow /\ row.id = id /\ row.data = data /\ (row.hidden <=> ~found)
    <3> HIDE DEF found
    <3> DEFINE hidden == ~found
    <3>1. hidden \in BOOLEAN
      OBVIOUS
    <3>2. row = [id |-> id, data |-> data, hidden |-> hidden]
      OBVIOUS
    <3>3. (hidden <=> ~found)
      OBVIOUS
    <3> HIDE DEF hidden
    <3>4. QED
      BY <3>1, <3>2, <3>3 DEF MonRow
  <2> HIDE DEF row, found
  <2>3. RowsLogged(m.rows, m.came)
    BY <1>1 DEF LogGood
  <2>4. /\ more \in Seq(MonRow) /\ RowsLogged(more, came)
        /\ \A r \in 1..Len(more) : more[r] = row \/ \E s \in 1..Len(m.rows) : more[r] = m.rows[s]
    <3> DEFINE rows == m.rows
               old == m.came
    <3>1. /\ rows \in Seq(MonRow) /\ old \in Seq(MonFrame) /\ RowsLogged(rows, old)
          /\ more = Append(RowsKept(rows), row)
      BY <1>1, <2>3 DEF RowsKept
    <3>2. row \in MonRow /\ row.id = id /\ row.data = data
      BY <2>2
    <3>3. came = Append(old, <<id, data>>)
      OBVIOUS
    <3> HIDE DEF more, rows, old, came
    <3>4. /\ more \in Seq(MonRow) /\ RowsLogged(more, Append(old, <<id, data>>))
          /\ RowsFrom(more, rows, row)
      BY ONLY <3>1, <3>2, id \in MonIds, data \in MonData, RowsAfter
    <3>5. QED
      BY <3>3, <3>4 DEF rows, RowsFrom
  <2>5. came \in Seq(MonFrame)
    BY <1>1, AppendProperties DEF MonFrame
  <2>6. seen \in [MonIds -> MonData \cup {NoData}]
    BY <1>1
  <2>7. ~lapsed => SeenLogged(came, seen) /\ Changing(came)
    BY <1>3, <1>1, SeenAfter DEF LogGood
  <2>8. lapsed \in BOOLEAN
    OBVIOUS
  <2> HIDE DEF more, came, lapsed, seen, then
  <2>9. /\ then \in MonitorType /\ then.rows = more /\ then.came = came /\ then.lapsed = lapsed
        /\ then.lastSeen = seen /\ then.track = m.track /\ then.search = m.search
    BY <1>1, <2>1, <2>4, <2>5, <2>6, <2>8 DEF MonitorType
  <2>10. \A i : Found(then, i) <=> Found(m, i)
    BY <2>9 DEF Found
  <2>11. LogHidden(then)
    BY <1>1, <2>2, <2>4, <2>9, <2>10 DEF LogGood, LogHidden, found
  <2>12. LogGood(then)
    BY <2>4, <2>7, <2>9, <2>11 DEF LogGood
  <2>13. QED
    BY <2>9, <2>12 DEF MonitorGood, then
<1>4. QED
  BY <1>2, <1>3

LEMMA EntryAfter ==
  ASSUME NEW old \in MonEntry, NEW data \in MonData, NEW l \in Nat
  PROVE  EntryFollows(NextEntry(old, data, l), old, data, l)
<1> DEFINE entry == NextEntry(old, data, l)
           no == FALSE
           ever == old.ever \/ data # old.last
<1>1. no \in BOOLEAN /\ ~no /\ ever \in BOOLEAN /\ (ever <=> old.ever \/ data # old.last)
  OBVIOUS
<1>2. /\ old.row = 0 => entry = [last |-> data, ever |-> no, row |-> l + 1]
      /\ old.row # 0 => entry = [old EXCEPT !.last = data, !.ever = ever]
  BY DEF NextEntry
<1>3. l + 1 \in Nat /\ l + 1 # 0
  OBVIOUS
<1> HIDE DEF no, ever, entry
<1>4. CASE old.row = 0
  <2>1. entry = [last |-> data, ever |-> no, row |-> l + 1]
    BY <1>2, <1>4
  <2>2. entry \in MonEntry /\ entry.last = data /\ entry.row = l + 1 /\ entry.ever = no
    BY ONLY <1>1, <1>3, <2>1, data \in MonData DEF MonEntry
  <2>3. EntryFollows(entry, old, data, l)
    BY <1>1, <1>3, <1>4, <2>2 DEF EntryFollows
  <2>4. QED
    BY <2>3 DEF entry
<1>5. CASE old.row # 0
  <2>1. entry = [old EXCEPT !.last = data, !.ever = ever]
    BY <1>2, <1>5
  <2>2. entry \in MonEntry /\ entry.last = data /\ entry.row = old.row /\ entry.ever = ever
    BY ONLY <1>1, <2>1, data \in MonData, old \in MonEntry DEF MonEntry
  <2>3. EntryFollows(entry, old, data, l)
    BY <1>1, <1>5, <2>2 DEF EntryFollows
  <2>4. QED
    BY <2>3 DEF entry
<1>6. QED
  BY <1>4, <1>5

LEMMA RowIsPut ==
  ASSUME NEW rows \in Seq(MonRow), NEW at \in 1..(Len(rows) + 1), NEW row \in MonRow, NEW more,
         at = Len(rows) + 1 => more = Append(rows, row),
         at \in 1..Len(rows) => more = [rows EXCEPT ![at] = row]
  PROVE  RowPut(more, rows, at, row)
<1> DEFINE l == Len(rows)
<1>1. l \in Nat /\ at \in 1..(l + 1)
  OBVIOUS
<1>2. at = l + 1 \/ at \in 1..l
  <2> HIDE DEF l
  <2>1. QED
    BY ONLY <1>1
<1>3. CASE at = l + 1
  <2>1. /\ more \in Seq(MonRow) /\ Len(more) = l + 1 /\ more[l + 1] = row
        /\ \A r \in 1..l : more[r] = rows[r]
    BY <1>3, AppendProperties
  <2>2. /\ l <= l + 1 /\ l + 1 \in 1..(l + 1) /\ \A r \in 1..(l + 1) : r = l + 1 \/ r \in 1..l
    <3> HIDE DEF l
    <3>1. QED
      BY ONLY <1>1
  <2>3. QED
    BY <1>3, <2>1, <2>2 DEF RowPut
<1>4. CASE at \in 1..l
  BY <1>4, <1>1 DEF RowPut
<1>5. QED
  BY <1>2, <1>3, <1>4

LEMMA TrackedKeeps ==
  ASSUME NEW m, MonitorGood(m), m.track, NEW id \in MonIds, NEW data \in MonData
  PROVE  MonitorGood(Tracked(m, id, data))
<1> DEFINE old == m.tracked[id]
           l == Len(m.rows)
           entry == IF old.row = 0 THEN [last |-> data, ever |-> FALSE, row |-> l + 1]
                    ELSE [old EXCEPT !.last = data, !.ever = old.ever \/ data # old.last]
           tracked == [m.tracked EXCEPT ![id] = entry]
           came == Append(m.came, <<id, data>>)
           seen == [m EXCEPT !.tracked = tracked, !.came = came]
           hidden == Hidden(seen, id)
           row == [id |-> id, data |-> data, hidden |-> hidden]
           rows == IF old.row = 0 THEN Append(m.rows, row) ELSE [m.rows EXCEPT ![entry.row] = row]
           then == Tracked(m, id, data)
<1>1. /\ m \in MonitorType /\ m.rows \in Seq(MonRow) /\ m.came \in Seq(MonFrame)
      /\ m.tracked \in [MonIds -> MonEntry] /\ l \in Nat
  BY DEF MonitorGood, MonitorType
<1>2. /\ RowsTracked(m.rows, m.tracked) /\ TrackHidden(m)
      /\ \A i \in MonIds : EntryGood(m.tracked[i], m.rows, m.came, i)
  BY DEF MonitorGood, TrackGood, EntriesGood
<1>3. then = [seen EXCEPT !.rows = rows]
  BY <1>1 DEF Tracked, MonitorType
<1>4. /\ entry \in MonEntry /\ entry.last = data /\ entry.row # 0
      /\ old.row = 0 => entry.row = l + 1 /\ ~entry.ever
      /\ old.row # 0 => entry.row = old.row /\ (entry.ever <=> old.ever \/ data # old.last)
  <2>1. old \in MonEntry
    BY <1>1
  <2> HIDE DEF old, l, entry
  <2>2. entry = NextEntry(old, data, l)
    BY DEF entry, NextEntry
  <2>3. EntryFollows(entry, old, data, l)
    BY <1>1, <2>1, <2>2, EntryAfter
  <2>4. QED
    BY <2>3 DEF EntryFollows
<1> HIDE DEF entry
<1>5. tracked \in [MonIds -> MonEntry] /\ tracked[id] = entry /\ \A i \in MonIds : i # id => tracked[i] = m.tracked[i]
  BY <1>1, <1>4
<1>6. came \in Seq(MonFrame)
  BY <1>1, AppendProperties DEF MonFrame
<1> HIDE DEF tracked, came
<1>7. /\ seen \in MonitorType /\ seen.tracked = tracked /\ seen.came = came /\ seen.rows = m.rows
      /\ seen.pinned = m.pinned /\ seen.changedOnly = m.changedOnly /\ seen.search = m.search
      /\ seen.track = m.track
  BY <1>1, <1>5, <1>6 DEF MonitorType
<1> HIDE DEF seen
<1>8. hidden \in BOOLEAN
  BY DEF Hidden
<1> HIDE DEF hidden
<1>9. row \in MonRow /\ row.id = id /\ row.data = data /\ row.hidden = hidden
  BY <1>8 DEF MonRow
<1> HIDE DEF row
<1>10. EntryGood(old, m.rows, m.came, id)
  BY <1>2
<1>11. old.row # 0 => old.row \in 1..l /\ m.rows[old.row].id = id
  BY <1>10 DEF EntryGood
<1>12. RowPut(rows, m.rows, entry.row, row)
  <2> DEFINE at == entry.row
             all == m.rows
  <2>1. all \in Seq(MonRow) /\ at \in 1..(l + 1)
    BY <1>4, <1>1, <1>11
  <2>2. at = Len(all) + 1 => rows = Append(all, row)
    BY <1>1, <1>4, <1>11
  <2>3. at \in 1..Len(all) => rows = [all EXCEPT ![at] = row]
    BY <1>1, <1>4
  <2> HIDE DEF at, all, rows
  <2>4. RowPut(rows, all, at, row)
    BY <1>9, <2>1, <2>2, <2>3, RowIsPut DEF all
  <2>5. QED
    BY <2>4 DEF all, at
<1> HIDE DEF rows, then
<1>13. /\ then \in MonitorType /\ then.rows = rows /\ then.tracked = tracked /\ then.came = came
       /\ then.pinned = m.pinned /\ then.changedOnly = m.changedOnly /\ then.search = m.search
       /\ then.track = m.track
  BY <1>3, <1>7, <1>12 DEF MonitorType, RowPut
<1>14. \A i \in MonIds : Hidden(then, i) <=> (m.changedOnly /\ i \notin m.pinned /\ ~tracked[i].ever) \/ ~Found(m, i)
  BY <1>13 DEF Hidden, Found
<1>15. hidden <=> Hidden(then, id)
  BY <1>7, <1>13 DEF hidden, Hidden, Found
<1>16. \A i \in MonIds : i # id => (Hidden(then, i) <=> Hidden(m, i))
  BY <1>5, <1>14 DEF Hidden
<1>17. \A r \in 1..l : r # entry.row => m.rows[r].id \in MonIds /\ m.rows[r].id # id
  <2>1. ASSUME NEW r \in 1..l, r # entry.row PROVE m.rows[r].id # id
    <3>1. SUFFICES ASSUME m.rows[r].id = id PROVE FALSE
      OBVIOUS
    <3>2. old.row = r
      BY <1>2, <3>1 DEF RowsTracked
    <3>3. r # 0
      BY <1>1
    <3>4. QED
      BY <1>4, <2>1, <3>2, <3>3
  <2>2. \A r \in 1..l : m.rows[r] \in MonRow
    BY <1>1
  <2>3. QED
    BY <2>1, <2>2 DEF MonRow
<1>18. ASSUME NEW r \in 1..Len(rows)
       PROVE  tracked[rows[r].id].row = r /\ (rows[r].hidden <=> Hidden(then, rows[r].id))
  BY <1>12, <1>5, <1>9, <1>15, <1>18, <1>17, <1>2, <1>16 DEF RowPut, RowsTracked, TrackHidden
<1>19. ASSUME NEW i \in MonIds PROVE EntryGood(tracked[i], rows, came, i)
  <2>1. CASE i = id
    <3> DEFINE all == m.rows
               before == m.came
    <3>1. /\ old \in MonEntry /\ all \in Seq(MonRow) /\ before \in Seq(MonFrame)
          /\ EntryGood(old, all, before, id)
      BY <1>1, <1>10
    <3>2. /\ entry \in MonEntry /\ entry.row # 0 /\ entry.row \in 1..Len(rows)
          /\ rows[entry.row].id = id /\ rows[entry.row].data = data /\ entry.last = data
      BY <1>4, <1>9, <1>12 DEF RowPut
    <3>3. /\ old.row = 0 => ~entry.ever
          /\ old.row # 0 => (entry.ever <=> old.ever \/ data # old.last)
      BY <1>4
    <3> HIDE DEF old, all, before
    <3>4. EntryGood(entry, rows, Append(before, <<id, data>>), id)
      BY ONLY <3>1, <3>2, <3>3, id \in MonIds, data \in MonData, EntryOfFrame
    <3>5. QED
      BY <1>5, <2>1, <3>4 DEF came, before
  <2>2. CASE i # id
    <3> DEFINE all == m.rows
               before == m.came
               e == m.tracked[i]
    <3>1. e \in MonEntry /\ all \in Seq(MonRow) /\ before \in Seq(MonFrame) /\ EntryGood(e, all, before, i)
      BY <1>1, <1>2
    <3>2. Len(all) <= Len(rows) /\ Len(rows) \in Nat
      BY <1>12 DEF RowPut
    <3>3. \A r \in 1..Len(all) : all[r].id = i => rows[r] = all[r]
      BY <1>1, <1>4, <1>11, <2>2, <1>12 DEF RowPut
    <3> HIDE DEF e, all, before
    <3>4. EntryGood(e, rows, Append(before, <<id, data>>), i)
      BY <2>2, <3>1, <3>2, <3>3, EntryOfOther
    <3>5. QED
      BY <1>5, <2>2, <3>4 DEF came, before, e
  <2>3. QED
    BY <2>1, <2>2
<1>20. TrackGood(then)
  BY <1>13, <1>18, <1>19 DEF TrackGood, EntriesGood, RowsTracked, TrackHidden
<1>21. QED
  BY <1>13, <1>20 DEF MonitorGood, then

LEMMA HiddenAre ==
  ASSUME NEW rows \in Seq(MonRow), NEW ids
  PROVE  SameRows(WithHidden(rows, ids), rows) /\ HidesThose(WithHidden(rows, ids), ids)
<1> DEFINE l == Len(rows)
           Of(row) == [row EXCEPT !.hidden = row.id \in ids]
           more == [r \in 1..l |-> Of(rows[r])]
<1>1. l \in Nat /\ DOMAIN rows = 1..l /\ \A r \in 1..l : rows[r] \in MonRow
  OBVIOUS
<1>2. WithHidden(rows, ids) = more
  BY <1>1 DEF WithHidden
<1>3. ASSUME NEW row \in MonRow
      PROVE  /\ Of(row) \in MonRow /\ Of(row).id = row.id /\ Of(row).data = row.data
             /\ Of(row).hidden <=> row.id \in ids
  <2> DEFINE hidden == row.id \in ids
  <2>1. hidden \in BOOLEAN /\ (hidden <=> row.id \in ids)
    OBVIOUS
  <2>2. Of(row) = [row EXCEPT !.hidden = hidden]
    OBVIOUS
  <2> HIDE DEF hidden, Of
  <2>3. Of(row) \in MonRow /\ Of(row).id = row.id /\ Of(row).data = row.data /\ Of(row).hidden = hidden
    BY <2>1, <2>2 DEF MonRow
  <2>4. QED
    BY <2>1, <2>3
<1> HIDE DEF Of
<1>4. more \in Seq(MonRow) /\ Len(more) = l /\ \A r \in 1..l : more[r] = Of(rows[r])
  BY <1>1, <1>3
<1> HIDE DEF more
<1>5. \A r \in 1..l : /\ more[r].id = rows[r].id /\ more[r].data = rows[r].data
                      /\ more[r].hidden <=> more[r].id \in ids
  BY <1>1, <1>3, <1>4
<1>6. SameRows(more, rows) /\ HidesThose(more, ids)
  BY <1>4, <1>5 DEF SameRows, HidesThose
<1>7. QED
  BY <1>2, <1>6

LEMMA RowsStay ==
  ASSUME NEW rows \in Seq(MonRow), NEW more, SameRows(more, rows), NEW came, NEW tracked
  PROVE  /\ RowsLogged(rows, came) => RowsLogged(more, came)
         /\ RowsTracked(rows, tracked) => RowsTracked(more, tracked)
         /\ \A e, i : EntryGood(e, rows, came, i) => EntryGood(e, more, came, i)
BY DEF SameRows, RowsLogged, RowsTracked, EntryGood

LEMMA SameMonitorKeeps ==
  ASSUME NEW m, MonitorGood(m), NEW then, SameMonitor(m, then)
  PROVE  /\ then.search = m.search /\ ~m.track => LogGood(then)
         /\ m.track => EntriesGood(then)
         /\ then.search = m.search /\ then.pinned = m.pinned /\ then.changedOnly = m.changedOnly =>
              MonitorGood(then)
<1>1. ASSUME then.search = m.search, ~m.track PROVE LogGood(then)
  BY <1>1 DEF Found, SameMonitor, MonitorGood, LogGood, LogHidden
<1>2. m.track => EntriesGood(then)
  BY DEF SameMonitor, MonitorGood, TrackGood, EntriesGood
<1>3. ASSUME then.search = m.search, then.pinned = m.pinned, then.changedOnly = m.changedOnly
      PROVE  MonitorGood(then)
  BY <1>3, <1>1, <1>2 DEF Hidden, Found, SameMonitor, MonitorGood, TrackGood, TrackHidden
<1>4. QED
  BY <1>1, <1>2, <1>3

LEMMA ReviewedKeeps ==
  ASSUME NEW m \in MonitorType, m.track => EntriesGood(m), ~m.track => LogGood(m)
  PROVE  MonitorGood(Reviewed(m))
<1>1. CASE ~m.track
  BY <1>1 DEF Reviewed, MonitorGood
<1>2. CASE m.track
  <2> DEFINE ids == {id \in MonIds : Hidden(m, id)}
             old == m.rows
             rows == WithHidden(old, ids)
             then == Reviewed(m)
  <2>1. then = [m EXCEPT !.rows = rows]
    BY <1>2 DEF Reviewed
  <2>2. old \in Seq(MonRow)
    BY DEF MonitorType
  <2>3. SameRows(rows, old) /\ HidesThose(rows, ids)
    <3> HIDE DEF old, ids
    <3>1. QED
      BY <2>2, HiddenAre
  <2>4. /\ RowsTracked(m.rows, m.tracked)
        /\ \A id \in MonIds : EntryGood(m.tracked[id], m.rows, m.came, id)
    BY <1>2 DEF EntriesGood
  <2> HIDE DEF rows, then, ids
  <2>5. rows \in Seq(MonRow)
    BY <2>3 DEF SameRows
  <2>6. /\ then \in MonitorType /\ then.rows = rows /\ then.tracked = m.tracked /\ then.came = m.came
        /\ then.pinned = m.pinned /\ then.changedOnly = m.changedOnly /\ then.search = m.search
        /\ then.track = m.track
    BY <2>1, <2>5 DEF MonitorType
  <2>7. \A i : Hidden(then, i) <=> Hidden(m, i)
    BY <2>6 DEF Hidden, Found
  <2>8. RowsTracked(rows, m.tracked) /\ \A id \in MonIds : EntryGood(m.tracked[id], rows, m.came, id)
    BY <2>2, <2>3, <2>4, RowsStay
  <2>9. EntriesGood(then)
    BY <2>6, <2>8 DEF EntriesGood
  <2>10. TrackHidden(then)
    <3>1. \A r \in 1..Len(rows) : rows[r].id \in MonIds
      <4>1. \A r \in 1..Len(rows) : rows[r] \in MonRow
        BY <2>5
      <4>2. QED
        BY <4>1 DEF MonRow
    <3>2. QED
      BY <2>3, <2>6, <2>7, <3>1 DEF TrackHidden, HidesThose, ids
  <2>11. QED
    BY <1>2, <2>6, <2>9, <2>10 DEF MonitorGood, TrackGood, then
<1>3. QED
  BY <1>1, <1>2

LEMMA EmptyGood ==
  ASSUME NEW m \in MonitorType, m.rows = << >>, m.came = << >>, m.tracked = PerId(NoEntry)
  PROVE  MonitorGood(m)
<1>1. Len(m.rows) = 0 /\ Len(m.came) = 0 /\ MaxRows \in Nat
  BY RowsAssumption
<1>2. \A id \in MonIds : m.tracked[id].row = 0
  BY DEF PerId, NoEntry
<1>3. 1..0 = {} /\ 0 <= MaxRows /\ 0 <= 0
  BY <1>1
<1> DEFINE rows == m.rows
           came == m.came
           tracked == m.tracked
<1>4. Len(rows) = 0 /\ Len(came) = 0 /\ \A id \in MonIds : tracked[id].row = 0
  BY <1>1, <1>2
<1> HIDE DEF rows, came, tracked
<1>5. RowsLogged(rows, came) /\ (\A r \in 1..Len(rows) : FALSE) /\ (\A k \in 1..Len(came) : FALSE)
  BY <1>3, <1>4 DEF RowsLogged
<1>6. /\ \A lastSeen : SeenLogged(came, lastSeen)
      /\ Changing(came)
      /\ RowsTracked(rows, tracked)
      /\ \A id \in MonIds : EntryGood(tracked[id], rows, came, id)
  BY <1>4, <1>5 DEF SeenLogged, Changing, RowsTracked, EntryGood
<1>7. LogGood(m) /\ TrackGood(m)
  BY <1>5, <1>6 DEF LogGood, LogHidden, TrackGood, EntriesGood, TrackHidden, rows, came, tracked
<1>8. QED
  BY <1>7 DEF MonitorGood

LEMMA EmptiedType ==
  ASSUME NEW m \in MonitorType
  PROVE  Emptied(m) \in MonitorType /\ Emptied(m).rows = << >> /\ Emptied(m).came = << >>
         /\ Emptied(m).tracked = PerId(NoEntry)
<1> DEFINE none == << >>
           no == FALSE
           entries == PerId(NoEntry)
           unseen == PerId(NoData)
<1>1. Emptied(m) = [m EXCEPT !.rows = none, !.tracked = entries, !.pinned = {}, !.lastSeen = unseen,
                             !.came = none, !.lapsed = no]
  BY DEF Emptied
<1>2. none \in Seq(MonRow) /\ none \in Seq(MonFrame) /\ no \in BOOLEAN
  OBVIOUS
<1>3. NoEntry \in MonEntry
  <2>1. no \in BOOLEAN /\ 0 \in Nat /\ NoEntry = [last |-> NoData, ever |-> no, row |-> 0]
    BY DEF NoEntry
  <2> HIDE DEF no
  <2>2. QED
    BY <2>1 DEF MonEntry
<1>4. entries \in [MonIds -> MonEntry] /\ unseen \in [MonIds -> MonData \cup {NoData}]
  BY <1>3 DEF PerId
<1> HIDE DEF none, no, entries, unseen
<1>5. /\ Emptied(m) \in MonitorType /\ Emptied(m).rows = none /\ Emptied(m).came = none
      /\ Emptied(m).tracked = entries
  BY <1>1, <1>2, <1>4 DEF MonitorType
<1>6. QED
  BY <1>5 DEF none, entries

LEMMA MonitorStarts ==
  ASSUME MonitorInit
  PROVE  MonitorInv
<1> DEFINE none == << >>
           no == FALSE
           entries == PerId(NoEntry)
           unseen == PerId(NoData)
<1>1. monitor = [rows |-> none, tracked |-> entries, pinned |-> {}, lastSeen |-> unseen,
                 baseline |-> unseen, track |-> no, pause |-> no, noise |-> no,
                 changedOnly |-> no, dlc |-> 0, search |-> 0, came |-> none, lapsed |-> no]
  BY DEF MonitorInit
<1>2. none \in Seq(MonRow) /\ none \in Seq(MonFrame) /\ no \in BOOLEAN
  OBVIOUS
<1>3. NoEntry \in MonEntry
  <2>1. no \in BOOLEAN /\ 0 \in Nat /\ NoEntry = [last |-> NoData, ever |-> no, row |-> 0]
    BY DEF NoEntry
  <2> HIDE DEF no
  <2>2. QED
    BY <2>1 DEF MonEntry
<1>4. entries \in [MonIds -> MonEntry] /\ unseen \in [MonIds -> MonData \cup {NoData}]
  BY <1>3 DEF PerId
<1> HIDE DEF none, no, entries, unseen
<1>5. /\ monitor \in MonitorType /\ monitor.rows = none /\ monitor.came = none
      /\ monitor.tracked = entries
  BY <1>1, <1>2, <1>4 DEF MonitorType
<1>6. QED
  BY <1>5, EmptyGood DEF none, entries, MonitorInv

LEMMA SearchKeeps ==
  ASSUME NEW m, MonitorGood(m), NEW s \in 0..2, NEW then, then = [m EXCEPT !.search = s]
  PROVE  /\ then.track => MonitorGood(Reviewed(then))
         /\ ~then.track => MonitorGood(Searched(then))
<1>1. m \in MonitorType
  BY DEF MonitorGood
<1>2. SameMonitor(m, then) /\ then.search = s
  BY <1>1 DEF MonitorType, SameMonitor
<1>3. then \in MonitorType /\ then.track = m.track /\ then.rows = m.rows
  BY <1>2 DEF SameMonitor
<1>4. then.track => MonitorGood(Reviewed(then))
  BY <1>2, <1>3, SameMonitorKeeps, ReviewedKeeps
<1>5. ASSUME ~then.track
      PROVE  MonitorGood(Searched(then))
  <2> DEFINE ids == {id \in MonIds : ~Found(then, id)}
             old == then.rows
             rows == WithHidden(old, ids)
             next == [then EXCEPT !.rows = rows]
  <2>1. old \in Seq(MonRow)
    BY <1>3 DEF MonitorType
  <2>2. SameRows(rows, old) /\ HidesThose(rows, ids)
    <3> HIDE DEF old, ids
    <3>1. QED
      BY <2>1, HiddenAre
  <2>3. /\ RowsLogged(m.rows, m.came)
        /\ ~m.lapsed => SeenLogged(m.came, m.lastSeen) /\ Changing(m.came)
    BY <1>3, <1>5 DEF MonitorGood, LogGood
  <2> HIDE DEF rows, ids
  <2>4. rows \in Seq(MonRow)
    BY <2>2 DEF SameRows
  <2>5. /\ next \in MonitorType /\ next.rows = rows /\ next.came = m.came /\ next.lapsed = m.lapsed
        /\ next.lastSeen = m.lastSeen /\ next.track = m.track /\ next.search = then.search
    BY <1>2, <1>3, <2>4 DEF MonitorType, SameMonitor
  <2> HIDE DEF next
  <2>6. \A i : Found(next, i) <=> Found(then, i)
    BY <2>5 DEF Found
  <2>7. RowsLogged(rows, m.came)
    <3> DEFINE came == m.came
    <3> HIDE DEF came
    <3>1. RowsLogged(old, came)
      BY <1>3, <2>3 DEF came
    <3>2. RowsLogged(rows, came)
      <4> HIDE DEF old
      <4>1. QED
        BY <2>1, <2>2, <3>1, RowsStay
    <3>3. QED
      BY <3>2 DEF came
  <2>8. LogHidden(next)
    <3>1. \A r \in 1..Len(rows) : rows[r].id \in MonIds
      <4>1. \A r \in 1..Len(rows) : rows[r] \in MonRow
        BY <2>4
      <4>2. QED
        BY <4>1 DEF MonRow
    <3>2. QED
      BY <2>2, <2>5, <2>6, <3>1 DEF LogHidden, HidesThose, ids
  <2>9. QED
    BY <1>3, <1>5, <2>3, <2>5, <2>7, <2>8 DEF MonitorGood, LogGood, Searched, next, rows, ids
<1>6. QED
  BY <1>4, <1>5

\* onContextMenu: a row in view is pinned or no longer.
LEMMA PinKeeps ==
  ASSUME MonitorInv, PinToggled
  PROVE  MonitorInv'
<1>1. /\ monitor \in MonitorType /\ monitor.track /\ TrackGood(monitor)
      /\ monitor.rows \in Seq(MonRow) /\ DOMAIN monitor.rows = 1..Len(monitor.rows)
  BY DEF PinToggled, MonitorInv, MonitorGood, MonitorType
<1>2. PICK r \in DOMAIN monitor.rows :
        LET id == monitor.rows[r].id
            m == [monitor EXCEPT !.pinned = IF id \in @ THEN @ \ {id} ELSE @ \cup {id}] IN
        /\ ~monitor.rows[r].hidden
        /\ monitor' = [m EXCEPT !.rows[r].hidden = id \notin m.pinned /\ Hidden(m, id)]
  BY DEF PinToggled
<1> DEFINE old == monitor.rows
           id == old[r].id
           pinned == IF id \in monitor.pinned THEN monitor.pinned \ {id} ELSE monitor.pinned \cup {id}
           m == [monitor EXCEPT !.pinned = pinned]
           hidden == id \notin m.pinned /\ Hidden(m, id)
           row == [old[r] EXCEPT !.hidden = hidden]
           rows == [old EXCEPT ![r] = row]
<1>3. r \in 1..Len(old) /\ ~old[r].hidden /\ monitor' = [m EXCEPT !.rows[r].hidden = hidden]
  BY <1>1, <1>2
<1>4. \A i \in 1..Len(old) : old[i] \in MonRow /\ old[i].id \in MonIds
  <2>1. \A i \in 1..Len(old) : old[i] \in MonRow
    BY <1>1
  <2>2. QED
    BY <2>1 DEF MonRow
<1>5. id \in MonIds
  BY <1>3, <1>4
<1>6. pinned \in SUBSET MonIds /\ \A i \in MonIds : i # id => (i \in pinned <=> i \in monitor.pinned)
  <2>1. monitor.pinned \in SUBSET MonIds
    BY <1>1 DEF MonitorType
  <2> HIDE DEF id
  <2>2. QED
    BY <1>5, <2>1
<1> HIDE DEF pinned, id
<1>7. /\ m \in MonitorType /\ m.pinned = pinned /\ m.rows = old /\ m.tracked = monitor.tracked
      /\ m.came = monitor.came /\ m.changedOnly = monitor.changedOnly /\ m.search = monitor.search
      /\ m.track = monitor.track
  BY <1>1, <1>6 DEF MonitorType
<1> HIDE DEF m
<1>8. hidden \in BOOLEAN
  OBVIOUS
<1> HIDE DEF hidden
<1>9. monitor' = [m EXCEPT !.rows = rows]
  BY <1>3, <1>7, <1>8 DEF MonitorType
<1>10. row \in MonRow /\ row.id = id /\ row.data = old[r].data /\ row.hidden = hidden
  <2> DEFINE q == old[r]
  <2>1. q \in MonRow /\ id = q.id /\ row = [q EXCEPT !.hidden = hidden]
    BY <1>3, <1>4 DEF id
  <2> HIDE DEF q, row
  <2>2. row \in MonRow /\ row.id = id /\ row.data = q.data /\ row.hidden = hidden
    BY <1>8, <2>1 DEF MonRow
  <2>3. QED
    BY <2>2 DEF q
<1> HIDE DEF row
<1>11. /\ rows \in Seq(MonRow) /\ Len(rows) = Len(old) /\ rows[r] = row
       /\ \A i \in 1..Len(old) : i # r => rows[i] = old[i]
  BY <1>1, <1>3, <1>10
<1> HIDE DEF rows
<1>12. SameRows(rows, old)
  BY <1>10, <1>11 DEF SameRows, id
<1>13. /\ monitor' \in MonitorType /\ monitor'.rows = rows /\ monitor'.tracked = monitor.tracked
       /\ monitor'.came = monitor.came /\ monitor'.pinned = pinned
       /\ monitor'.changedOnly = monitor.changedOnly /\ monitor'.search = monitor.search
       /\ monitor'.track = monitor.track
  BY <1>7, <1>9, <1>11 DEF MonitorType
<1>14. /\ RowsTracked(old, monitor.tracked)
       /\ \A i \in MonIds : EntryGood(monitor.tracked[i], old, monitor.came, i)
       /\ \A i \in 1..Len(old) : old[i].hidden <=> Hidden(monitor, old[i].id)
  BY <1>1 DEF TrackGood, EntriesGood, TrackHidden
<1>15. RowsTracked(rows, monitor.tracked) /\ \A i \in MonIds : EntryGood(monitor.tracked[i], rows, monitor.came, i)
  <2> HIDE DEF old
  <2>1. old \in Seq(MonRow)
    BY <1>1 DEF old
  <2>2. QED
    BY <1>12, <1>14, <2>1, RowsStay
<1>16. EntriesGood(monitor')
  BY <1>13, <1>15 DEF EntriesGood
<1>17. \A i : Hidden(monitor', i) <=> Hidden(m, i)
  BY <1>7, <1>13 DEF Hidden, Found
<1>18. hidden <=> Hidden(m, id)
  BY <1>3, <1>14, <1>7 DEF id, Hidden, Found, hidden
<1>19. \A i \in MonIds : i # id => (Hidden(m, i) <=> Hidden(monitor, i))
  BY <1>6, <1>7 DEF Hidden, Found
<1>20. ASSUME NEW i \in 1..Len(rows) PROVE rows[i].hidden <=> Hidden(monitor', rows[i].id)
  <2>1. CASE i = r
    BY <1>10, <1>11, <1>17, <1>18, <2>1
  <2>2. CASE i # r
    BY <1>4, <1>11, <1>20, <2>2, <1>3, <1>14, <1>17, <1>19 DEF RowsTracked, id
  <2>3. QED
    BY <2>1, <2>2
<1>21. TrackHidden(monitor')
  BY <1>13, <1>20 DEF TrackHidden
<1>22. MonitorGood(monitor')
  BY <1>1, <1>13, <1>16, <1>21 DEF MonitorGood, TrackGood
<1>23. QED
  BY <1>22 DEF MonitorInv, MonitorGood, TrackGood, LogGood, EntriesGood, TrackHidden, LogHidden,
     Hidden, Found

LEMMA BaselineKeeps ==
  ASSUME MonitorInv, CaptureBaseline
  PROVE  MonitorGood(monitor')
<1> DEFINE rows == monitor.rows
           Of(id) == {r \in DOMAIN rows : rows[r].id = id /\ ~rows[r].hidden}
           Taken(id) == IF Of(id) = {} THEN NoData ELSE rows[Max(Of(id))].data
           taken == [id \in MonIds |-> Taken(id)]
<1>1. /\ monitor \in MonitorType /\ MonitorGood(monitor) /\ rows \in Seq(MonRow) /\ Len(rows) \in Nat
      /\ DOMAIN rows = 1..Len(rows)
  BY DEF MonitorInv, MonitorGood, MonitorType
<1>2. ASSUME NEW id \in MonIds PROVE Taken(id) \in MonData \cup {NoData}
  <2>1. CASE Of(id) = {}
    BY <2>1
  <2>2. CASE Of(id) # {}
    <3> DEFINE n == Len(rows)
               S == Of(id)
    <3>1. n \in Nat /\ S \in SUBSET (0..n) /\ S # {}
      <4>1. S \subseteq 1..n
        BY <1>1
      <4>2. 1..n \subseteq 0..n
        BY <1>1
      <4> HIDE DEF n
      <4>3. QED
        BY <1>1, <2>2, <4>1, <4>2 DEF n
    <3> HIDE DEF n, S
    <3>2. Max(S) \in S
      BY <3>1, MaxReached
    <3>3. Max(S) \in 1..Len(rows)
      BY <1>1, <3>2 DEF S
    <3>4. rows[Max(S)] \in MonRow
      BY <1>1, <3>3
    <3>5. rows[Max(S)].data \in MonData
      BY <3>4 DEF MonRow
    <3>6. QED
      BY <2>2, <3>5 DEF S
  <2>3. QED
    BY <2>1, <2>2
<1>3. monitor' = [monitor EXCEPT !.baseline = taken] \/ monitor' = [monitor EXCEPT !.baseline = PerId(NoData)]
  BY DEF CaptureBaseline
<1> HIDE DEF Taken
<1>4. taken \in [MonIds -> MonData \cup {NoData}] /\ PerId(NoData) \in [MonIds -> MonData \cup {NoData}]
  BY <1>2 DEF PerId
<1> HIDE DEF taken
<1>5. /\ SameMonitor(monitor, monitor') /\ monitor'.search = monitor.search
      /\ monitor'.pinned = monitor.pinned /\ monitor'.changedOnly = monitor.changedOnly
  BY <1>1, <1>3, <1>4 DEF SameMonitor, MonitorType
<1> DEFINE then == monitor'
<1>6. /\ SameMonitor(monitor, then) /\ then.search = monitor.search
      /\ then.pinned = monitor.pinned /\ then.changedOnly = monitor.changedOnly
  BY <1>5
<1> HIDE DEF then
<1>7. MonitorGood(then)
  BY <1>1, <1>6, SameMonitorKeeps
<1>8. QED
  BY <1>7 DEF then

LEMMA ControlsKeep ==
  ASSUME NEW m, MonitorGood(m), NEW then, NEW b \in BOOLEAN, NEW d \in 0..1
  PROVE  /\ then = [m EXCEPT !.pause = b] \/ then = [m EXCEPT !.noise = b] => MonitorGood(then)
         /\ then = [m EXCEPT !.changedOnly = b] \/ then = [m EXCEPT !.dlc = d] => MonitorGood(Reviewed(then))
         /\ then = [Emptied(m) EXCEPT !.track = b] \/ then = [Emptied(m) EXCEPT !.search = 0] => MonitorGood(then)
<1>1. m \in MonitorType
  BY DEF MonitorGood
<1>2. ASSUME then = [m EXCEPT !.pause = b] \/ then = [m EXCEPT !.noise = b]
      PROVE  MonitorGood(then)
  BY <1>1, <1>2, SameMonitorKeeps DEF SameMonitor, MonitorType
<1>3. ASSUME then = [m EXCEPT !.changedOnly = b] \/ then = [m EXCEPT !.dlc = d]
      PROVE  MonitorGood(Reviewed(then))
  BY <1>1, <1>3, SameMonitorKeeps, ReviewedKeeps DEF SameMonitor, MonitorType
<1>4. ASSUME then = [Emptied(m) EXCEPT !.track = b] \/ then = [Emptied(m) EXCEPT !.search = 0]
      PROVE  MonitorGood(then)
  <2> DEFINE e == Emptied(m)
             entries == PerId(NoEntry)
  <2>1. e \in MonitorType /\ e.rows = << >> /\ e.came = << >> /\ e.tracked = entries
    BY <1>1, EmptiedType
  <2>2. then = [e EXCEPT !.track = b] \/ then = [e EXCEPT !.search = 0]
    BY <1>4
  <2> HIDE DEF e, entries
  <2>3. then \in MonitorType /\ then.rows = e.rows /\ then.came = e.came /\ then.tracked = e.tracked
    BY <2>1, <2>2 DEF MonitorType
  <2>4. QED
    BY <2>1, <2>3, EmptyGood DEF entries
<1>5. QED
  BY <1>2, <1>3, <1>4

LEMMA MonitorKept ==
  ASSUME MonitorInv, MonitorNext \/ UNCHANGED monitor
  PROVE  MonitorInv'
<1> DEFINE then == monitor'
<1>1. MonitorInv' <=> MonitorGood(then)
  BY DEF MonitorInv, MonitorGood, TrackGood, LogGood, EntriesGood, TrackHidden, LogHidden, Hidden, Found
<1>2. MonitorGood(monitor) /\ monitor \in MonitorType
  BY DEF MonitorInv, MonitorGood
<1>3. /\ monitor.track \in BOOLEAN /\ monitor.pause \in BOOLEAN /\ monitor.noise \in BOOLEAN
      /\ monitor.changedOnly \in BOOLEAN
  BY <1>2 DEF MonitorType
<1>4. CASE UNCHANGED monitor
  BY <1>1, <1>2, <1>4
<1>5. CASE MonitorFrame
  <2>1. PICK id \in MonIds, data \in MonData :
          monitor' = IF monitor.track THEN Tracked(monitor, id, data) ELSE Logged(monitor, id, data)
    BY <1>5 DEF MonitorFrame
  <2>2. CASE monitor.track
    BY <1>1, <1>2, <2>1, <2>2, TrackedKeeps
  <2>3. CASE ~monitor.track
    BY <1>1, <1>2, <2>1, <2>3, LoggedKeeps
  <2>4. QED
    BY <2>2, <2>3
<1>6. CASE TrackToggled \/ ClearMonitor
  <2> DEFINE e == Emptied(monitor)
             b == ~e.track
             zero == 0
  <2>1. then = [e EXCEPT !.track = b] \/ then = [e EXCEPT !.search = 0]
    BY <1>6 DEF TrackToggled, ClearMonitor
  <2>2. b \in BOOLEAN /\ zero \in 0..1
    OBVIOUS
  <2>3. then = [Emptied(monitor) EXCEPT !.track = b] \/ then = [Emptied(monitor) EXCEPT !.search = 0]
    BY <2>1
  <2> HIDE DEF b, then, zero
  <2>4. MonitorGood(then)
    BY <1>2, <2>2, <2>3, ControlsKeep
  <2>5. QED
    BY <1>1, <2>4
<1>7. CASE MonitorFilterChanged
  <2>1. CASE monitor' = Reviewed([monitor EXCEPT !.changedOnly = ~@])
    <3> DEFINE b == ~monitor.changedOnly
               m == [monitor EXCEPT !.changedOnly = b]
               zero == 0
    <3>1. b \in BOOLEAN /\ zero \in 0..1
      BY <1>3
    <3>2. then = Reviewed(m)
      BY <2>1
    <3> HIDE DEF b, then, zero
    <3>3. m = [monitor EXCEPT !.changedOnly = b]
      OBVIOUS
    <3> HIDE DEF m
    <3>4. MonitorGood(Reviewed(m))
      BY <1>2, <3>1, <3>3, ControlsKeep
    <3>5. QED
      BY <1>1, <3>2, <3>4
  <2>2. ASSUME NEW d \in 0..1, monitor' = Reviewed([monitor EXCEPT !.dlc = d]) PROVE MonitorInv'
    <3> DEFINE m == [monitor EXCEPT !.dlc = d]
               yes == TRUE
    <3>1. then = Reviewed(m) /\ m = [monitor EXCEPT !.dlc = d] /\ yes \in BOOLEAN
      BY <2>2
    <3> HIDE DEF m, then, yes
    <3>2. MonitorGood(Reviewed(m))
      BY <1>2, <3>1, ControlsKeep
    <3>3. QED
      BY <1>1, <3>1, <3>2
  <2>3. QED
    BY <1>7, <2>1, <2>2 DEF MonitorFilterChanged
<1>8. CASE SearchChanged
  <2>1. PICK s \in {0} \cup MonIds :
          LET m == [monitor EXCEPT !.search = s] IN
          monitor' = IF m.track THEN Reviewed(m)
                     ELSE [m EXCEPT !.rows = WithHidden(@, {id \in MonIds : ~Found(m, id)})]
    BY <1>8 DEF SearchChanged
  <2> DEFINE m == [monitor EXCEPT !.search = s]
  <2>2. /\ m.track => then = Reviewed(m)
        /\ ~m.track => then = Searched(m)
    BY <2>1 DEF Searched
  <2>3. s \in 0..2 /\ m = [monitor EXCEPT !.search = s] /\ m.track \in BOOLEAN
    BY <1>2 DEF MonIds, MonitorType
  <2> HIDE DEF m, then
  <2>4. MonitorGood(then)
    BY <1>2, <2>2, <2>3, SearchKeeps
  <2>5. QED
    BY <1>1, <2>4
<1>9. CASE PinToggled
  BY <1>9, PinKeeps
<1>10. CASE CaptureBaseline
  BY <1>1, <1>10, BaselineKeeps
<1>11. CASE BoxToggled
  <2>1. CASE monitor' = [monitor EXCEPT !.pause = ~@]
    <3> DEFINE b == ~monitor.pause
               zero == 0
    <3>1. b \in BOOLEAN /\ zero \in 0..1 /\ then = [monitor EXCEPT !.pause = b]
      BY <1>3, <2>1
    <3> HIDE DEF b, then, zero
    <3>2. MonitorGood(then)
      BY <1>2, <3>1, ControlsKeep
    <3>3. QED
      BY <1>1, <3>2
  <2>2. CASE monitor' = [monitor EXCEPT !.noise = ~@]
    <3> DEFINE b == ~monitor.noise
               zero == 0
    <3>1. b \in BOOLEAN /\ zero \in 0..1 /\ then = [monitor EXCEPT !.noise = b]
      BY <1>3, <2>2
    <3> HIDE DEF b, then, zero
    <3>2. MonitorGood(then)
      BY <1>2, <3>1, ControlsKeep
    <3>3. QED
      BY <1>1, <3>2
  <2>3. QED
    BY <1>11, <2>1, <2>2 DEF BoxToggled
<1>12. QED
  BY <1>4, <1>5, <1>6, <1>7, <1>8, <1>9, <1>10, <1>11 DEF MonitorNext

-------------------------------------------------------------------------------
(* The signal graph *)

LEMMA CanonicalNamed ==
  ASSUME NEW of \in TraceNames
  PROVE  Canonical(of) \in AliasNames
<1>1. CASE of = <<1, "s">> \/ of = <<2, "s">>
  BY <1>1 DEF Canonical, IsByte, AliasNames
<1>2. CASE of = <<1, "t">>
  BY <1>2 DEF Canonical, IsByte, AliasNames
<1>3. CASE of = <<1, "byte">> \/ of = <<2, "byte">> \/ of = <<3, "byte">>
  BY <1>3 DEF Canonical, IsByte, AliasNames
<1>4. QED
  BY <1>1, <1>2, <1>3 DEF TraceNames

LEMMA AliasesNamed == DOMAIN NoAliases = AliasNames /\ NoAliases \in [AliasNames -> GraphLabels]
BY DEF NoAliases, AliasNames, GraphLabels

LEMMA GraphReached ==
  ASSUME GraphInv
  PROVE  GraphSound
<1>1. /\ graph \in GraphType /\ TracesGood(graph.traces) /\ (graph.timer <=> Len(graph.traces) # 0)
      /\ MarkersGood(graph.markers, graph.first, graph.start)
      /\ (~graph.missed => LabelsGood(graph.traces, graph.aliases))
  BY DEF GraphInv, GraphGood
<1>2. /\ graph.traces \in Seq(GraphTrace) /\ graph.markers \in Seq(GraphMark)
      /\ graph.timer \in BOOLEAN /\ graph.missed \in BOOLEAN
  BY <1>1 DEF GraphType
<1> DEFINE list == graph.traces
           n == Len(list)
           Same(i) == {j \in DOMAIN list : Canonical(list[j].of) = Canonical(list[i].of)}
<1>3. DOMAIN list = 1..n /\ n \in Nat
  BY <1>2
<1>4. n <= MaxTraces /\ (\A i, j \in DOMAIN list : list[i].of = list[j].of => i = j)
  BY <1>1, <1>3 DEF TracesGood
<1>5. \A i \in DOMAIN list : Len(list[i].points) <= MaxPoints
  BY <1>1, <1>3 DEF TracesGood
<1>6. ASSUME NEW i \in DOMAIN list, ~graph.missed, Same(i) = {i}
      PROVE  list[i].label \in {NoLabel, graph.aliases[Canonical(list[i].of)]}
  BY <1>1, <1>3, <1>6 DEF LabelsGood, LabelGood
<1>7. \A m \in Range(graph.markers) : m.early \/ m.time - graph.start = m.at
  BY <1>1, <1>2 DEF MarkersGood, Range
<1>8. graph.timer <=> list # << >>
  BY <1>1, <1>2
<1>9. QED
  BY <1>4, <1>5, <1>6, <1>7, <1>8 DEF GraphSound

LEMMA TraceDrawn ==
  ASSUME NEW of \in TraceNames
  PROVE  NewTrace(of) \in GraphTrace /\ NewTrace(of).of = of /\ NewTrace(of).label = NoLabel
         /\ Len(NewTrace(of).points) = 0
<1> DEFINE none == << >>
<1>1. NewTrace(of) = [of |-> of, label |-> NoLabel, points |-> none]
  BY DEF NewTrace
<1>2. none \in Seq((-2)..2) /\ Len(none) = 0 /\ NoLabel \in GraphLabels
  BY DEF GraphLabels
<1> HIDE DEF none
<1>3. QED
  BY <1>1, <1>2 DEF GraphTrace

LEMMA OneMoreTrace ==
  ASSUME NEW list \in Seq(GraphTrace), TracesGood(list), NEW trace \in GraphTrace,
         Len(list) < MaxTraces, \A i \in 1..Len(list) : list[i].of # trace.of,
         trace.label = NoLabel, Len(trace.points) = 0,
         NEW aliases, NEW next, next = Append(list, trace)
  PROVE  /\ next \in Seq(GraphTrace) /\ OneLonger(list, trace, next) /\ TracesGood(next)
         /\ LabelsGood(list, aliases) => LabelsGood(next, aliases)
<1> DEFINE n == Len(list)
<1>1. /\ next \in Seq(GraphTrace) /\ Len(next) = n + 1 /\ next[n + 1] = trace /\ n \in Nat
      /\ \A i \in 1..n : next[i] = list[i]
  OBVIOUS
<1>2. \A i \in 1..(n + 1) : i = n + 1 \/ i \in 1..n
  BY <1>1
<1>3. TracesGood(next)
  BY <1>1, TracesAssumption, <1>2 DEF TracesAssumption, TracesGood, MaxPoints
<1>4. ASSUME LabelsGood(list, aliases) PROVE LabelsGood(next, aliases)
  <2>1. ASSUME NEW i \in 1..(n + 1) PROVE LabelGood(next, aliases, i)
    <3>1. CASE i = n + 1
      BY <1>1, <3>1 DEF LabelGood
    <3>2. CASE i \in 1..n
      <4>1. LabelGood(list, aliases, i) /\ next[i] = list[i]
        BY <1>1, <1>4, <3>2 DEF LabelsGood
      <4>2. CASE \E j \in 1..n : j # i /\ Canonical(list[j].of) = Canonical(list[i].of)
        <5>1. PICK j \in 1..n : j # i /\ Canonical(list[j].of) = Canonical(list[i].of)
          BY <4>2
        <5>2. next[j] = list[j] /\ j \in 1..Len(next)
          BY <1>1
        <5>3. QED
          BY <4>1, <5>1, <5>2 DEF LabelGood
      <4>3. QED
        BY <4>1, <4>2 DEF LabelGood
    <3>3. QED
      BY <1>2, <3>1, <3>2
  <2>2. QED
    BY <1>1, <2>1 DEF LabelsGood
<1>5. QED
  BY <1>1, <1>3, <1>4 DEF OneLonger

LEMMA WithTraceKept ==
  ASSUME NEW g, GraphGood(g), NEW of \in TraceNames, NEW next, next = WithTrace(g, of)
  PROVE  GraphGood(next) /\ SameGraph(g, next) /\ OneDrawn(g, of, next)
<1> DEFINE list == g.traces
           trace == NewTrace(of)
           longer == Append(list, trace)
           yes == TRUE
<1>1. g \in GraphType /\ list \in Seq(GraphTrace) /\ TracesGood(list) /\ yes \in BOOLEAN
  BY DEF GraphGood, GraphType
<1>2. CASE next = g
  BY <1>2 DEF SameGraph, OneDrawn
<1>3. CASE next # g
  <2>1. /\ Len(list) < MaxTraces /\ (\A t \in Range(list) : t.of # of)
        /\ next = [g EXCEPT !.traces = longer, !.timer = yes]
    BY <1>1, <1>3, TracesAssumption DEF WithTrace, TracesAssumption
  <2>2. \A i \in 1..Len(list) : list[i].of # of
    BY <1>1, <2>1 DEF Range
  <2>3. trace \in GraphTrace /\ trace.of = of /\ trace.label = NoLabel /\ Len(trace.points) = 0
    BY TraceDrawn
  <2>4. /\ longer \in Seq(GraphTrace) /\ OneLonger(list, trace, longer) /\ TracesGood(longer)
        /\ (LabelsGood(list, g.aliases) => LabelsGood(longer, g.aliases))
    <3> DEFINE aliases == g.aliases
    <3> HIDE DEF trace, list, longer, aliases
    <3>1. longer = Append(list, trace)
      BY DEF longer
    <3>2. \A i \in 1..Len(list) : list[i].of # trace.of
      BY <2>2, <2>3 DEF list
    <3>3. /\ longer \in Seq(GraphTrace) /\ OneLonger(list, trace, longer) /\ TracesGood(longer)
          /\ (LabelsGood(list, aliases) => LabelsGood(longer, aliases))
      BY ONLY <1>1, <2>1, <2>3, <3>1, <3>2, OneMoreTrace
    <3>4. QED
      BY <3>3 DEF aliases
  <2> HIDE DEF longer, trace, yes
  <2>5. /\ next \in GraphType /\ next.traces = longer /\ next.timer = yes /\ SameGraph(g, next)
    BY <1>1, <2>1, <2>4 DEF GraphType, SameGraph
  <2>6. Len(longer) # 0
    BY <1>1, <2>4 DEF OneLonger
  <2>7. GraphGood(next)
    BY <2>4, <2>5, <2>6 DEF GraphGood, SameGraph, yes
  <2>8. OneDrawn(g, of, next)
    BY <2>3, <2>4, <2>5 DEF OneDrawn, OneLonger
  <2>9. QED
    BY <2>5, <2>7, <2>8
<1>4. QED
  BY <1>2, <1>3

LEMMA NextDrawn ==
  ASSUME NEW g, NEW list \in Seq(TraceNames), NEW k \in Nat, k + 1 <= Len(list),
         NEW x, DrawnUpTo(g, list, k, x), NEW next, next = WithTrace(x, list[k + 1])
  PROVE  DrawnUpTo(g, list, k + 1, next)
<1> DEFINE of == list[k + 1]
           n == Len(x.traces)
<1>1. of \in TraceNames
  OBVIOUS
<1>2. GraphGood(x) /\ SameGraph(g, x) /\ next = WithTrace(x, of)
  BY DEF DrawnUpTo
<1> HIDE DEF of
<1>3. GraphGood(next) /\ SameGraph(x, next) /\ OneDrawn(x, of, next)
  BY <1>1, <1>2, WithTraceKept
<1>4. SameGraph(g, next)
  BY <1>2, <1>3 DEF SameGraph
<1>5. n \in Nat
  BY <1>2 DEF GraphGood, GraphType
<1>6. ASSUME Len(g.traces) = 0
      PROVE  /\ Len(next.traces) <= k + 1
             /\ Len(next.traces) = k + 1 => \A i \in 1..(k + 1) : next.traces[i].of = list[i]
  <2>1. n <= k /\ (n = k => \A i \in 1..k : x.traces[i].of = list[i])
    BY <1>6 DEF DrawnUpTo
  <2>2. CASE next = x
    BY <1>5, <2>1, <2>2
  <2>3. CASE /\ Len(next.traces) = n + 1 /\ next.traces[n + 1].of = of
             /\ \A i \in 1..n : next.traces[i] = x.traces[i]
    <3>1. Len(next.traces) <= k + 1
      BY <1>5, <2>1, <2>3
    <3>2. ASSUME Len(next.traces) = k + 1, NEW i \in 1..(k + 1)
          PROVE  next.traces[i].of = list[i]
      <4>1. n = k
        BY ONLY <1>5, <2>3, <3>2, k \in Nat
      <4>2. CASE i = k + 1
        BY <2>3, <4>1, <4>2 DEF of
      <4>3. CASE i \in 1..k
        BY <2>1, <2>3, <4>1, <4>3
      <4>4. i = k + 1 \/ i \in 1..k
        OBVIOUS
      <4>5. QED
        BY <4>2, <4>3, <4>4
    <3>3. QED
      BY <3>1, <3>2
  <2>4. QED
    BY <1>3, <2>2, <2>3 DEF OneDrawn
<1>7. QED
  BY <1>3, <1>4, <1>6 DEF DrawnUpTo

LEMMA WithTracesDrawn ==
  ASSUME NEW g, GraphGood(g), NEW list \in Seq(TraceNames)
  PROVE  DrawnUpTo(g, list, Len(list), WithTraces(g, list))
<1> DEFINE n == Len(list)
           S == {x \in GraphType : GraphGood(x)}
           G == [x \in S \X (1..n) |-> WithTrace(x[1], list[x[2]])]
           drawn[k \in 0..n] == IF k = 0 THEN g ELSE WithTrace(drawn[k - 1], list[k])
<1>1. n \in Nat /\ \A k \in 1..n : list[k] \in TraceNames
  OBVIOUS
<1>2. g \in S
  BY DEF GraphGood
<1>3. G \in [S \X (1..n) -> S]
  <2>1. ASSUME NEW x \in S, NEW k \in 1..n PROVE WithTrace(x, list[k]) \in S
    <3> DEFINE of == list[k]
               next == WithTrace(x, of)
    <3>1. of \in TraceNames /\ GraphGood(x)
      BY <1>1
    <3> HIDE DEF of
    <3>2. next = WithTrace(x, of)
      OBVIOUS
    <3> HIDE DEF next
    <3>3. GraphGood(next)
      BY <3>1, <3>2, WithTraceKept
    <3>4. QED
      BY <3>3 DEF next, of, GraphGood
  <2> HIDE DEF S
  <2>2. QED
    BY <2>1
<1>4. PICK h \in [0..n -> S] : Follows(h, g, n, G)
  <2> HIDE DEF G, n, S
  <2>1. QED
    BY ONLY <1>1, <1>2, <1>3, RecursionExists
<1>5. /\ h[0] = g
      /\ \A k \in 1..n : h[k] = WithTrace(h[k - 1], list[k])
  <2>1. \A k \in 1..n : k - 1 \in 0..n
    BY <1>1
  <2>2. \A k \in 1..n : h[k - 1] \in S
    BY <1>4, <2>1
  <2> HIDE DEF S
  <2>3. QED
    BY <1>4, <2>1, <2>2 DEF Follows
<1> HIDE DEF S
<1>6. h = [k \in 0..n |-> IF k = 0 THEN g ELSE WithTrace(h[k - 1], list[k])]
  BY <1>1, <1>4, <1>5
<1>7. drawn = [k \in 0..n |-> IF k = 0 THEN g ELSE WithTrace(drawn[k - 1], list[k])]
  BY <1>6 DEF drawn
<1>8. WithTraces(g, list) = drawn[n]
  BY DEF WithTraces
<1> HIDE DEF drawn, G
<1>9. drawn[0] = g /\ \A k \in 1..n : drawn[k] = WithTrace(drawn[k - 1], list[k])
  BY <1>7, <1>1
<1> DEFINE T == {k \in 0..n : DrawnUpTo(g, list, k, drawn[k])}
<1>10. 0 \in T
  BY <1>1, <1>9 DEF SameGraph, DrawnUpTo
<1>11. ASSUME NEW k \in 0..(n - 1), k \in T PROVE k + 1 \in T
  BY <1>1, <1>11, <1>9, NextDrawn
<1> HIDE DEF T
<1>12. 0..n \subseteq T
  BY ONLY <1>1, <1>10, <1>11, RangeInduction
<1>13. n \in 0..n
  BY <1>1
<1>14. DrawnUpTo(g, list, n, drawn[n])
  BY <1>12, <1>13 DEF T
<1>15. QED
  BY <1>8, <1>14

LEMMA ClearedGood ==
  ASSUME NEW g, GraphGood(g)
  PROVE  /\ GraphGood(ClearedAll(g)) /\ Len(ClearedAll(g).traces) = 0
         /\ ClearedAll(g).aliases = g.aliases /\ ClearedAll(g).saved = g.saved
         /\ ClearedAll(g).dbc = g.dbc /\ ClearedAll(g).missed = g.missed
<1> DEFINE none == << >>
           yes == TRUE
           no == FALSE
           origin == 0
           next == ClearedAll(g)
<1>1. g \in GraphType
  BY DEF GraphGood
<1>2. next = [g EXCEPT !.traces = none, !.markers = none, !.first = yes, !.maxT = origin,
                     !.timer = no]
  BY DEF ClearedAll
<1>3. /\ none \in Seq(GraphTrace) /\ none \in Seq(GraphMark) /\ Len(none) = 0 /\ yes \in BOOLEAN
      /\ no \in BOOLEAN /\ ~no /\ origin \in (-2)..2
  OBVIOUS
<1> HIDE DEF none, yes, no, origin, next
<1>4. /\ next \in GraphType /\ next.traces = none /\ next.markers = none /\ next.timer = no
      /\ next.aliases = g.aliases /\ next.saved = g.saved /\ next.dbc = g.dbc /\ next.missed = g.missed
  BY <1>1, <1>2, <1>3 DEF GraphType
<1>5. TracesGood(none)
  BY <1>3, TracesAssumption DEF TracesGood, TracesAssumption
<1>6. MarkersGood(none, next.first, next.start) /\ LabelsGood(none, next.aliases)
  BY <1>3 DEF MarkersGood, LabelsGood
<1>7. GraphGood(next)
  BY <1>3, <1>4, <1>5, <1>6 DEF GraphGood
<1>8. QED
  BY <1>3, <1>4, <1>7 DEF next

LEMMA RestoredLabels ==
  ASSUME NEW list \in Seq(SavedTrace), NEW aliases \in [AliasNames -> GraphLabels],
         NEW traces \in Seq(GraphTrace), TracesGood(traces), Len(traces) <= Len(list),
         NEW next,
         next = [i \in DOMAIN traces |->
                   [traces[i] EXCEPT !.label = LabelOf(list, aliases, traces[i].of, i)]]
  PROVE  next \in Seq(GraphTrace) /\ TracesGood(next) /\ Relabelled(list, aliases, traces, next)
<1> DEFINE n == Len(traces)
<1>1. n \in Nat /\ n <= Len(list) /\ Len(list) \in Nat /\ DOMAIN traces = 1..n
  OBVIOUS
<1>2. ASSUME NEW i \in 1..n
      PROVE  /\ next[i] \in GraphTrace /\ next[i].of = traces[i].of
             /\ next[i].points = traces[i].points
             /\ next[i].label = LabelOf(list, aliases, traces[i].of, i)
  <2> DEFINE trace == traces[i]
             saved == list[i]
             label == LabelOf(list, aliases, trace.of, i)
  <2>1. trace \in GraphTrace /\ saved \in SavedTrace
    BY <1>1
  <2>2. label \in GraphLabels
    <3> DEFINE of == trace.of
    <3>1. of \in TraceNames /\ saved.label \in GraphLabels
      <4> HIDE DEF trace, saved
      <4>1. QED
        BY <2>1 DEF GraphTrace, SavedTrace
    <3>2. label \in {aliases[Canonical(of)], saved.label}
      BY DEF LabelOf
    <3> HIDE DEF of, label, trace, saved
    <3>3. aliases[Canonical(of)] \in GraphLabels
      BY <3>1, CanonicalNamed
    <3>4. QED
      BY <3>1, <3>2, <3>3
  <2>3. next[i] = [trace EXCEPT !.label = label]
    BY <1>1
  <2> HIDE DEF trace, label
  <2>4. /\ next[i] \in GraphTrace /\ next[i].of = trace.of /\ next[i].points = trace.points
        /\ next[i].label = label
    BY <2>1, <2>2, <2>3 DEF GraphTrace
  <2>5. QED
    BY <2>4 DEF trace, label
<1>3. next \in Seq(GraphTrace) /\ Len(next) = n
  <2>1. next = [i \in 1..n |-> next[i]]
    BY <1>1
  <2>2. \A i \in 1..n : next[i] \in GraphTrace
    BY <1>2
  <2>3. QED
    BY ONLY <1>1, <2>1, <2>2
<1>4. TracesGood(next)
  <2>1. /\ n <= MaxTraces /\ \A i \in 1..n : Len(traces[i].points) <= MaxPoints
        /\ \A i, j \in 1..n : traces[i].of = traces[j].of => i = j
    BY DEF TracesGood
  <2>2. \A i, j \in 1..n : next[i].of = next[j].of => i = j
    BY <1>2, <2>1
  <2>3. \A i \in 1..n : Len(next[i].points) <= MaxPoints
    BY <1>2, <2>1
  <2> HIDE DEF n
  <2>4. QED
    BY <1>3, <2>1, <2>2, <2>3 DEF TracesGood
<1>5. QED
  BY <1>2, <1>3, <1>4 DEF Relabelled

LEMMA RestoredGood ==
  ASSUME NEW g, GraphGood(g), NEW list \in Seq(SavedTrace), NEW aliases \in [AliasNames -> GraphLabels],
         ~g.missed => LabelsGood(list, aliases)
  PROVE  GraphGood(Restored(g, list, aliases))
<1> DEFINE n == Len(list)
           ofs == [i \in DOMAIN list |-> list[i].of]
           cleared == ClearedAll(g)
           drawn == WithTraces(cleared, ofs)
           traces == drawn.traces
           labelled == [i \in DOMAIN traces |->
                          [traces[i] EXCEPT !.label = LabelOf(list, aliases, traces[i].of, i)]]
           missed == drawn.missed \/ Len(traces) < n
           next == Restored(g, list, aliases)
<1>1. n \in Nat /\ DOMAIN list = 1..n /\ \A i \in 1..n : list[i].of \in TraceNames
  <2>1. \A i \in 1..n : list[i] \in SavedTrace
    OBVIOUS
  <2>2. QED
    BY <2>1 DEF SavedTrace
<1>2. ofs \in Seq(TraceNames) /\ Len(ofs) = n /\ \A i \in 1..n : ofs[i] = list[i].of
  BY <1>1
<1>3. GraphGood(cleared) /\ Len(cleared.traces) = 0 /\ cleared.saved = g.saved /\ cleared.missed = g.missed
  BY ClearedGood
<1>4. next = [drawn EXCEPT !.traces = labelled, !.aliases = aliases, !.missed = missed]
  BY DEF Restored, LabelOf
<1> HIDE DEF cleared, ofs
<1>5. DrawnUpTo(cleared, ofs, n, drawn)
  BY <1>2, <1>3, WithTracesDrawn
<1> HIDE DEF drawn
<1>6. /\ GraphGood(drawn) /\ drawn.saved = g.saved /\ drawn.missed = g.missed
      /\ Len(traces) <= n
      /\ Len(traces) = n => \A i \in 1..n : traces[i].of = list[i].of
  BY <1>2, <1>3, <1>5 DEF DrawnUpTo, SameGraph
<1>7. drawn \in GraphType /\ traces \in Seq(GraphTrace) /\ TracesGood(traces) /\ Len(traces) \in Nat
      /\ drawn.missed \in BOOLEAN
  BY <1>6 DEF GraphGood, GraphType
<1> HIDE DEF traces
<1>8. /\ labelled \in Seq(GraphTrace) /\ Len(labelled) = Len(traces) /\ TracesGood(labelled)
      /\ \A i \in 1..Len(traces) : /\ labelled[i].of = traces[i].of
                                   /\ labelled[i].label = LabelOf(list, aliases, traces[i].of, i)
  <2> DEFINE same == labelled
  <2>1. same = [i \in DOMAIN traces |->
                  [traces[i] EXCEPT !.label = LabelOf(list, aliases, traces[i].of, i)]]
    OBVIOUS
  <2> HIDE DEF same
  <2>2. same \in Seq(GraphTrace) /\ TracesGood(same) /\ Relabelled(list, aliases, traces, same)
    BY <1>6, <1>7, <2>1, RestoredLabels
  <2>3. QED
    BY <2>2 DEF Relabelled, same
<1>9. missed \in BOOLEAN /\ (~missed => ~g.missed /\ Len(traces) = n)
  BY <1>1, <1>6, <1>7
<1> HIDE DEF labelled, missed, next
<1>10. /\ next \in GraphType /\ next.traces = labelled /\ next.aliases = aliases /\ next.missed = missed
       /\ next.timer = drawn.timer /\ next.markers = drawn.markers /\ next.first = drawn.first
       /\ next.start = drawn.start /\ next.saved = g.saved
  BY <1>4, <1>6, <1>7, <1>8, <1>9 DEF GraphType
<1>11. /\ drawn.timer <=> Len(labelled) # 0
       /\ MarkersGood(drawn.markers, drawn.first, drawn.start)
  BY <1>6, <1>8 DEF GraphGood, traces
<1>12. ASSUME ~missed
       PROVE  LabelsGood(labelled, aliases) /\ LabelsGood(g.saved.list, g.saved.aliases)
  BY <1>9, <1>12, <1>6, <1>8 DEF GraphGood, LabelsGood, LabelGood, LabelOf
<1>13. GraphGood(next)
  BY <1>8, <1>10, <1>11, <1>12 DEF GraphGood
<1>14. QED
  BY <1>13 DEF next

\* A graph with nothing on it.
LEMMA GraphStarts ==
  ASSUME GraphInit
  PROVE  GraphInv
<1> DEFINE none == << >>
           yes == TRUE
           no == FALSE
           origin == 0
           x == "x"
           named == <<[of |-> <<1, "s">>, label |-> x], [of |-> <<2, "byte">>, label |-> NoLabel]>>
           given == [NoAliases EXCEPT ![<<0, "s">>] = x]
<1>1. PICK saved \in {NoProjectYet, NamedProject} :
        graph = [traces |-> none, markers |-> none, dbc |-> no, first |-> yes, start |-> origin,
                 maxT |-> origin, timer |-> no, aliases |-> NoAliases, saved |-> saved, missed |-> no]
  BY DEF GraphInit
<1>2. NoAliases \in [AliasNames -> GraphLabels]
  BY AliasesNamed
<1>3. NoProjectYet \in GraphSaved /\ LabelsGood(NoProjectYet.list, NoProjectYet.aliases)
  <2>1. NoProjectYet = [list |-> none, aliases |-> NoAliases, dbc |-> no]
    BY DEF NoProjectYet
  <2>2. none \in Seq(SavedTrace) /\ Len(none) = 0 /\ no \in BOOLEAN
    OBVIOUS
  <2> HIDE DEF none, no
  <2>3. NoProjectYet \in GraphSaved /\ NoProjectYet.list = none
    BY <1>2, <2>1, <2>2 DEF GraphSaved
  <2>4. QED
    BY <2>2, <2>3 DEF LabelsGood
<1>4. NamedProject \in GraphSaved /\ LabelsGood(NamedProject.list, NamedProject.aliases)
  <2> DEFINE a == [of |-> <<1, "s">>, label |-> x]
             b == [of |-> <<2, "byte">>, label |-> NoLabel]
  <2>1. NamedProject = [list |-> named, aliases |-> given, dbc |-> yes]
    BY DEF NamedProject
  <2>2. yes \in BOOLEAN /\ x \in GraphLabels /\ NoLabel \in GraphLabels
    BY DEF GraphLabels
  <2>3. /\ a \in SavedTrace /\ b \in SavedTrace
        /\ a.of = <<1, "s">> /\ a.label = x /\ b.label = NoLabel
    BY <2>2 DEF SavedTrace, TraceNames
  <2>4. given \in [AliasNames -> GraphLabels] /\ given[<<0, "s">>] = x
    BY <1>2, <2>2 DEF AliasNames
  <2>5. named = <<a, b>>
    OBVIOUS
  <2> HIDE DEF a, b, x, given, yes, named
  <2>6. named \in Seq(SavedTrace) /\ Len(named) = 2 /\ named[1] = a /\ named[2] = b
    BY <2>3, <2>5
  <2>7. /\ NamedProject \in GraphSaved /\ NamedProject.list = named /\ NamedProject.aliases = given
    BY <2>1, <2>2, <2>4, <2>6 DEF GraphSaved
  <2>8. Canonical(<<1, "s">>) = <<0, "s">>
    BY DEF Canonical, IsByte
  <2>9. LabelGood(named, given, 1) /\ LabelGood(named, given, 2)
    BY <2>3, <2>4, <2>6, <2>8 DEF LabelGood
  <2>10. LabelsGood(named, given)
    BY <2>6, <2>9 DEF LabelsGood
  <2>11. QED
    BY <2>7, <2>10
<1>5. saved \in GraphSaved /\ LabelsGood(saved.list, saved.aliases)
  BY <1>3, <1>4
<1>6. /\ none \in Seq(GraphTrace) /\ none \in Seq(GraphMark) /\ Len(none) = 0 /\ yes \in BOOLEAN
      /\ no \in BOOLEAN /\ ~no /\ origin \in (-2)..2 /\ origin \in GraphTimes
  BY DEF GraphTimes
<1> HIDE DEF none, yes, no, origin
<1>7. /\ graph \in GraphType /\ graph.traces = none /\ graph.markers = none /\ graph.timer = no
      /\ graph.saved = saved
  BY <1>1, <1>2, <1>5, <1>6 DEF GraphType
<1>8. TracesGood(none)
  BY <1>6, TracesAssumption DEF TracesGood, TracesAssumption
<1>9. MarkersGood(none, graph.first, graph.start) /\ LabelsGood(none, graph.aliases)
  BY <1>6 DEF MarkersGood, LabelsGood
<1>10. QED
  BY <1>5, <1>6, <1>7, <1>8, <1>9 DEF GraphInv, GraphGood

LEMMA AddFrameKeeps ==
  ASSUME GraphInv, AddFrame
  PROVE  GraphGood(graph')
<1>1. GraphGood(graph)
  BY DEF GraphInv
<1>2. PICK msg \in GraphMsgs :
        graph' = IF graph.dbc /\ msg \in DbcMsgs
                 THEN WithTraces(graph, [i \in DOMAIN SignalsOf(msg) |-> <<msg, SignalsOf(msg)[i]>>])
                 ELSE WithTrace(graph, <<msg, "byte">>)
  BY DEF AddFrame
<1> DEFINE names == SignalsOf(msg)
           list == [i \in DOMAIN names |-> <<msg, names[i]>>]
           byte == <<msg, "byte">>
           next == graph'
<1>4. ASSUME msg \in DbcMsgs PROVE list \in Seq(TraceNames)
  <2>1. CASE msg = 1
    BY <2>1 DEF SignalsOf, TraceNames
  <2>2. CASE msg = 2
    BY <2>2 DEF SignalsOf, TraceNames
  <2>3. QED
    BY <1>4, <2>1, <2>2 DEF DbcMsgs
<1>5. byte \in TraceNames
  BY DEF TraceNames, GraphMsgs
<1>6. (msg \in DbcMsgs /\ next = WithTraces(graph, list)) \/ next = WithTrace(graph, byte)
  BY <1>2
<1> HIDE DEF list, byte, next
<1>7. ASSUME msg \in DbcMsgs, next = WithTraces(graph, list) PROVE GraphGood(next)
  BY <1>1, <1>4, <1>7, WithTracesDrawn DEF DrawnUpTo
<1>8. ASSUME next = WithTrace(graph, byte) PROVE GraphGood(next)
  BY <1>1, <1>5, <1>8, WithTraceKept
<1>9. GraphGood(next)
  BY <1>6, <1>7, <1>8
<1>10. QED
  BY <1>9 DEF next

LEMMA MaxOfInts ==
  ASSUME NEW S \in SUBSET ((-2)..2), 0 \in S
  PROVE  Max(S) \in (-2)..2
<1>1. \E x \in S : \A y \in S : x >= y
  OBVIOUS
<1>2. Max(S) \in S
  BY <1>1 DEF Max
<1>3. QED
  BY <1>2

LEMMA TickKeeps ==
  ASSUME GraphInv, ScrollTick
  PROVE  GraphGood(graph')
<1>1. GraphGood(graph) /\ graph \in GraphType /\ graph.traces \in Seq(GraphTrace)
  BY DEF GraphInv, GraphGood, GraphType
<1> DEFINE ends == {Last(t.points) : t \in {u \in Range(graph.traces) : u.points # <<>>}}
           end == Max({0} \cup ends)
<1>2. graph' = [graph EXCEPT !.maxT = end]
  BY DEF ScrollTick
<1>3. ends \subseteq (-2)..2
  <2>1. ASSUME NEW t \in Range(graph.traces), t.points # << >> PROVE Last(t.points) \in (-2)..2
    <3>1. t \in GraphTrace
      BY <1>1 DEF Range
    <3> DEFINE points == t.points
    <3>2. points \in Seq((-2)..2)
      BY <3>1 DEF GraphTrace
    <3>3. points # << >>
      BY <2>1
    <3> HIDE DEF points
    <3>4. Last(points) \in (-2)..2
      BY <3>2, <3>3 DEF Last
    <3>5. QED
      BY <3>4 DEF points
  <2>2. QED
    BY <2>1
<1> HIDE DEF ends
<1>4. end \in (-2)..2
  <2> DEFINE S == {0} \cup ends
  <2>1. S \in SUBSET ((-2)..2) /\ 0 \in S
    BY <1>3
  <2> HIDE DEF S
  <2>2. Max(S) \in (-2)..2
    BY <2>1, MaxOfInts
  <2>3. QED
    BY <2>2 DEF S
<1> HIDE DEF end
<1>5. /\ graph' \in GraphType /\ graph'.traces = graph.traces /\ graph'.timer = graph.timer
      /\ graph'.markers = graph.markers /\ graph'.first = graph.first /\ graph'.start = graph.start
      /\ graph'.missed = graph.missed /\ graph'.aliases = graph.aliases /\ graph'.saved = graph.saved
  BY <1>1, <1>2, <1>4 DEF GraphType
<1>6. QED
  BY <1>1, <1>5 DEF GraphGood

\* A frame's points are added where the message is drawn; the oldest goes when there are
\* enough.
LEMMA PointDrawn ==
  ASSUME NEW points \in Seq((-2)..2), Len(points) <= MaxPoints, NEW x \in (-2)..2, NEW longer,
         longer = Append(points, x), NEW next,
         next = IF Len(longer) > MaxPoints THEN Tail(longer) ELSE longer
  PROVE  next \in Seq((-2)..2) /\ Len(next) <= MaxPoints
<1>1. longer \in Seq((-2)..2) /\ Len(longer) = Len(points) + 1 /\ Len(points) \in Nat
  OBVIOUS
<1>2. longer # << >>
  BY <1>1
<1>3. Tail(longer) \in Seq((-2)..2) /\ Len(Tail(longer)) = Len(points)
  BY <1>1, <1>2
<1>4. QED
  BY <1>1, <1>3 DEF MaxPoints

LEMMA SameNamesGood ==
  ASSUME NEW list \in Seq(GraphTrace), TracesGood(list), NEW next \in Seq(GraphTrace),
         SameNames(list, next), NEW aliases,
         \A i \in 1..Len(next) : Len(next[i].points) <= MaxPoints
  PROVE  TracesGood(next) /\ (LabelsGood(list, aliases) => LabelsGood(next, aliases))
<1> DEFINE n == Len(list)
<1>1. n \in Nat /\ Len(next) = n /\ \A i \in 1..n : next[i].of = list[i].of /\ next[i].label = list[i].label
  BY DEF SameNames
<1>2. TracesGood(next)
  <2>1. n <= MaxTraces /\ \A i, j \in 1..n : list[i].of = list[j].of => i = j
    BY DEF TracesGood
  <2>2. \A i, j \in 1..n : next[i].of = next[j].of => i = j
    BY <1>1, <2>1
  <2> HIDE DEF n
  <2>3. QED
    BY <1>1, <2>1, <2>2 DEF TracesGood
<1>3. ASSUME LabelsGood(list, aliases) PROVE LabelsGood(next, aliases)
  BY <1>3, <1>1 DEF LabelsGood, LabelGood
<1>4. QED
  BY <1>2, <1>3

LEMMA GraphFrameKeeps ==
  ASSUME GraphInv, GraphFrame
  PROVE  GraphGood(graph')
<1>1. GraphGood(graph) /\ graph \in GraphType /\ graph.traces \in Seq(GraphTrace)
      /\ TracesGood(graph.traces) /\ graph.first \in BOOLEAN /\ graph.start \in GraphTimes
  BY SMTT(30) DEF GraphInv, GraphGood, GraphType
<1>2. PICK msg \in GraphMsgs, t \in GraphTimes :
        LET start == IF graph.first THEN t ELSE graph.start
            Drawn(trace) ==
              IF trace.of[1] # msg \/ (~IsByte(trace.of) /\ ~graph.dbc) THEN trace
              ELSE LET points == Append(trace.points, t - start) IN
                   [trace EXCEPT !.points = IF Len(points) > MaxPoints THEN Tail(points) ELSE points] IN
        graph' = [graph EXCEPT !.first = FALSE, !.start = start,
                               !.traces = [i \in DOMAIN @ |-> Drawn(@[i])]]
  BY DEF GraphFrame
<1> DEFINE list == graph.traces
           n == Len(list)
           no == FALSE
           start == IF graph.first THEN t ELSE graph.start
           Longer(trace) == Append(trace.points, t - start)
           Points(trace) == IF Len(Longer(trace)) > MaxPoints THEN Tail(Longer(trace)) ELSE Longer(trace)
           Drawn(trace) ==
             IF trace.of[1] # msg \/ (~IsByte(trace.of) /\ ~graph.dbc) THEN trace
             ELSE [trace EXCEPT !.points = Points(trace)]
           drawn == [i \in DOMAIN list |-> Drawn(list[i])]
<1>3. graph' = [graph EXCEPT !.first = no, !.start = start, !.traces = drawn]
  BY <1>1, <1>2 DEF GraphType
<1>4. start \in GraphTimes /\ no \in BOOLEAN /\ ~no
  BY <1>1
<1>5. t - start \in (-2)..2
  BY <1>4 DEF GraphTimes
<1>6. n \in Nat /\ DOMAIN list = 1..n
  BY <1>1, SMTT(30)
<1>7. ASSUME NEW i \in 1..n
      PROVE  /\ drawn[i] \in GraphTrace /\ drawn[i].of = list[i].of /\ drawn[i].label = list[i].label
             /\ Len(drawn[i].points) <= MaxPoints
  <2> DEFINE trace == list[i]
             points == trace.points
             longer == Longer(trace)
             next == Points(trace)
  <2>1. trace \in GraphTrace /\ Len(points) <= MaxPoints
    BY <1>1, <1>6 DEF TracesGood
  <2>2. points \in Seq((-2)..2)
    <3> HIDE DEF trace
    <3>1. QED
      BY <2>1 DEF GraphTrace
  <2>3. drawn[i] = trace \/ drawn[i] = [trace EXCEPT !.points = next]
    BY <1>6
  <2>4. next \in Seq((-2)..2) /\ Len(next) <= MaxPoints
    <3> DEFINE x == t - start
    <3>1. longer = Append(points, x) /\ next = IF Len(longer) > MaxPoints THEN Tail(longer) ELSE longer
      OBVIOUS
    <3> HIDE DEF points, longer, next, x
    <3>2. x \in (-2)..2
      BY <1>5 DEF x
    <3>3. QED
      BY ONLY <2>1, <2>2, <3>1, <3>2, PointDrawn
  <2> DEFINE then == drawn[i]
  <2>5. then = trace \/ then = [trace EXCEPT !.points = next]
    BY <2>3
  <2> HIDE DEF then, next, trace
  <2>6. /\ then \in GraphTrace /\ then.of = trace.of /\ then.label = trace.label
        /\ Len(then.points) <= MaxPoints
    BY <2>1, <2>4, <2>5 DEF GraphTrace
  <2>7. QED
    BY <2>6 DEF then, trace
<1>8. DOMAIN drawn = 1..n
  BY <1>6
<1>9. drawn \in Seq(GraphTrace) /\ Len(drawn) = n /\ SameNames(list, drawn)
  <2>1. drawn = [i \in 1..n |-> drawn[i]]
    BY <1>8
  <2>2. \A i \in 1..n : drawn[i] \in GraphTrace
    BY <1>7
  <2>3. \A i \in 1..n : drawn[i].of = list[i].of /\ drawn[i].label = list[i].label
    BY <1>7
  <2> HIDE DEF drawn
  <2>4. drawn \in Seq(GraphTrace) /\ Len(drawn) = n
    BY ONLY <1>6, <2>1, <2>2, SMTT(30)
  <2>5. QED
    BY <2>3, <2>4 DEF SameNames
<1>10. \A i \in 1..Len(drawn) : Len(drawn[i].points) <= MaxPoints
  BY <1>7, <1>9
<1> HIDE DEF drawn, start, no
<1>11. /\ graph' \in GraphType /\ graph'.traces = drawn /\ graph'.first = no /\ graph'.start = start
       /\ graph'.timer = graph.timer /\ graph'.markers = graph.markers
       /\ graph'.missed = graph.missed /\ graph'.aliases = graph.aliases /\ graph'.saved = graph.saved
  BY <1>1, <1>3, <1>4, <1>9 DEF GraphType
<1>12. TracesGood(drawn) /\ (LabelsGood(list, graph.aliases) => LabelsGood(drawn, graph.aliases))
  BY <1>1, <1>9, <1>10, SameNamesGood
<1>13. MarkersGood(graph.markers, no, start)
  BY <1>1, <1>4 DEF GraphGood, start, MarkersGood
<1>14. QED
  BY <1>1, <1>9, <1>11, <1>12, <1>13 DEF GraphGood

LEMMA MarkerGood ==
  ASSUME NEW g, GraphGood(g), NEW x \in Int, NEW next, next = Marker(g, x)
  PROVE  GraphGood(next)
<1> DEFINE markers == g.markers
           time == g.start + x
           early == g.first
           mark == [time |-> time, at |-> x, early |-> early]
           longer == Append(markers, mark)
<1>1. /\ g \in GraphType /\ markers \in Seq(GraphMark) /\ early \in BOOLEAN /\ g.start \in Int
      /\ MarkersGood(markers, early, g.start)
  BY DEF GraphGood, GraphType, GraphTimes
<1>2. time \in Int /\ time - g.start = x
  <2> DEFINE s == g.start
  <2>1. s \in Int
    BY <1>1
  <2> HIDE DEF s
  <2>2. s + x \in Int /\ (s + x) - s = x
    BY <2>1
  <2>3. QED
    BY <2>2 DEF s
<1>3. next = [g EXCEPT !.markers = longer]
  BY <1>1 DEF Marker, GraphType
<1> HIDE DEF time, early
<1>4. mark \in GraphMark /\ mark.time = time /\ mark.at = x /\ mark.early = early
  BY <1>1, <1>2 DEF GraphMark
<1> HIDE DEF mark, markers
<1>5. /\ longer \in Seq(GraphMark) /\ Len(longer) = Len(markers) + 1 /\ longer[Len(markers) + 1] = mark
      /\ (\A k \in 1..Len(markers) : longer[k] = markers[k]) /\ Len(markers) \in Nat
  BY <1>1, <1>4
<1> HIDE DEF longer
<1>6. MarkersGood(longer, early, g.start)
  BY <1>1, <1>2, <1>4, <1>5 DEF MarkersGood
<1>7. /\ next \in GraphType /\ next.markers = longer /\ next.first = g.first /\ next.start = g.start
      /\ next.timer = g.timer /\ next.traces = g.traces
      /\ next.missed = g.missed /\ next.aliases = g.aliases /\ next.saved = g.saved
  BY <1>1, <1>3, <1>5 DEF GraphType
<1>8. QED
  BY <1>6, <1>7 DEF GraphGood, early

LEMMA MarkersClearedGood ==
  ASSUME GraphInv, ClearMarkers
  PROVE  GraphGood(graph')
<1> DEFINE none == << >>
<1>1. GraphGood(graph) /\ graph \in GraphType
  BY DEF GraphInv, GraphGood
<1>2. graph' = [graph EXCEPT !.markers = none]
  BY DEF ClearMarkers
<1>3. none \in Seq(GraphMark) /\ Len(none) = 0
  OBVIOUS
<1> HIDE DEF none
<1>4. /\ graph' \in GraphType /\ graph'.markers = none /\ graph'.timer = graph.timer
      /\ graph'.traces = graph.traces /\ graph'.missed = graph.missed
      /\ graph'.aliases = graph.aliases /\ graph'.saved = graph.saved
  BY <1>1, <1>2, <1>3 DEF GraphType
<1>5. MarkersGood(none, graph'.first, graph'.start)
  BY <1>3 DEF MarkersGood
<1>6. QED
  BY <1>1, <1>4, <1>5 DEF GraphGood

\* The DBC of the window is not what a trace or a marker is good by.
LEMMA DbcGood ==
  ASSUME NEW g, GraphGood(g), NEW yes \in BOOLEAN, NEW next, next = [g EXCEPT !.dbc = yes]
  PROVE  GraphGood(next)
<1>1. g \in GraphType
  BY DEF GraphGood
<1>2. /\ next \in GraphType /\ next.timer = g.timer /\ next.traces = g.traces
      /\ next.markers = g.markers /\ next.first = g.first /\ next.start = g.start
      /\ next.missed = g.missed /\ next.aliases = g.aliases /\ next.saved = g.saved
  BY <1>1 DEF GraphType
<1>3. QED
  BY <1>2 DEF GraphGood

LEMMA NamedGood ==
  ASSUME NEW list \in Seq(GraphTrace), TracesGood(list), NEW i \in 1..Len(list),
         NEW l \in GraphLabels, NEW aliases \in [AliasNames -> GraphLabels],
         NEW next, NEW given, Renamed(list, aliases, i, l, next, given)
  PROVE  /\ next \in Seq(GraphTrace) /\ Len(next) = Len(list) /\ TracesGood(next)
         /\ given \in [AliasNames -> GraphLabels]
         /\ LabelsGood(list, aliases) => LabelsGood(next, given)
<1> DEFINE n == Len(list)
           trace == list[i]
           c == Canonical(trace.of)
           named == [trace EXCEPT !.label = l]
<1>1. n \in Nat /\ trace \in GraphTrace
  OBVIOUS
<1>2. next = [list EXCEPT ![i] = named] /\ given = [aliases EXCEPT ![c] = l]
  BY DEF Renamed
<1> HIDE DEF trace
<1>3. /\ named \in GraphTrace /\ named.of = trace.of /\ named.label = l /\ named.points = trace.points
  BY <1>1 DEF GraphTrace
<1> HIDE DEF named
<1>4. /\ next \in Seq(GraphTrace) /\ Len(next) = n /\ next[i] = named
      /\ \A j \in 1..n : j # i => next[j] = list[j]
  BY <1>1, <1>2, <1>3
<1> HIDE DEF c
<1>5. c \in AliasNames
  BY <1>1, CanonicalNamed DEF GraphTrace, c
<1>6. /\ given \in [AliasNames -> GraphLabels] /\ given[c] = l
      /\ \A a : a # c => given[a] = aliases[a]
  BY <1>2, <1>5
<1>7. \A j \in 1..n : next[j].of = list[j].of /\ next[j].points = list[j].points
  BY <1>3, <1>4 DEF trace
<1>8. TracesGood(next)
  <2>1. /\ n <= MaxTraces /\ \A j, k \in 1..n : list[j].of = list[k].of => j = k
        /\ \A j \in 1..n : Len(list[j].points) <= MaxPoints
    BY DEF TracesGood
  <2>2. \A j, k \in 1..n : next[j].of = next[k].of => j = k
    BY <1>7, <2>1
  <2>3. \A j \in 1..n : Len(next[j].points) <= MaxPoints
    BY <1>7, <2>1
  <2> HIDE DEF n
  <2>4. QED
    BY <1>4, <2>1, <2>2, <2>3 DEF TracesGood
<1>9. ASSUME LabelsGood(list, aliases) PROVE LabelsGood(next, given)
  BY <1>3, <1>4, <1>6, <1>7, <1>9 DEF LabelGood, trace, c, LabelsGood
<1>10. QED
  BY <1>4, <1>6, <1>8, <1>9

LEMMA RenameKeeps ==
  ASSUME GraphInv, RenameTrace
  PROVE  GraphGood(graph')
<1> DEFINE list == graph.traces
           aliases == graph.aliases
<1>1. /\ GraphGood(graph) /\ graph \in GraphType /\ list \in Seq(GraphTrace) /\ TracesGood(list)
      /\ aliases \in [AliasNames -> GraphLabels]
  BY DEF GraphInv, GraphGood, GraphType
<1>2. PICK i \in DOMAIN graph.traces, l \in {"x", "y"} :
        graph' = [graph EXCEPT !.traces[i].label = l, !.aliases[Canonical(graph.traces[i].of)] = l]
  BY DEF RenameTrace
<1> DEFINE c == Canonical(list[i].of)
           next == [list EXCEPT ![i] = [list[i] EXCEPT !.label = l]]
           given == [aliases EXCEPT ![c] = l]
<1>3. graph' = [graph EXCEPT !.traces = next, !.aliases = given]
  BY <1>1, <1>2 DEF GraphType
<1>4. i \in 1..Len(list) /\ l \in GraphLabels
  BY <1>1 DEF GraphLabels
<1>5. /\ next \in Seq(GraphTrace) /\ Len(next) = Len(list) /\ TracesGood(next)
      /\ given \in [AliasNames -> GraphLabels]
      /\ LabelsGood(list, aliases) => LabelsGood(next, given)
  <2>1. Renamed(list, aliases, i, l, next, given)
    BY DEF Renamed
  <2> HIDE DEF given, next, list, aliases
  <2>2. QED
    BY ONLY <1>1, <1>4, <2>1, NamedGood
<1> HIDE DEF next, given
<1>6. /\ graph' \in GraphType /\ graph'.traces = next /\ graph'.aliases = given
      /\ graph'.timer = graph.timer /\ graph'.markers = graph.markers
      /\ graph'.first = graph.first /\ graph'.start = graph.start
      /\ graph'.missed = graph.missed /\ graph'.saved = graph.saved
  BY <1>1, <1>3, <1>5 DEF GraphType
<1>7. QED
  BY <1>1, <1>5, <1>6 DEF GraphGood

LEMMA SaveKeeps ==
  ASSUME GraphInv, SaveGraph
  PROVE  GraphGood(graph')
<1> DEFINE list == graph.traces
           n == Len(list)
           aliases == graph.aliases
           Kept(trace) == [of |-> trace.of, label |-> trace.label]
           kept == [i \in DOMAIN list |-> Kept(list[i])]
           dbc == graph.dbc
           saved == [list |-> kept, aliases |-> aliases, dbc |-> dbc]
<1>1. /\ GraphGood(graph) /\ graph \in GraphType /\ list \in Seq(GraphTrace)
      /\ aliases \in [AliasNames -> GraphLabels] /\ dbc \in BOOLEAN
  BY DEF GraphInv, GraphGood, GraphType
<1>2. graph' = [graph EXCEPT !.saved = saved]
  BY DEF SaveGraph
<1>3. n \in Nat /\ DOMAIN list = 1..n
  BY <1>1
<1>4. ASSUME NEW i \in 1..n
      PROVE  kept[i] \in SavedTrace /\ kept[i].of = list[i].of /\ kept[i].label = list[i].label
  <2> DEFINE trace == list[i]
  <2>1. trace \in GraphTrace /\ kept[i] = [of |-> trace.of, label |-> trace.label]
    BY <1>1, <1>3
  <2> DEFINE then == kept[i]
  <2>2. then = [of |-> trace.of, label |-> trace.label]
    BY <2>1
  <2> HIDE DEF then, trace
  <2>3. then \in SavedTrace /\ then.of = trace.of /\ then.label = trace.label
    BY <2>1, <2>2 DEF GraphTrace, SavedTrace
  <2>4. QED
    BY <2>3 DEF then, trace
<1>5. kept \in Seq(SavedTrace) /\ Len(kept) = n
  <2>1. kept = [i \in 1..n |-> kept[i]]
    BY <1>3
  <2>2. \A i \in 1..n : kept[i] \in SavedTrace
    BY <1>4
  <2> HIDE DEF kept
  <2>3. QED
    BY ONLY <1>3, <2>1, <2>2
<1> HIDE DEF kept, dbc
<1>6. saved \in GraphSaved /\ saved.list = kept /\ saved.aliases = aliases
  BY <1>1, <1>5 DEF GraphSaved
<1> HIDE DEF saved
<1>7. /\ graph' \in GraphType /\ graph'.saved = saved /\ graph'.traces = list /\ graph'.aliases = aliases
      /\ graph'.timer = graph.timer /\ graph'.markers = graph.markers
      /\ graph'.first = graph.first /\ graph'.start = graph.start /\ graph'.missed = graph.missed
  BY <1>1, <1>2, <1>6 DEF GraphType
<1>8. ASSUME LabelsGood(list, aliases) PROVE LabelsGood(kept, aliases)
  BY <1>8, <1>4, <1>5 DEF LabelsGood, LabelGood
<1>9. QED
  BY <1>1, <1>6, <1>7, <1>8 DEF GraphGood

LEMMA OpenKeeps ==
  ASSUME GraphInv, OpenGraph
  PROVE  GraphGood(graph')
<1> DEFINE s == graph.saved
           list == s.list
           aliases == s.aliases
           drawn == Restored(graph, list, aliases)
           dbc == drawn.dbc \/ s.dbc
<1>1. GraphGood(graph) /\ s \in GraphSaved
  BY DEF GraphInv, GraphGood, GraphType
<1>2. /\ list \in Seq(SavedTrace) /\ aliases \in [AliasNames -> GraphLabels]
      /\ (~graph.missed => LabelsGood(list, aliases))
  <2>1. ~graph.missed => LabelsGood(list, aliases)
    BY <1>1 DEF GraphGood
  <2> HIDE DEF s
  <2>2. QED
    BY <1>1, <2>1 DEF GraphSaved
<1>3. GraphGood(drawn)
  <2> HIDE DEF list, aliases, drawn
  <2>1. GraphGood(Restored(graph, list, aliases))
    BY <1>1, <1>2, RestoredGood
  <2>2. QED
    BY <2>1 DEF drawn
<1>4. dbc \in BOOLEAN
  OBVIOUS
<1>5. drawn \in GraphType
  BY <1>3 DEF GraphGood
<1>6. graph' = [drawn EXCEPT !.dbc = @ \/ s.dbc]
  BY DEF OpenGraph
<1> HIDE DEF drawn
<1>7. graph' = [drawn EXCEPT !.dbc = dbc]
  BY <1>5, <1>6 DEF GraphType
<1> HIDE DEF dbc
<1> DEFINE next == graph'
<1>8. next = [drawn EXCEPT !.dbc = dbc]
  BY <1>7
<1> HIDE DEF next
<1>9. GraphGood(next)
  BY <1>3, <1>4, <1>8, DbcGood
<1>10. QED
  BY <1>9 DEF next

LEMMA GraphKept ==
  ASSUME GraphInv, GraphNext \/ UNCHANGED graph
  PROVE  GraphInv'
<1> DEFINE next == graph'
<1>1. GraphInv' <=> GraphGood(next)
  BY DEF GraphInv, GraphGood, TracesGood, MarkersGood, LabelsGood, LabelGood
<1>2. GraphGood(graph) /\ graph.maxT \in (-2)..2
  BY DEF GraphInv, GraphGood, GraphType
<1>3. CASE UNCHANGED graph
  BY <1>1, <1>2, <1>3
<1>4. CASE AddFrame
  BY <1>1, <1>4, AddFrameKeeps
<1>5. CASE GraphFrame
  BY <1>1, <1>5, GraphFrameKeeps
<1>6. CASE AddMarkerNow \/ AddMarkerAt
  <2>1. PICK x \in {graph.maxT, graph.maxT + 1} : next = Marker(graph, x)
    BY <1>6 DEF AddMarkerNow, AddMarkerAt
  <2>2. x \in Int
    BY <1>2
  <2> HIDE DEF next
  <2>3. GraphGood(next)
    BY <1>2, <2>1, <2>2, MarkerGood
  <2>4. QED
    BY <1>1, <2>3
<1>7. CASE ClearMarkers
  BY <1>1, <1>7, MarkersClearedGood
<1>8. CASE ClearGraph
  <2>1. next = ClearedAll(graph)
    BY <1>8 DEF ClearGraph
  <2> HIDE DEF next
  <2>2. QED
    BY <1>1, <1>2, <2>1, ClearedGood
<1>9. CASE RenameTrace
  BY <1>1, <1>9, RenameKeeps
<1>10. CASE GraphDbc
  <2> DEFINE yes == TRUE
  <2>1. next = [graph EXCEPT !.dbc = yes] /\ yes \in BOOLEAN
    BY <1>10 DEF GraphDbc
  <2> HIDE DEF next, yes
  <2>2. GraphGood(next)
    BY <1>2, <2>1, DbcGood
  <2>3. QED
    BY <1>1, <2>2
<1>11. CASE SaveGraph
  BY <1>1, <1>11, SaveKeeps
<1>12. CASE OpenGraph
  BY <1>1, <1>12, OpenKeeps
<1>13. CASE NewGraph
  <2> DEFINE none == << >>
  <2>1. next = Restored(graph, none, NoAliases)
    BY <1>13 DEF NewGraph
  <2>2. none \in Seq(SavedTrace) /\ Len(none) = 0
    OBVIOUS
  <2> HIDE DEF next, none
  <2>3. LabelsGood(none, NoAliases)
    BY <2>2 DEF LabelsGood
  <2>4. GraphGood(Restored(graph, none, NoAliases))
    BY <1>2, <2>2, <2>3, AliasesNamed, RestoredGood
  <2>5. QED
    BY <1>1, <2>1, <2>4
<1>14. CASE GraphReacts
  BY <1>1, <1>14, TickKeeps DEF GraphReacts
<1>15. QED
  BY <1>3, <1>4, <1>5, <1>6, <1>7, <1>8, <1>9, <1>10, <1>11, <1>12, <1>13, <1>14 DEF GraphNext

-------------------------------------------------------------------------------
(* Views *)

\* Tables, candidates, decoded fields and curves show what came (MonitorPage, DetectPages,
\* Protocols, ProjectPages, GraphPage), whatever was tracked, filtered, pinned, reread, renamed,
\* cleared or restored in between.
THEOREM ViewsShowWhatCame == Spec => []ViewsSound
<1>1. Init => ViewsInv
  BY MonitorStarts, WiggleStarts, PdoStarts, DiffStarts, GraphStarts DEF SdoInit, SdoInv, Init,
     ViewsInv
<1>2. ViewsInv /\ [Next]_pagesVars => ViewsInv'
  BY PageSteps, MonitorKept, WiggleKept, SdoKept, PdoKept, DiffKept, GraphKept DEF DiffInv,
     ViewsInv, On
<1>3. ViewsInv => ViewsSound
  BY MonitorReached, WiggleReached, SdoReached, PdoReached, DiffReached, GraphReached
     DEF ViewsInv, ViewsSound
<1>4. QED
  BY <1>1, <1>2, <1>3, PTL DEF Spec
===============================================================================
