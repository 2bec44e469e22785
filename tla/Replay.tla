-------------------------------- MODULE Replay --------------------------------
(***************************************************************************)
(* gui/src/replay_panel.cpp: the Replay panel and its worker thread.  The  *)
(* panel creates a worker for each playback and tells it what to do by one *)
(* atomic, m_state, and a condition variable; the worker's signals are     *)
(* queued to the GUI thread, where they stay when the worker is deleted.   *)
(*                                                                         *)
(* Frames are positions in the trace.  How long the worker sleeps between  *)
(* two of them is left out, what it tests while it sleeps is not.          *)
(***************************************************************************)
EXTENDS Integers, Sequences

CONSTANTS MaxFrames,      \* bound: frames of a trace
          MaxReplayClicks \* bound: what the user does in the panel

ASSUME ReplayAssumption == MaxFrames \in Nat \ {0} /\ MaxReplayClicks \in Nat

VARIABLES
  trace,     \* number of frames loaded
  buttons,   \* which are enabled; the position the next playback begins at
  worker,    \* the worker thread: see WorkerType
  gui,       \* idle, or the handler that is blocked in wait()
  events,    \* the worker's signals that are queued, with the playback they are of
  ledger,    \* what the panels heard last, and the races that happened
  clicks     \* how much of the bound is used up

rvars == <<trace, buttons, worker, gui, events, ledger, clicks>>

\* Where run() is: at the head of the loop; in the paused branch before m_state is
\* read, before wait() is entered, and in it; pacing; sending; past finished().
InLoop  == {"top", "held", "parking", "waiting", "pace", "send"}
Running == worker.at \in InLoop \cup {"leaving"}

WorkerType ==
  [ at : InLoop \cup {"none", "leaving", "ended"},
    state : {"stop", "play", "pause"},      \* m_state
    next : 1..(MaxFrames + 1), frames : 0..MaxFrames, session : Nat ]

ButtonsType == [play : BOOLEAN, pause : BOOLEAN, stop : BOOLEAN, seek : 1..MaxFrames]

GuiType ==
  [ doing : {"idle", "stop", "seek", "load", "close", "closed"},
    resume : BOOLEAN,       \* m_wasPlaying
    loads : 0..MaxFrames ]  \* the trace being loaded

EventType  == [frame : 0..MaxFrames, session : Nat]  \* frame 0: finished()
LedgerType == [session : Nat, heard : Seq(Nat), overtaken : BOOLEAN, lost : BOOLEAN]

ReplayTypeOK ==
  /\ trace \in 0..MaxFrames
  /\ buttons \in ButtonsType
  /\ worker \in WorkerType
  /\ gui \in GuiType
  /\ events \in Seq(EventType)
  /\ ledger \in LedgerType
  /\ clicks \in 0..MaxReplayClicks

ReplayInit ==
  /\ trace = 0
  /\ buttons = [play |-> FALSE, pause |-> FALSE, stop |-> FALSE, seek |-> 1]
  /\ worker = [at |-> "none", state |-> "stop", next |-> 1, frames |-> 0, session |-> 0]
  /\ gui = [doing |-> "idle", resume |-> FALSE, loads |-> 0]
  /\ events = << >>
  /\ ledger = [session |-> 0, heard |-> << >>, overtaken |-> FALSE, lost |-> FALSE]
  /\ clicks = 0

-------------------------------------------------------------------------------
(* ReplayWorker, as the panel calls it *)

\* wakeAll, which does not take the mutex: it wakes a worker that waits and is
\* lost on one that has read m_state and does not wait yet.
Woken(w) == IF w.at = "waiting" THEN [w EXCEPT !.at = "held"] ELSE w

Told(state) == Woken([worker EXCEPT !.state = state])
NotedIn(l) == [l EXCEPT !.lost = worker.at = "parking"]

\* A plausible bug: stop only sets m_state.
ToldToStopUnwoken == [worker EXCEPT !.state = "stop"]

ToldToStop == Told("stop")

\* The end of onPlay: a worker for the trace, from the seek position.
NewWorker(w) ==
  [ at |-> "top", state |-> "play", next |-> buttons.seek, frames |-> trace,
    session |-> w.session + 1 ]

PlayButtons(b) == [b EXCEPT !.play = FALSE, !.pause = TRUE, !.stop = TRUE]
RestButtons(b, loaded) == [b EXCEPT !.play = loaded, !.pause = FALSE, !.stop = FALSE]

-------------------------------------------------------------------------------
(* The user *)

Clicks == gui.doing = "idle" /\ clicks < MaxReplayClicks /\ clicks' = clicks + 1

\* onPlay: a worker that still runs is told to go on.
ReplayPlay ==
  /\ Clicks /\ buttons.play /\ trace > 0
  /\ IF Running
       THEN /\ worker' = Told("play")
            /\ ledger' = NotedIn(ledger)
            /\ buttons' = [buttons EXCEPT !.play = FALSE, !.pause = TRUE]
       ELSE /\ worker' = NewWorker(worker)
            /\ ledger' = [ledger EXCEPT !.overtaken = FALSE]
            /\ buttons' = PlayButtons(buttons)
  /\ UNCHANGED <<trace, gui, events>>

\* onPause.
ReplayPause ==
  /\ Clicks /\ buttons.pause
  /\ worker' = IF worker.at = "none" THEN worker ELSE [worker EXCEPT !.state = "pause"]
  /\ buttons' = [buttons EXCEPT !.play = TRUE, !.pause = FALSE]
  /\ UNCHANGED <<trace, gui, events, ledger>>

\* A handler tells the worker to stop and waits for it.
Stops(doing, resume, loads) ==
  /\ gui' = [doing |-> doing, resume |-> resume, loads |-> loads]
  /\ worker' = IF worker.at = "none" THEN worker ELSE ToldToStop
  /\ ledger' = NotedIn(ledger)
  /\ UNCHANGED <<trace, events>>

\* onStop, onOpenLog and loadFrames, ~ReplayPanel.
StopBegins  == Clicks /\ buttons.stop /\ Stops("stop", FALSE, 0) /\ UNCHANGED buttons
LoadBegins  == /\ Clicks
               /\ \E n \in 0..MaxFrames : Stops("load", FALSE, n)
               /\ UNCHANGED buttons
CloseBegins == Clicks /\ Stops("close", FALSE, 0) /\ UNCHANGED buttons

\* onSeekRequested, up to its wait(); playing is told from the Pause button.
SeekBegins ==
  /\ Clicks /\ trace > 0
  /\ \E k \in 1..trace : buttons' = [buttons EXCEPT !.seek = k]
  /\ IF Running THEN Stops("seek", buttons.pause, 0)
     ELSE UNCHANGED <<trace, worker, gui, events, ledger>>

\* wait() returns when the thread has ended; the worker is deleted.
Joins(doing, next) ==
  /\ gui.doing = doing /\ worker.at \in {"none", "ended"}
  /\ gui' = [doing |-> next, resume |-> FALSE, loads |-> 0]
Deleted(w) == [w EXCEPT !.at = "none", !.state = "stop"]

CloseEnds ==
  /\ Joins("close", "closed")
  /\ UNCHANGED <<trace, buttons, worker, events, ledger, clicks>>

StopEnds ==
  /\ Joins("stop", "idle")
  /\ worker' = Deleted(worker)
  /\ buttons' = [RestButtons(buttons, trace > 0) EXCEPT !.seek = 1]
  /\ UNCHANGED <<trace, events, ledger, clicks>>

\* A log without frames leaves Play as onStop has set it for the log before.
LoadEnds ==
  /\ Joins("load", "idle")
  /\ worker' = Deleted(worker)
  /\ trace' = gui.loads
  /\ buttons' = [RestButtons(buttons, trace > 0 \/ gui.loads > 0) EXCEPT !.seek = 1]
  /\ UNCHANGED <<events, ledger, clicks>>

\* A plausible bug: the buttons are reset after the playback is begun again.
SeekEndsResetLast ==
  /\ Joins("seek", "idle")
  /\ IF gui.resume THEN /\ worker' = NewWorker(worker)
                        /\ ledger' = [ledger EXCEPT !.overtaken = FALSE]
                   ELSE worker' = Deleted(worker) /\ UNCHANGED ledger
  /\ buttons' = RestButtons(buttons, trace > 0)
  /\ UNCHANGED <<trace, events, clicks>>

\* The rest of onSeekRequested: playback begins again if it was active.
SeekEnds ==
  /\ Joins("seek", "idle")
  /\ IF gui.resume
       THEN /\ worker' = NewWorker(worker)
            /\ ledger' = [ledger EXCEPT !.overtaken = FALSE]
            /\ buttons' = PlayButtons(buttons)
       ELSE /\ worker' = Deleted(worker)
            /\ buttons' = RestButtons(buttons, trace > 0)
            /\ UNCHANGED ledger
  /\ UNCHANGED <<trace, events, clicks>>

ReplayUser == ReplayPlay \/ ReplayPause \/ StopBegins \/ LoadBegins \/ CloseBegins
              \/ SeekBegins
JoinReturns == CloseEnds \/ StopEnds \/ LoadEnds \/ SeekEnds

-------------------------------------------------------------------------------
(* Queued signals, on the GUI thread *)

Frame(i, s) == [frame |-> i, session |-> s]
Finished(s) == Frame(0, s)

Handles == gui.doing = "idle" /\ events # << >> /\ events' = Tail(events)

\* onFrameReplayed (and onWorkerProgress): the frame goes to the other panels.
FrameShown ==
  /\ Handles /\ Head(events).frame > 0
  /\ LET e == Head(events)
     IN  ledger' = [ledger EXCEPT
           !.session = e.session,
           !.heard = IF e.session = ledger.session THEN Append(@, e.frame)
                     ELSE <<e.frame>>]
  /\ UNCHANGED <<trace, buttons, worker, gui, clicks>>

\* onWorkerFinished, whichever worker it is of.
WorkerFinished ==
  /\ Handles /\ Head(events).frame = 0
  /\ buttons' = [RestButtons(buttons, trace > 0) EXCEPT !.seek = 1]
  /\ ledger' = [ledger EXCEPT !.overtaken = @ \/ Head(events).session # worker.session]
  /\ UNCHANGED <<trace, worker, gui, clicks>>

-------------------------------------------------------------------------------
(* The worker thread: run() *)

WorkerStep(from, w) == worker.at = from /\ worker' = w

Goes(to) == [worker EXCEPT !.at = to]
Ends(from) ==
  /\ WorkerStep(from, Goes("leaving"))
  /\ events' = Append(events, Finished(worker.session))

\* The loop's head: the trace is over, or m_state says stop, pause or play.
TopEnds == (worker.next > worker.frames \/ worker.state = "stop") /\ Ends("top")

\* A plausible bug: the end of the trace is not tested.
TopGoesPast ==
  /\ worker.state # "stop"
  /\ WorkerStep("top", Goes(IF worker.state = "pause" THEN "held" ELSE "pace"))
  /\ UNCHANGED events

TopGoes ==
  /\ worker.next <= worker.frames /\ worker.state # "stop"
  /\ WorkerStep("top", Goes(IF worker.state = "pause" THEN "held" ELSE "pace"))
  /\ UNCHANGED events

\* The paused branch.
HeldEnds == worker.state = "stop" /\ Ends("held")
HeldGoes ==
  /\ worker.state # "stop"
  /\ WorkerStep("held", Goes(IF worker.state = "pause" THEN "parking" ELSE "pace"))
  /\ UNCHANGED events
Parks == WorkerStep("parking", Goes("waiting")) /\ UNCHANGED events

\* Between and after its sleeps the worker gives up if it is not playing: a pause
\* it meets here ends the playback.
PaceEnds == worker.state # "play" /\ Ends("pace")
PaceGoes == worker.state = "play" /\ WorkerStep("pace", Goes("send")) /\ UNCHANGED events

\* A plausible bug: the frame during which Pause is clicked is sent again.
SendsAgain ==
  /\ WorkerStep("send",
       [Goes("top") EXCEPT !.next = IF worker.state = "pause" THEN @ ELSE @ + 1])
  /\ events' = Append(events, Frame(worker.next, worker.session))

Sends ==
  /\ WorkerStep("send", [Goes("top") EXCEPT !.next = @ + 1])
  /\ events' = Append(events, Frame(worker.next, worker.session))

Leaves == WorkerStep("leaving", Goes("ended")) /\ UNCHANGED events

WorkerRuns ==
  /\ \/ TopEnds \/ TopGoes \/ HeldEnds \/ HeldGoes \/ Parks \/ PaceEnds \/ PaceGoes
     \/ Sends \/ Leaves
  /\ UNCHANGED <<trace, buttons, gui, ledger, clicks>>

ReplayNext == ReplayUser \/ JoinReturns \/ FrameShown \/ WorkerFinished \/ WorkerRuns

\* The thread is scheduled, and a join returns.
ReplayFairness == WF_rvars(WorkerRuns) /\ WF_rvars(JoinReturns)

-------------------------------------------------------------------------------
\* Play to end, pause, resume, seek or stop: what the other panels hear of one
\* playback is in the order of the trace, without a hole or a repetition, and the
\* queued frames of a playback never come after those of the next.
Heard == INSTANCE Playback
           WITH session <- ledger.session, whole <- FALSE, heard <- ledger.heard
ReplayIsPlayback == Heard!PSpec

\* While frames are being replayed the user can pause and stop, and a seek goes on
\* playing ("pauseBtn enabled <-> play is active", which onSeekRequested relies on).
\* (Unless the queued finished() of an earlier worker came after this one began:
\* after every seek while playing it does, and disables both.)
PlayingIsShown ==
  gui.doing = "idle" /\ worker.at \in InLoop /\ worker.state = "play" /\ ~ledger.overtaken
    => buttons.pause /\ buttons.stop /\ ~buttons.play

\* Stop, a seek, Open and closing do not hang in wait().  (Unless the wake-up falls
\* between the worker's test of m_state and its wait: nothing wakes it again.)
WaitReturns ==
  gui.doing \notin {"idle", "closed"} /\ ~ledger.lost ~> gui.doing \in {"idle", "closed"}
===============================================================================
