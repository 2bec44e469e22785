----------------------------- MODULE ScriptPage -----------------------------
(* A Lua script: the panel's Run/Stop button, the worker thread in         *)
(* LuaEngine::run and its watchdog thread (scripting/src/lua_engine.cpp,   *)
(* gui/src/scripting/scripting_panel.cpp).  A script is any sequence of    *)
(* hook calls, 1000 instructions apart, that does not catch the error the  *)
(* hook raises (pcall is left to it: see the README).                      *)
EXTENDS Session

VARIABLE script

\* m_running, m_engine, m_workerThread's place in run(), the two atomics, the watchdog.
ScriptInit == script =
  [running |-> FALSE, engine |-> FALSE, worker |-> "none", abort |-> FALSE,
   flag |-> FALSE, watchdog |-> "none", closing |-> FALSE, heard |-> FALSE]

Going(states) == script.worker \in states

\* onRun: a new engine, then the worker before it is joined (it ends as soon as it posted).
RunClicked ==
  /\ ~script.running /\ ~script.closing /\ Input
  /\ script' = [script EXCEPT !.running = TRUE, !.engine = TRUE, !.worker = "starting",
                              !.abort = FALSE, !.flag = FALSE, !.heard = FALSE]

\* onStop; heard when run() has already cleared the flag.
StopClicked ==
  /\ script.running /\ ~script.closing /\ Input
  /\ script' = [script EXCEPT !.abort = @ \/ script.engine, !.heard = @ \/ Going({"running"})]

\* ~ScriptingPanel, up to the join; a join that returns drops the posted result.
PanelDeleted ==
  /\ ~script.closing /\ Input
  /\ script' = [script EXCEPT !.closing = TRUE, !.abort = @ \/ script.engine,
                              !.heard = @ \/ Going({"running"})]

PanelJoins ==
  /\ script.closing /\ Going({"posted", "ended"}) /\ Step
  /\ script' = [script EXCEPT !.worker = "none", !.engine = FALSE, !.running = FALSE]

\* A plausible bug: the flag that the watchdog asks is raised for the script alone.
RunStartsUnflagged ==
  /\ Going({"starting"}) /\ Step
  /\ script' = [script EXCEPT !.worker = "running", !.abort = FALSE, !.watchdog = "sleeping"]

\* run() up to luaL_dostring.
RunStarts ==
  /\ Going({"starting"}) /\ Step
  /\ script' = [script EXCEPT !.worker = "running", !.abort = FALSE, !.flag = TRUE,
                              !.watchdog = "sleeping"]

\* luaL_newstate found no memory.
RunFails ==
  /\ Going({"starting"}) /\ Step
  /\ script' = [script EXCEPT !.worker = "posted", !.abort = FALSE, !.flag = FALSE]

\* abort_hook sees the flag: the script ends with an error.  A script may also end by itself.
HookAborts ==
  /\ Going({"running"}) /\ script.abort /\ Step
  /\ script' = [script EXCEPT !.worker = "joining", !.flag = FALSE]

ScriptReturns ==
  /\ Going({"running"}) /\ Step
  /\ script' = [script EXCEPT !.worker = "joining", !.flag = FALSE]

WatchdogWakes ==
  /\ script.watchdog = "sleeping" /\ Step
  /\ script' = [script EXCEPT !.watchdog = "ended", !.abort = @ \/ script.flag]

\* The watchdog is joined, the state closed, the result posted to the GUI thread.
RunReturns ==
  /\ Going({"joining"}) /\ script.watchdog = "ended" /\ Step
  /\ script' = [script EXCEPT !.worker = "posted", !.watchdog = "none"]

ResultShown ==
  /\ Going({"posted"}) /\ ~script.closing /\ Step
  /\ script' = [script EXCEPT !.worker = "ended", !.running = FALSE, !.engine = FALSE]

ScriptReacts ==
  \/ PanelJoins \/ RunStarts \/ RunFails \/ HookAborts \/ WatchdogWakes \/ RunReturns \/ ResultShown
ScriptNext == RunClicked \/ StopClicked \/ PanelDeleted \/ ScriptReturns \/ ScriptReacts

\* Threads are never without the engine they use; a script whose Stop came after it had
\* started is never left without the flag (lua_engine.cpp:79 clears it).
ScriptSound ==
  /\ (script.watchdog # "none" \/ Going({"starting", "running", "joining"})) => script.engine
  /\ script.heard /\ Going({"running"}) => script.abort
=============================================================================
