------------------------------- MODULE MCReplays -------------------------------
(* Traces of the timed replay: a burst in the middle, a burst at the end.      *)
EXTENDS Replays

MCTraces == {<<10, 20, 20, 30>>, <<10, 10>>}
===============================================================================
