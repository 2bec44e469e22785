----------------------------- MODULE GraphPage -----------------------------
(* The signal graph (gui/src/signal_graph.cpp): traces that a frame's      *)
(* context menu or a project brings, their labels, and markers.            *)
EXTENDS Session

CONSTANT MaxTraces  \* kMaxTraces

ASSUME TracesAssumption == MaxTraces \in Nat

VARIABLE
  graph  \* m_traces, m_markers, the DBC, the clock's origin; the window's aliases; the project

\* A trace is a message and what is drawn of it: a signal of the DBC, or a byte.  The name
\* an alias is kept under is that of the signal alone.  The DBC lacks message 3.
GraphMsgs == 1..3
DbcMsgs == 1..2
SignalsOf(msg) == IF msg = 1 THEN <<"s", "t">> ELSE <<"s">>
IsByte(trace) == trace[2] = "byte"
Canonical(trace) == IF IsByte(trace) THEN trace ELSE <<0, trace[2]>>
GraphTimes == 0..2
MaxPoints == 2  \* kMaxSeriesPts

NoLabel == "none"
NewTrace(of) == [of |-> of, label |-> NoLabel, points |-> <<>>]
NoAliases == [c \in {<<0, "s">>, <<0, "t">>, <<1, "byte">>, <<2, "byte">>, <<3, "byte">>} |-> NoLabel]

\* A project of an earlier session: one signal that was given a name, and a byte.
NamedProject ==
  [list |-> <<[of |-> <<1, "s">>, label |-> "x"], [of |-> <<2, "byte">>, label |-> NoLabel]>>,
   aliases |-> [NoAliases EXCEPT ![<<0, "s">>] = "x"], dbc |-> TRUE]
NoProjectYet == [list |-> <<>>, aliases |-> NoAliases, dbc |-> FALSE]

\* missed: a trace of a project that was opened could not be drawn; saved again, the project
\* has the others' wrong labels.
GraphInit ==
  \E saved \in {NoProjectYet, NamedProject} :
    graph = [traces |-> <<>>, markers |-> <<>>, dbc |-> FALSE, first |-> TRUE, start |-> 0,
             maxT |-> 0, timer |-> FALSE, aliases |-> NoAliases, saved |-> saved, missed |-> FALSE]

\* addSignal, addRawSignal, addTrace.
WithTrace(g, of) ==
  IF \/ Len(g.traces) >= MaxTraces
     \/ ~IsByte(of) /\ ~g.dbc
     \/ \E t \in Range(g.traces) : t.of = of
  THEN g
  ELSE [g EXCEPT !.traces = Append(@, NewTrace(of)), !.timer = TRUE]

\* One after the other.
WithTraces(g, list) ==
  LET drawn[k \in 0..Len(list)] == IF k = 0 THEN g ELSE WithTrace(drawn[k - 1], list[k])
  IN drawn[Len(list)]

\* addFrameSignals: the message's signals, or its bytes when no DBC has it.
AddFrame ==
  /\ Input
  /\ \E msg \in GraphMsgs :
       graph' = IF graph.dbc /\ msg \in DbcMsgs
                THEN WithTraces(graph, [i \in DOMAIN SignalsOf(msg) |-> <<msg, SignalsOf(msg)[i]>>])
                ELSE WithTrace(graph, <<msg, "byte">>)

\* onFrameReceived: time starts with the first frame that finds a trace.
GraphFrame ==
  /\ graph.traces # <<>> /\ Input
  /\ \E msg \in GraphMsgs, t \in GraphTimes :
       LET start == IF graph.first THEN t ELSE graph.start
           Drawn(trace) ==
             IF trace.of[1] # msg \/ (~IsByte(trace.of) /\ ~graph.dbc) THEN trace
             ELSE LET points == Append(trace.points, t - start) IN
                  [trace EXCEPT !.points = IF Len(points) > MaxPoints THEN Tail(points) ELSE points] IN
       graph' = [graph EXCEPT !.first = FALSE, !.start = start,
                              !.traces = [i \in DOMAIN @ |-> Drawn(@[i])]]

\* onScrollAxis, every 200 ms.
ScrollTick ==
  /\ graph.timer /\ ~graph.first /\ Step
  /\ LET Ends == {Last(t.points) : t \in {u \in Range(graph.traces) : u.points # <<>>}} IN
     graph' = [graph EXCEPT !.maxT = Max({0} \cup Ends)]

Marker(g, x) == [g EXCEPT !.markers = Append(@, [time |-> g.start + x, at |-> x, early |-> g.first])]
\* onAddMarkerNow; "Add marker at" of the chart's menu, which does not wait for a frame.
AddMarkerNow == ~graph.first /\ Input /\ graph' = Marker(graph, graph.maxT)
AddMarkerAt == Input /\ \E x \in {graph.maxT, graph.maxT + 1} : graph' = Marker(graph, x)
ClearMarkers == graph.markers # <<>> /\ Input /\ graph' = [graph EXCEPT !.markers = <<>>]

\* onClearAll; the origin of time stays until a frame comes.
ClearedAll(g) == [g EXCEPT !.traces = <<>>, !.markers = <<>>, !.first = TRUE, !.maxT = 0, !.timer = FALSE]
ClearGraph == Input /\ graph' = ClearedAll(graph)

\* renameTrace; the window keeps the alias, by the name of the signal.
RenameTrace ==
  /\ Input
  /\ \E i \in DOMAIN graph.traces, l \in {"x", "y"} :
       graph' = [graph EXCEPT !.traces[i].label = l, !.aliases[Canonical(graph.traces[i].of)] = l]

GraphDbc == ~graph.dbc /\ Input /\ graph' = [graph EXCEPT !.dbc = TRUE]

----------------------------------------------------------------------------
\* trackedSignals; the aliases and the path of the DBC go with them.
SaveGraph ==
  /\ Input
  /\ graph' = [graph EXCEPT !.saved =
       [list |-> [i \in DOMAIN graph.traces |-> [of |-> graph.traces[i].of, label |-> graph.traces[i].label]],
        aliases |-> graph.aliases, dbc |-> graph.dbc]]

\* restoreSignals: the labels by position, then the aliases by name.
Restored(g, list, aliases) ==
  LET drawn == WithTraces(ClearedAll(g), [i \in DOMAIN list |-> list[i].of])
      Labelled(i) ==
        LET of == drawn.traces[i].of IN
        IF aliases[Canonical(of)] # NoLabel THEN aliases[Canonical(of)] ELSE list[i].label IN
  [drawn EXCEPT !.traces = [i \in DOMAIN @ |-> [@[i] EXCEPT !.label = Labelled(i)]],
                !.aliases = aliases, !.missed = @ \/ Len(drawn.traces) < Len(list)]

\* applyProject: the graph first, the DBC after it.
OpenGraph ==
  /\ Input
  /\ LET s == graph.saved IN
     graph' = [Restored(graph, s.list, s.aliases) EXCEPT !.dbc = @ \/ s.dbc]

\* onNewProject.
NewGraph == Input /\ graph' = Restored(graph, <<>>, NoAliases)

GraphReacts == ScrollTick
GraphNext ==
  \/ AddFrame \/ GraphFrame \/ AddMarkerNow \/ AddMarkerAt \/ ClearMarkers \/ ClearGraph
  \/ RenameTrace \/ GraphDbc \/ SaveGraph \/ OpenGraph \/ NewGraph \/ GraphReacts

\* A trace is drawn once, under its own name or the alias of its signal, also after it went
\* through a project -- unless a trace of a project could not be drawn (its DBC is read only
\* afterwards), when the labels of the others are those of their neighbours, or two
\* messages have a signal of that name.  A marker stays beside the points it was set at,
\* unless it was set before there was one.  The axis scrolls as long as there is a trace.
GraphSound ==
  LET Same(i) == {j \in DOMAIN graph.traces :
                    Canonical(graph.traces[j].of) = Canonical(graph.traces[i].of)} IN
  /\ Len(graph.traces) <= MaxTraces
  /\ \A i, j \in DOMAIN graph.traces : graph.traces[i].of = graph.traces[j].of => i = j
  /\ \A i \in DOMAIN graph.traces :
       \/ graph.traces[i].label \in {NoLabel, graph.aliases[Canonical(graph.traces[i].of)]}
       \/ graph.missed \/ Same(i) # {i}
  /\ \A m \in Range(graph.markers) : m.early \/ m.time - graph.start = m.at
  /\ graph.timer <=> graph.traces # <<>>
  /\ \A i \in DOMAIN graph.traces : Len(graph.traces[i].points) <= MaxPoints
============================================================================
