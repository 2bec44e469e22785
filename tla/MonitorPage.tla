---------------------------- MODULE MonitorPage ----------------------------
(* The monitor (gui/src/monitor_panel.cpp, monitor_panel_frames.cpp,       *)
(* monitor_panel_actions.cpp): a log of frames, or one row per identifier; *)
(* what is shown of it depends on the filters, the search, the pins and a  *)
(* baseline of payloads taken for noise.                                   *)
EXTENDS Session

CONSTANT MaxRows  \* kMaxRows

ASSUME RowsAssumption == MaxRows \in Nat \ {0}

VARIABLE
  monitor  \* the table, m_tracked, m_pinned, m_logLastSeen, m_baseline, the controls

MonIds == 1..2
MonData == 0..2           \* payloads; the last is longer than the others
DlcOf(data) == IF data = 2 THEN 2 ELSE 1
NoData == -1
NoEntry == [last |-> NoData, ever |-> FALSE, row |-> 0]
PerId(v) == [i \in MonIds |-> v]

\* came holds what passed the gates since the table was last emptied; lapsed says that frames
\* were logged without changedOnly since then.
MonitorInit == monitor =
  [rows |-> <<>>, tracked |-> PerId(NoEntry), pinned |-> {}, lastSeen |-> PerId(NoData),
   baseline |-> PerId(NoData), track |-> FALSE, pause |-> FALSE, noise |-> FALSE,
   changedOnly |-> FALSE, dlc |-> 0, search |-> 0, came |-> <<>>, lapsed |-> FALSE]

Found(m, id) == m.search \in {0, id}

\* applyRowVisibility.
Hidden(m, id) == (m.changedOnly /\ id \notin m.pinned /\ ~m.tracked[id].ever) \/ ~Found(m, id)

WithHidden(rows, ids) == [r \in DOMAIN rows |-> [rows[r] EXCEPT !.hidden = rows[r].id \in ids]]

\* A plausible bug: the rows in view are left as they were.
ShownAsBefore(m) == m

\* The rows of the tracking mode, looked at again: onMonitorFilterChanged, onSearchChanged.
Reviewed(m) ==
  IF m.track THEN [m EXCEPT !.rows = WithHidden(@, {id \in MonIds : Hidden(m, id)})] ELSE m

\* appendLogRow.
Logged(m, id, data) ==
  LET rows == IF Len(m.rows) >= MaxRows THEN Tail(m.rows) ELSE m.rows
      row == [id |-> id, data |-> data, hidden |-> ~Found(m, id)] IN
  IF m.changedOnly /\ m.lastSeen[id] = data THEN m
  ELSE [m EXCEPT !.rows = Append(rows, row), !.came = Append(@, <<id, data>>),
                 !.lapsed = @ \/ ~m.changedOnly,
                 !.lastSeen[id] = IF m.changedOnly THEN data ELSE @]

\* updateTrackingRow.
Tracked(m, id, data) ==
  LET old == m.tracked[id]
      entry == IF old.row = 0 THEN [last |-> data, ever |-> FALSE, row |-> Len(m.rows) + 1]
               ELSE [old EXCEPT !.last = data, !.ever = @ \/ data # old.last]
      seen == [m EXCEPT !.tracked[id] = entry, !.came = Append(@, <<id, data>>)]
      row == [id |-> id, data |-> data, hidden |-> Hidden(seen, id)] IN
  [seen EXCEPT !.rows = IF old.row = 0 THEN Append(@, row) ELSE [@ EXCEPT ![entry.row] = row]]

\* onFrameReceivedOnBus; what FilterModel lets through.
MonitorFrame ==
  /\ ~monitor.pause /\ Input
  /\ \E id \in MonIds, data \in MonData :
       /\ monitor.dlc \in {0, DlcOf(data)}
       /\ ~(monitor.noise /\ monitor.baseline[id] = data)
       /\ monitor' = IF monitor.track THEN Tracked(monitor, id, data) ELSE Logged(monitor, id, data)

Emptied(m) == [m EXCEPT !.rows = <<>>, !.tracked = PerId(NoEntry), !.pinned = {},
                        !.lastSeen = PerId(NoData), !.came = <<>>, !.lapsed = FALSE]

\* onTrackModeToggled.
TrackToggled == Input /\ monitor' = [Emptied(monitor) EXCEPT !.track = ~@]

\* onClear; "Show Bus" ends in it too.
ClearMonitor == Input /\ monitor' = [Emptied(monitor) EXCEPT !.search = 0]

\* onMonitorFilterChanged: a row of the log stays as it is.
MonitorFilterChanged ==
  /\ Input
  /\ \/ monitor' = Reviewed([monitor EXCEPT !.changedOnly = ~@])
     \/ \E d \in 0..1 : d # monitor.dlc /\ monitor' = Reviewed([monitor EXCEPT !.dlc = d])

\* onSearchChanged.
SearchChanged ==
  /\ Input
  /\ \E s \in {0} \cup MonIds :
       /\ s # monitor.search
       /\ LET m == [monitor EXCEPT !.search = s] IN
          monitor' = IF m.track THEN Reviewed(m)
                     ELSE [m EXCEPT !.rows = WithHidden(@, {id \in MonIds : ~Found(m, id)})]

\* onContextMenu, on a row in view.
PinToggled ==
  /\ monitor.track /\ Input
  /\ \E r \in DOMAIN monitor.rows :
       LET id == monitor.rows[r].id
           m == [monitor EXCEPT !.pinned = IF id \in @ THEN @ \ {id} ELSE @ \cup {id}] IN
       /\ ~monitor.rows[r].hidden
       /\ monitor' = [m EXCEPT !.rows[r].hidden = id \notin m.pinned /\ Hidden(m, id)]

\* Capture Baseline, Clear Baseline: of the rows in view, the last of each identifier.
CaptureBaseline ==
  /\ Input
  /\ LET Of(id) == {r \in DOMAIN monitor.rows : monitor.rows[r].id = id /\ ~monitor.rows[r].hidden}
         Taken(id) == IF Of(id) = {} THEN NoData ELSE monitor.rows[Max(Of(id))].data IN
     \/ monitor' = [monitor EXCEPT !.baseline = [id \in MonIds |-> Taken(id)]]
     \/ monitor' = [monitor EXCEPT !.baseline = PerId(NoData)]

BoxToggled == Input /\ (monitor' = [monitor EXCEPT !.pause = ~@] \/ monitor' = [monitor EXCEPT !.noise = ~@])

MonitorReacts == FALSE
MonitorNext ==
  \/ MonitorFrame \/ TrackToggled \/ ClearMonitor \/ MonitorFilterChanged \/ SearchChanged
  \/ PinToggled \/ CaptureBaseline \/ BoxToggled

\* The k-th frame that came is the last of its identifier up to the n-th.
LastUpTo(k, n) ==
  k <= n /\ \A i \in (k + 1)..n : monitor.came[i][1] # monitor.came[k][1]

\* The log holds the latest frames that passed, in order, and hides those that the search
\* does not find.  Tracking has one row for each identifier, with its last payload, and
\* hides it exactly when the search does not find it or "only changes" finds none and no
\* pin keeps it, in any order of frames, pins, searches and filters.  With changedOnly on
\* since the table was emptied no two successive rows of an identifier are the same.
MonitorSound ==
  IF ~monitor.track
  THEN /\ Len(monitor.rows) <= MaxRows
       /\ \A r \in DOMAIN monitor.rows :
            /\ <<monitor.rows[r].id, monitor.rows[r].data>>
                 = monitor.came[Len(monitor.came) - Len(monitor.rows) + r]
            /\ monitor.rows[r].hidden = ~Found(monitor, monitor.rows[r].id)
       /\ ~monitor.lapsed => \A j, k \in DOMAIN monitor.came :
            j < k /\ LastUpTo(j, k - 1) => monitor.came[j] # monitor.came[k]
  ELSE /\ {r.id : r \in Range(monitor.rows)} = {f[1] : f \in Range(monitor.came)}
       /\ \A r \in DOMAIN monitor.rows :
            LET id == monitor.rows[r].id IN
            /\ monitor.tracked[id].row = r
            /\ \E k \in DOMAIN monitor.came : /\ LastUpTo(k, Len(monitor.came))
                                             /\ monitor.came[k] = <<id, monitor.rows[r].data>>
            /\ monitor.rows[r].hidden =
                 (~Found(monitor, id) \/ (/\ monitor.changedOnly /\ id \notin monitor.pinned
                                         /\ \A f, g \in Range(monitor.came) :
                                              f[1] = id /\ g[1] = id => f = g))
============================================================================
