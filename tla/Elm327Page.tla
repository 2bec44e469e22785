----------------------------- MODULE Elm327Page -----------------------------
(* An ELM327 adapter over a serial port or Bluetooth, and its panel        *)
(* (gui/src/elm327_bridge.cpp, elm327_panel.cpp).  The bridge sends its    *)
(* commands by a timer and asks no answer; sendFrame has no caller and is  *)
(* left out.  A line the adapter sends is an answer ("OK", the prompt) or  *)
(* a frame, in two halves; halves carry the link they came over.           *)
EXTENDS Session

VARIABLES
  elm,   \* m_state, m_initStep, m_initTimer, m_serial or m_btSocket, m_io; the panel's m_connected
  line   \* what m_readBuf holds of a line; the last line reported; how many links there were

elmVars == <<elm, line>>

\* Length of kInitSequence.
InitCommands == 5

\* openBluetooth and close leave the bridge so; sync: the socket failed before
\* connectToService returned.
ElmClosed == [state |-> "Closed", step |-> 0, timer |-> FALSE, link |-> "none", io |-> FALSE,
              connected |-> FALSE, sync |-> FALSE]
ElmInit ==
  /\ elm = ElmClosed
  /\ line = [buffer |-> <<>>, reported |-> <<>>, links |-> 0]

\* close() and its caller's m_connected.
Closes ==
  /\ elm' = ElmClosed
  /\ line' = [line EXCEPT !.buffer = <<>>]

\* startInit over a new link.
Initializing(link, connected) ==
  [ElmClosed EXCEPT !.state = "Initializing", !.timer = TRUE, !.link = link, !.io = TRUE,
                    !.connected = connected]
NewLine == [line EXCEPT !.buffer = <<>>, !.links = @ + 1]

\* onConnectClicked with a Bluetooth device selected: the socket connects later, or fails
\* before openBluetooth returns; the panel shows it connected all the same.
ConnectBluetooth ==
  /\ ~elm.connected /\ Input
  /\ \/ elm' = [ElmClosed EXCEPT !.link = "bluetooth", !.connected = TRUE]
     \/ elm' = [ElmClosed EXCEPT !.connected = TRUE, !.sync = TRUE]
  /\ line' = [line EXCEPT !.buffer = <<>>]

BluetoothConnected ==
  /\ elm.link = "bluetooth" /\ ~elm.io /\ Step
  /\ elm' = Initializing("bluetooth", elm.connected)
  /\ line' = NewLine

\* onBtError, while connecting or later: connectionError, then close().
BluetoothFails ==
  /\ elm.link = "bluetooth" /\ Input
  /\ Closes

\* onConnectClicked without one: the serial port opens or not.
ConnectSerial ==
  /\ ~elm.connected /\ Input
  /\ \/ /\ elm' = Initializing("serial", TRUE)
        /\ line' = NewLine
     \/ Closes

DisconnectClicked ==
  /\ elm.connected /\ Input
  /\ Closes

\* onInitStep: one command per timeout, then ATMA.
InitStep ==
  /\ elm.timer /\ Step
  /\ elm' = IF elm.step < InitCommands
            THEN [elm EXCEPT !.step = @ + 1]
            ELSE [elm EXCEPT !.state = "Monitoring", !.timer = FALSE]
  /\ UNCHANGED line

\* onReadyRead: a chunk is an answer's or a frame's first half, or what ends the line;
\* processLine reports nothing but frames, and these only while monitoring.
Reads ==
  /\ elm.io /\ Input
  /\ \/ /\ \E what \in {"answer", "frame"} : line' = [line EXCEPT !.buffer = <<[what |-> what, link |-> line.links]>>]
        /\ line.buffer = <<>>
     \/ /\ line.buffer # <<>>
        /\ line' = [line EXCEPT !.buffer = <<>>,
                      !.reported = IF elm.state = "Monitoring" /\ Head(line.buffer).what = "frame"
                                   THEN <<Head(line.buffer).link, line.links>> ELSE @]
  /\ UNCHANGED elm

ElmReacts == BluetoothConnected \/ InitStep
ElmNext ==
  \/ ConnectBluetooth \/ BluetoothFails \/ ConnectSerial \/ DisconnectClicked \/ Reads \/ ElmReacts

\* The panel shows a connection exactly when the bridge has a link or waits for one --
\* except when Bluetooth fails before openBluetooth returns, which leaves Disconnect shown
\* over a closed bridge; the adapter is initialised by a timer that runs for it alone; a
\* reported frame never joins halves of two links.
ElmSound ==
  /\ ~elm.sync => (elm.connected <=> elm.link # "none")
  /\ elm.timer <=> elm.state = "Initializing"
  /\ elm.state # "Closed" => elm.io /\ elm.link # "none"
  /\ line.reported # <<>> => line.reported[1] = line.reported[2]
=============================================================================
