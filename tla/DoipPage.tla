------------------------------ MODULE DoipPage ------------------------------
(* A DoIP client over TCP (gui/src/doip_panel.cpp).  A message of the ECU  *)
(* is a header and a payload, which the stream cuts anywhere; a piece      *)
(* carries the connection and the number of its message.  Lengths that     *)
(* overflow an int are left out.                                           *)
EXTENDS Session

VARIABLES
  doip,    \* the socket; which widgets are enabled; m_routingActive; what the ECU did
  stream   \* sent and not yet read, m_rxBuffer, messages handled

doipVars == <<doip, stream>>

DoipInit ==
  /\ doip = [socket |-> "idle", connect |-> TRUE, disconnect |-> FALSE, uds |-> FALSE,
             active |-> FALSE, granted |-> FALSE, session |-> 0]
  /\ stream = [wire |-> <<>>, rx |-> <<>>, handled |-> <<>>, sent |-> 0]

\* m_rxBuffer.clear(); a plausible bug leaves it.
KeptRx == stream.rx
EmptiedRx == <<>>

\* onConnect.  A socket that is still closing refuses: onSocketError.
DoipConnectClicked ==
  /\ doip.connect /\ Input
  /\ IF doip.socket = "idle"
     THEN doip' = [doip EXCEPT !.socket = "connecting", !.connect = FALSE, !.active = FALSE]
     ELSE doip' = [doip EXCEPT !.connect = TRUE, !.disconnect = FALSE, !.uds = FALSE, !.active = FALSE]
  /\ stream' = [stream EXCEPT !.rx = EmptiedRx]

DoipConnects ==
  /\ doip.socket = "connecting" /\ Step
  /\ doip' = [doip EXCEPT !.socket = "connected", !.disconnect = TRUE, !.granted = FALSE, !.session = @ + 1]
  /\ stream' = [stream EXCEPT !.wire = <<>>, !.handled = <<>>, !.sent = 0]

\* onSocketError: the connection fails, is closed by the ECU, which has been heard to the end,
\* or reset, which loses what was on its way; unsent bytes may delay onDisconnectedSlot.
DoipError ==
  /\ doip.socket \in {"connecting", "connected"} /\ Step
  /\ doip' = [doip EXCEPT !.socket = IF @ = "connecting" THEN "idle" ELSE "closing",
                          !.connect = TRUE, !.disconnect = FALSE, !.uds = FALSE]
  /\ stream' = [stream EXCEPT !.wire = <<>>]

DoipDisconnectClicked ==
  /\ doip.disconnect /\ Input
  /\ doip' = [doip EXCEPT !.socket = IF @ = "connected" THEN "closing" ELSE @]
  /\ UNCHANGED stream

\* onDisconnectedSlot.
DoipDisconnected ==
  /\ doip.socket = "closing" /\ Step
  /\ doip' = [doip EXCEPT !.socket = "idle", !.connect = TRUE, !.disconnect = FALSE,
                          !.uds = FALSE, !.active = FALSE]
  /\ stream' = [stream EXCEPT !.rx = EmptiedRx, !.wire = <<>>]

\* The ECU answers; routing activation is granted once.
EcuSends ==
  /\ doip.socket = "connected" /\ Input
  /\ \E what \in {"granted", "refused", "response"} :
       LET piece(part) == [what |-> what, part |-> part, n |-> stream.sent + 1, session |-> doip.session] IN
       /\ stream' = [stream EXCEPT !.sent = @ + 1, !.wire = @ \o <<piece("header"), piece("payload")>>]
       /\ doip' = [doip EXCEPT !.granted = @ \/ what = "granted"]

\* processResponse handles each message that is complete.
Complete(rx) == SubSeq(rx, 1, Len(rx) - (Len(rx) % 2))
Activates(messages) == \E i \in DOMAIN messages : messages[i].part = "payload" /\ messages[i].what = "granted"

DoipReads ==
  /\ doip.socket \in {"connected", "closing"} /\ stream.wire # <<>> /\ Step
  /\ \E k \in 1..Len(stream.wire) :
       LET rx == stream.rx \o SubSeq(stream.wire, 1, k) IN
       /\ stream' = [stream EXCEPT !.wire = SubSeq(@, k + 1, Len(@)),
                       !.rx = SubSeq(rx, Len(Complete(rx)) + 1, Len(rx)),
                       !.handled = @ \o Complete(rx)]
       /\ doip' = [doip EXCEPT !.active = @ \/ Activates(Complete(rx)), !.uds = @ \/ Activates(Complete(rx))]

DoipReacts == DoipConnects \/ DoipError \/ DoipDisconnected \/ DoipReads
DoipNext == DoipConnectClicked \/ DoipDisconnectClicked \/ EcuSends \/ DoipReacts

\* Messages are handled whole, in order and in the connection they came over; requests can
\* be sent only over a connection whose ECU granted routing; some button always works.
DoipSound ==
  /\ \A i \in DOMAIN stream.handled :
       /\ stream.handled[i].part = IF i % 2 = 1 THEN "header" ELSE "payload"
       /\ stream.handled[i].n = (i + 1) \div 2 /\ stream.handled[i].session = doip.session
  /\ doip.uds => doip.active /\ doip.granted /\ doip.socket \in {"connected", "closing"}
  /\ doip.connect \/ doip.disconnect \/ doip.socket = "connecting"
=============================================================================
