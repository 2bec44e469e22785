------------------------------ MODULE UdsScanner ------------------------------
(***************************************************************************)
(* gui/src/uds_scanner.cpp: the service scanner, a third client of the     *)
(* panel's transport.  It sends each SID in turn, waits for a response, an *)
(* error or its own P2 timer, records a row and goes on 10 ms later.       *)
(***************************************************************************)
EXTENDS Integers, Sequences, SequencesExt

CONSTANT Sids  \* the SIDs scanned, in order: 0x00 to 0xFF in the code

ASSUME SidsAssumption == Sids \in Seq(0..\hFF) /\ Sids # << >>

ScanRequest(i) == [svc |-> Sids[i], sub |-> "none"]

\* A row: the SID it is for and what it says: supported, or one of NRC, unknown
\* response and timeout, which are not told apart.
Row(i, result) == [sid |-> Sids[i], result |-> result]

ScanType ==
  [ scanning : BOOLEAN,              \* m_scanning; also Scan disabled, Stop enabled
    current : 1..(Len(Sids) + 1),    \* index of m_currentSid
    rows : SUBSET [sid : Range(Sids), result : {"supported", "other"}],
    listening : BOOLEAN,             \* responseReceived is connected
    hearsErrors : BOOLEAN,           \* errorOccurred is connected: for good
    stepTimer : BOOLEAN, p2Timer : BOOLEAN ]

ScanInit ==
  [scanning |-> FALSE, current |-> 1, rows |-> {}, listening |-> FALSE,
   hearsErrors |-> FALSE, stepTimer |-> FALSE, p2Timer |-> FALSE]

-------------------------------------------------------------------------------
\* onScan, up to startStep.
ScanBegins(s) ==
  [s EXCEPT !.scanning = TRUE, !.current = 1, !.rows = {}, !.listening = TRUE,
            !.hearsErrors = TRUE]

\* finishScan: the timers are left alone.
ScanFinished(s) == [s EXCEPT !.scanning = FALSE, !.listening = FALSE]

\* A plausible bug: the timers of the scan that is stopped still run.
ScanStoppedTimersRun(s) == ScanFinished(s)

\* onStop.
ScanStopped(s) == ScanFinished([s EXCEPT !.stepTimer = FALSE, !.p2Timer = FALSE])

\* A plausible bug: the wait for the last response is not ended, or begun again.
ScanAwaitsUntimed(s) == s

\* What startStep does after sendRequest.
ScanAwaits(s) == [s EXCEPT !.p2Timer = TRUE]

\* A plausible bug: the same SID is sent again.
ScanAdvancesNot(s) == [s EXCEPT !.stepTimer = FALSE]

\* onStep, up to startStep.
ScanAdvances(s) == [s EXCEPT !.stepTimer = FALSE, !.current = s.current + 1]

\* startStep finds nothing left to send.
ScanIsOver(s) == ~s.scanning \/ s.current > Len(Sids)

HasBit6(byte) == (byte \div 64) % 2 = 1

\* A plausible bug: any response but a negative one counts.
ScanResultAny(s, r) == IF r.first # \h7F THEN "supported" ELSE "other"

\* What a row says of a response: supported if its first byte is sid | 0x40.
ScanResult(s, r) ==
  LET sid == Sids[s.current]
  IN  IF r.first # \h7F /\ r.first = (IF HasBit6(sid) THEN sid ELSE sid + 64)
        THEN "supported" ELSE "other"

\* onScanResponse.
ScanResponse(s, r) ==
  IF ~(s.listening /\ s.scanning) THEN s
  ELSE [s EXCEPT !.p2Timer = FALSE, !.stepTimer = TRUE,
                 !.rows = s.rows \cup {Row(s.current, ScanResult(s, r))}]

\* onScanTimeout: the P2 timer, when it is the transport's error that came, runs on.
ScanTimeout(s) ==
  IF ~s.scanning THEN s
  ELSE [s EXCEPT !.stepTimer = TRUE,
                 !.rows = s.rows \cup {Row(s.current, "other")}]

\* onScanError.
ScanError(s) == IF s.hearsErrors THEN ScanTimeout(s) ELSE s
===============================================================================
