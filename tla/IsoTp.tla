-------------------------------- MODULE IsoTp --------------------------------
(***************************************************************************)
(* ISO 15765-2 frames, and protocols/isotp/src/isotp.cpp: the library's    *)
(* reassembler IsoTpReceiver.                                              *)
(*                                                                         *)
(* Bytes are abstracted to pieces: a message of n consecutive frames has   *)
(* the pieces 0..n, piece 0 in its single or first frame.                  *)
(***************************************************************************)
EXTENDS Integers, Sequences, FiniteSets

CONSTANTS Messages,   \* what nodes send each other
          CfCount,    \* consecutive frames a message takes; 0: a single frame
          SnModulus   \* sequence numbers wrap: 16 in the code

ASSUME MessageAssumption ==
  /\ CfCount \in [Messages -> Nat]
  /\ SnModulus \in Nat \ {0, 1}

\* Frames, by their PCI type.
SingleFrame(m) == [pci |-> "SF", msg |-> m]
FirstFrame(m)  == [pci |-> "FF", msg |-> m, pieces |-> CfCount[m] + 1]
ConsecutiveFrame(m, i, sn) == [pci |-> "CF", msg |-> m, piece |-> i, sn |-> sn]
FlowControl(flag, bs, st) == [pci |-> "FC", flag |-> flag, bs |-> bs, st |-> st]

OpeningFrame(m) == IF CfCount[m] = 0 THEN SingleFrame(m) ELSE FirstFrame(m)

\* The consecutive frames of m that carry pieces from+1 .. from+n, the first
\* with sequence number sn.
ConsecutiveFrames(m, from, n, sn) ==
  [i \in 1..n |-> ConsecutiveFrame(m, from + i, (sn + i - 1) % SnModulus)]

\* A message whole: all its pieces in order.
Whole(m) == [i \in 1..(CfCount[m] + 1) |-> <<m, i - 1>>]

-------------------------------------------------------------------------------
(* IsoTpReceiver: its members, and the messages the last feed completed *)

ReceiverInit == [receiving |-> FALSE, expected |-> 0, nextSn |-> 1, buf |-> << >>,
                 completed |-> << >>]

\* A plausible bug: a single frame does not end the reception in progress.
FeedSingleContinues(rx, f) == [rx EXCEPT !.completed = << <<<<f.msg, 0>>>> >>]

FeedSingle(rx, f) == [ReceiverInit EXCEPT !.completed = << <<<<f.msg, 0>>>> >>]

\* A plausible bug: a first frame in the middle of a reception is appended.
FeedFirstAppends(rx, f) ==
  [rx EXCEPT !.receiving = TRUE, !.expected = f.pieces, !.nextSn = 1,
             !.buf = Append(rx.buf, <<f.msg, 0>>), !.completed = << >>]

FeedFirst(rx, f) ==
  [ReceiverInit EXCEPT !.receiving = TRUE, !.expected = f.pieces,
                       !.buf = <<<<f.msg, 0>>>>]

FeedConsecutive(rx, f) ==
  LET buf == Append(rx.buf, <<f.msg, f.piece>>)
  IN  IF ~rx.receiving THEN [rx EXCEPT !.completed = << >>]
      ELSE IF f.sn # rx.nextSn THEN ReceiverInit
      ELSE IF Len(buf) >= rx.expected THEN [ReceiverInit EXCEPT !.completed = <<buf>>]
      ELSE [rx EXCEPT !.buf = buf, !.nextSn = (rx.nextSn + 1) % SnModulus,
                      !.completed = << >>]

\* feed: flow control is not for the receiver.
Feed(rx, f) ==
  CASE f.pci = "SF" -> FeedSingle(rx, f)
    [] f.pci = "FF" -> FeedFirst(rx, f)
    [] f.pci = "CF" -> FeedConsecutive(rx, f)
    [] f.pci = "FC" -> [rx EXCEPT !.completed = << >>]
===============================================================================
