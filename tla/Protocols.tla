----------------------------- MODULE Protocols -----------------------------
(* Reassembly of J1939 broadcasts (protocols/j1939/src/                    *)
(* j1939_transport.cpp), the answers of CANopen servers (protocols/canopen *)
(* /src/canopen_sdo.cpp) and the extraction of PDO fields (canopen_pdo.cpp).*)
EXTENDS Session

CONSTANT Mappings  \* of the objects in a PDO: their bit lengths

ASSUME MappingAssumption == \A m \in Mappings : \E n \in 0..8 : m \in [1..n -> 0..255]

VARIABLES
  bam,  \* the frames on their way, sessions_ by source address, what was delivered
  sdo,  \* the last SDO frame and what it was decoded to
  pdo   \* the last PDO frame, its mapping, and what it was decoded to

protocolVars == <<bam, sdo, pdo>>

----------------------------------------------------------------------------
\* Two sources; each sends numbered messages of two packets, the second part-filled.  An
\* announcement whose packets exceed its size is not sent: its copy would leave the buffer.
Sources == 1..2
Packets == 2
Hole == <<0, 0>>
NoSession == [open |-> FALSE, msg |-> 0, buf |-> [i \in 1..Packets |-> Hole], received |-> 0,
              age |-> 0, fed |-> <<>>]

BamInit == bam =
  [way |-> <<>>, sent |-> [s \in Sources |-> 0], next |-> [s \in Sources |-> 0],
   sessions |-> [s \in Sources |-> NoSession], heard |-> [s \in Sources |-> 0],
   delivered |-> NoSession]

\* A source announces its next message, also before the last is through, or goes on with it.
SourceSends ==
  /\ Input
  /\ \E s \in Sources :
       \/ bam' = [bam EXCEPT !.sent[s] = @ + 1, !.next[s] = 1,
                             !.way = Append(@, [sa |-> s, msg |-> bam.sent[s] + 1, seq |-> 0])]
       \/ /\ bam.next[s] \in 1..Packets
          /\ bam' = [bam EXCEPT !.next[s] = @ + 1,
                                !.way = Append(@, [sa |-> s, msg |-> bam.sent[s], seq |-> bam.next[s]])]

\* The capture may miss a frame; a bus may repeat one whose last bit was disturbed.
BusLoses == bam.way # <<>> /\ Input /\ bam' = [bam EXCEPT !.way = Tail(@)]
BusRepeats == bam.way # <<>> /\ Input /\ bam' = [bam EXCEPT !.way = <<Head(@)>> \o @]

\* feed, TP.CM_BAM.
Announced(sessions, f) ==
  [sessions EXCEPT ![f.sa] = [NoSession EXCEPT !.open = TRUE, !.msg = f.msg]]

\* feed, TP.DT: any data counts, repeated or not.
Fed(session, f) ==
  [session EXCEPT !.buf[f.seq] = <<f.msg, f.seq>>, !.received = @ + 1, !.age = 0,
                  !.fed = Append(@, <<f.msg, f.seq>>)]

Feed ==
  /\ bam.way # <<>> /\ Step
  /\ LET f == Head(bam.way)
         s == Fed(bam.sessions[f.sa], f)
         b == [bam EXCEPT !.way = Tail(@)] IN
     bam' = IF f.seq = 0 THEN [b EXCEPT !.sessions = Announced(@, f), !.heard[f.sa] = f.msg]
            ELSE IF ~bam.sessions[f.sa].open THEN b
            ELSE IF s.received >= Packets
                 THEN [b EXCEPT !.sessions[f.sa] = NoSession, !.delivered = s]
                 ELSE [b EXCEPT !.sessions[f.sa] = s]

\* expire_stale, for a session that saw nothing for as long as the timeout.
TimePasses ==
  /\ Input
  /\ \E s \in Sources : bam.sessions[s].open /\ bam' = [bam EXCEPT !.sessions[s].age = 1]
ExpireStale ==
  /\ Step
  /\ bam' = [bam EXCEPT !.sessions = [s \in Sources |-> IF @[s].age = 1 THEN NoSession ELSE @[s]]]

BamReacts == Feed
BamNext == SourceSends \/ BusLoses \/ BusRepeats \/ TimePasses \/ ExpireStale \/ BamReacts

\* A message is delivered whole, with two sources in between each other and messages given
\* up half way, unless a packet was repeated or an announcement was lost: a repeat is
\* counted as a packet of its own, and the packets after a lost announcement go to the
\* message before it.  A session is that of the latest announcement heard from its source.
BamSound ==
  LET d == bam.delivered
      clean == /\ \A f \in Range(d.fed) : f[1] = d.msg
               /\ Cardinality(Range(d.fed)) = Len(d.fed) IN
  /\ d.open /\ clean => \A i \in 1..Packets : d.buf[i] = <<d.msg, i>>
  /\ d.open => Len(d.fed) = Packets
  /\ \A s \in Sources : bam.sessions[s].open =>
       /\ bam.sessions[s].received < Packets
       /\ bam.sessions[s].msg = bam.heard[s]

----------------------------------------------------------------------------
\* A response as CiA 301 defines it, and as decode_sdo_response reads it.  A field of the
\* command byte: its lowest bit counts unit, it has count values.
Field(byte, unit, count) == (byte \div unit) % count
SdoInit == sdo = [cs |-> 0, type |-> "none", len |-> 0, toggle |-> 0, last |-> 0, copied |-> 0]

ToggleOf(cs) == Field(cs, 16, 2)

SdoDecoded(cs) ==
  LET upper == Field(cs, 32, 8)
      unused == IF upper = 2 THEN (IF Field(cs, 1, 2) = 1 THEN Field(cs, 4, 4) ELSE 0) ELSE Field(cs, 2, 8)
      Is(type, len, toggle, last) ==
        [cs |-> cs, type |-> type, len |-> len, toggle |-> toggle, last |-> last, copied |-> Min({len, 4})] IN
  CASE cs = 128                          -> Is("abort", 0, 0, 0)
    [] upper = 2 /\ Field(cs, 2, 2) = 1  -> Is("expedited", 4 - unused, 0, 0)
    [] upper = 2 /\ Field(cs, 2, 2) = 0  -> Is("segmented", 4, 0, 0)
    [] upper = 0                         -> Is("segment", 7 - unused, ToggleOf(cs), Field(cs, 1, 2))
    [] cs = 96                           -> Is("downloaded", 0, 0, 0)
    [] upper = 1                         -> Is("stored", 0, ToggleOf(cs), 0)
    [] upper = 6                         -> Is("block", 0, 0, 0)
    [] OTHER                             -> Is("unknown", 0, 0, 0)

\* What a server means with a command byte: transfers of 1 to 4 bytes, segments of 1 to 7.
SdoMeant ==
  {[cs |-> 64 + 4 * (4 - n) + 3, type |-> "expedited", len |-> n, toggle |-> 0, last |-> 0] : n \in 1..4}
  \cup {[cs |-> 65, type |-> "segmented", len |-> 4, toggle |-> 0, last |-> 0],
        [cs |-> 96, type |-> "downloaded", len |-> 0, toggle |-> 0, last |-> 0],
        [cs |-> 128, type |-> "abort", len |-> 0, toggle |-> 0, last |-> 0]}
  \cup {[cs |-> 16 * t + 2 * (7 - n) + l, type |-> "segment", len |-> n, toggle |-> t, last |-> l] :
          t \in 0..1, n \in 1..7, l \in 0..1}
  \cup {[cs |-> 32 + 16 * t, type |-> "stored", len |-> 0, toggle |-> t, last |-> 0] : t \in 0..1}

SdoFrame == Input /\ \E cs \in 0..255 : sdo' = SdoDecoded(cs)

SdoReacts == FALSE
SdoNext == SdoFrame

\* What a server means is what is read, for every response it may send; of a segment only
\* four bytes are copied, whatever data_len says ("valid bytes in data[]", canopen_sdo.h:36).
SdoSound ==
  /\ \A m \in SdoMeant : m.cs = sdo.cs /\ sdo.type # "none" =>
       m = [f \in DOMAIN m |-> sdo[f]]
  /\ sdo.len > sdo.copied => sdo.type = "segment"

----------------------------------------------------------------------------
\* The bits of a frame are numbered; what they hold is left out.
PdoInit == pdo = [dlc |-> 0, lengths |-> <<>>, out |-> <<>>]

\* decode_pdo, one field: the offset is a byte; the fields end with the first that does not fit.
NextField(state, length) ==
  LET end == (state.at + length) % 256 IN
  IF state.done \/ length = 0 THEN state
  ELSE IF end > 8 * state.dlc THEN [state EXCEPT !.done = TRUE]
  ELSE [state EXCEPT !.at = end, !.out = Append(@, <<state.at, length>>)]

PdoDecoded(dlc, lengths) ==
  LET state[k \in 0..Len(lengths)] ==
        IF k = 0 THEN [at |-> 0, dlc |-> dlc, done |-> FALSE, out |-> <<>>]
        ELSE NextField(state[k - 1], lengths[k])
  IN state[Len(lengths)].out

PdoFrame ==
  /\ Input
  /\ \E dlc \in 0..8, lengths \in Mappings :
       pdo' = [dlc |-> dlc, lengths |-> lengths, out |-> PdoDecoded(dlc, lengths)]

PdoReacts == FALSE
PdoNext == PdoFrame

\* Where the mapping's fields end.
FieldEnds(lengths) ==
  LET ends[k \in 0..Len(lengths)] == IF k = 0 THEN 0 ELSE ends[k - 1] + lengths[k] IN ends

\* Each field starts where the mapping has it; the fields that are there are those that lie
\* within the frame, in the order of the mapping -- unless one starts within the frame and
\* ends so far behind it that the end is cut to its low byte.
PdoSound ==
  LET ends == FieldEnds(pdo.lengths)
      Fields == {k \in DOMAIN pdo.lengths : pdo.lengths[k] > 0 /\ ends[k] <= 8 * pdo.dlc} IN
  (\A k \in DOMAIN pdo.lengths : ends[k - 1] <= 8 * pdo.dlc => ends[k] < 256) =>
    /\ Len(pdo.out) = Cardinality(Fields)
    /\ \A k \in Fields :
         pdo.out[Cardinality({j \in Fields : j <= k})] = <<ends[k - 1], pdo.lengths[k]>>
============================================================================
