------------------------------ MODULE MCUdsEcuSim ------------------------------
(* The write request and the answers to both reads take several frames and     *)
(* wrap the sequence number; the right key is the one for the last seed.       *)
EXTENDS UdsEcuSim

MCSeeds  == {"s1", "s2"}
MCValues == {"v0", "v1"}

MCRequests ==
  { Pdu("10", "01"), Pdu("10", "03"), Pdu("10", "bad"), Pdu("11", "01"), Pdu("11", "bad"),
    Pdu("14", "none"), Pdu("19", "01"), Pdu("19", "02"), Pdu("19", "0A"), Pdu("19", "bad"),
    Pdu("22", "did"), Pdu("22", "other"), Pdu("27", "short key"), Pdu("27", "bad"),
    Pdu("2E", "v0"), Pdu("2E", "v1"), Pdu("2E", "other"), Pdu("27", "seed"),
    Pdu("27", "s1"), Pdu("27", "short"), Pdu("28", "03"), Pdu("31", "01"),
    Pdu("3E", "80"), Pdu("3E", "00"), Pdu("85", "none") }

MCResponses ==
  { Pdu("50", "01"), Pdu("50", "03"), Pdu("51", "01"), Pdu("54", "none"),
    Pdu("59", "count"), Pdu("59", "failing"), Pdu("59", "confirmed"),
    Pdu("59", "all, failing"), Pdu("59", "all, confirmed"), Pdu("62", "v0"), Pdu("62", "v1"),
    Pdu("6E", "none"), Pdu("67", "s1"), Pdu("67", "s2"), Pdu("67", "02"),
    Pdu("68", "03"), Pdu("71", "01"), Pdu("7E", "00"), Pdu("7F", "11"),
    Pdu("7F", "12"), Pdu("7F", "13"), Pdu("7F", "24"), Pdu("7F", "31"), Pdu("7F", "35") }

MCMessages == MCRequests \cup MCResponses
MCCfCount  == [m \in MCMessages |-> CASE m.svc \in {"2E", "62"} -> 2
                                      [] m.svc = "59" /\ m.arg # "count" -> 1
                                      [] OTHER -> 0]
===============================================================================
