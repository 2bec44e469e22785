------------------------------ MODULE MCUdsTester ------------------------------
(* Requests: qs in a single frame, qm and qn in several, qm wrapping the       *)
(* sequence number.  Responses: rs in a single frame, rm and rn in several, rm  *)
(* wrapping it too.  Blocks of 1 and unlimited blocks.                          *)
EXTENDS UdsTester

CONSTANTS qs, qm, qn, rs, rm, rn

MCMessages  == {qs, qm, qn, rs, rm, rn}
MCRequests  == {qs, qm, qn}
MCResponses == {rs, rm, rn}
MCCfCount   == [m \in MCMessages |->
                 CASE m \in {qs, rs} -> 0 [] m \in {qm, rm} -> 2 [] m \in {qn, rn} -> 1]
===============================================================================
