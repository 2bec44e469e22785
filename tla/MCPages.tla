------------------------------ MODULE MCPages ------------------------------
(* All the pages, each with as many inputs as its hazards take: a physical *)
(* interface and a serial adapter, two frames to send.                     *)
EXTENDS Pages

MCIfaces == {"can0", "slcan:tty"}
MCSerial == {"slcan:tty"}
MCPhysical == {"can0"}
MCPayloads == {<<0>>, <<1>>, <<250>>, <<0, 0>>, <<1, 250>>}

MCMappings == UNION {[1..n -> {0, 1, 8, 32, 255}] : n \in 1..3}
MCOffers == {{"vcan0"}, {"can0"}, {"can0", "slcan:tty"}}

MCInputs ==
  [p \in PageNames |->
    CASE p \in {"sdo", "pdo"} -> 1
      [] p \in {"script", "xcp", "simulator"} -> 3
      [] p \in {"update", "doip", "monitor", "project"} -> 4
      [] p \in {"transmit", "tree", "verify", "checked", "scan", "graph"} -> 5
      [] OTHER -> 6]
============================================================================
