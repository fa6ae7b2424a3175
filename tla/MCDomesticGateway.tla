--------------------------- MODULE MCDomesticGateway ---------------------------
(***************************************************************************)
(* Two requests at two ports with one slot each, as the services are       *)
(* configured.                                                             *)
(***************************************************************************)
EXTENDS DomesticGateway

CONSTANTS t1, t2, default, fast

MCThreads == {t1, t2}
MCPorts == {default, fast}
OneSlotEach == [p \in MCPorts |-> 1]
===============================================================================
