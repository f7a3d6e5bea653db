--------------------------- MODULE MCScanPipeline ---------------------------
(***************************************************************************)
(* A rule about findings, and one about the scan as a whole.               *)
(***************************************************************************)
EXTENDS ScanPipeline

CONSTANTS portRule, offlineRule

PortAndOffline ==
    [r \in Rules |-> IF r = portRule THEN "new_open_port" ELSE "asset_offline"]

=============================================================================
