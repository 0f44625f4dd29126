--------------------------- MODULE MCExporterCaches ---------------------------
(***************************************************************************)
(* Small instances, for TLC, of the exporter's pod cache and of the build  *)
(* of a metric, side by side: part names the one that moves.               *)
(***************************************************************************)
EXTENDS MCPodByIPCache, Attribution

CONSTANTS host, pod, far, z1, z2

VARIABLE part

PartsInit ==
    /\ part \in {"cache", "build"}
    /\ Init
    /\ AttrInit /\ (part = "cache" => DOMAIN nodes = {} /\ placed = [x \in Private |-> NoNode])

PartsNext ==
    /\ UNCHANGED part
    /\ \/ part = "cache" /\ Next /\ UNCHANGED attrVars
       \/ part = "build" /\ AttrNext /\ UNCHANGED vars

PartsSpec == PartsInit /\ [][PartsNext]_<<vars, attrVars, part>>
=============================================================================
