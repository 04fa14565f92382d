--------------------------- MODULE MCPodRestart ----------------------------
(* Small instances of PodRestart: a stable, a new and an older rs.         *)
EXTENDS PodRestart, TLC

CONSTANTS rs1, rs2, rs3, noRS

MCRS == {rs1, rs2, rs3}
MCCreated == (rs1 :> 2 @@ rs2 :> 3 @@ rs3 :> 1)

=============================================================================
