--------------------------- MODULE MCPanelSession ---------------------------
(* Small instances of PanelSession.                                        *)
EXTENDS PanelSession

CONSTANTS u1, u2, r1, r2, c1, c2

MCTenantOf == [r \in Receptor |-> u1]
=============================================================================
