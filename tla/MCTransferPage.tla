--------------------------- MODULE MCTransferPage ---------------------------
(* Two jobs, two pairs of ends and two routes, one of which suits one pair only. *)
EXTENDS TransferPage
MCEnds == {"near", "far"}
MCRoute == {"direct", "bridged"}
MCPossible == [e \in MCEnds |-> IF e = "near" THEN MCRoute ELSE {"direct"}]
=============================================================================
