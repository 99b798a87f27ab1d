------------------------- MODULE MCDistributedWork --------------------------
(* A job and two rpc requests, one of them for the same root.              *)
EXTENDS DistributedWork

CONSTANTS j1, r1, r2, x, y

RootTable == [r \in Request |-> IF r = r2 THEN y ELSE x]

MCRootOf == RootTable

=============================================================================
