------------------------------ MODULE MCGateway ------------------------------
(* The gateway on small instances.                                         *)
EXTENDS GatewayInvariant, TLC

OneAction  == {1}
TwoActions == {1, 2}
NoActions  == {}

\* Contents and clients are interchangeable: no definition names one.
Symmetry == Permutations(Contents) \cup Permutations(Clients)
=============================================================================
