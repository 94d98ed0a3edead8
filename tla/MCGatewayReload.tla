--------------------------- MODULE MCGatewayReload ---------------------------
(* The gateway reload on small instances.                                  *)
EXTENDS GatewayReload, TLC

CONSTANTS a, b, none

TwoGateways == {a, b}

Symmetry == Permutations(TwoGateways)

=============================================================================
