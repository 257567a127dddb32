---------------------------- MODULE MCGatewayProbe ----------------------------
(* Instances of GatewayProbe for TLC.                                       *)
EXTENDS GatewayProbe, TLC

CONSTANTS w1, w2, g1, g2

MCWorkers == {w1, w2}
MCOneGateway == {g1}
MCGateways == {g1, g2}
Symmetry == Permutations(MCWorkers) \cup Permutations(MCGateways)
SymmetricWorkers == Permutations(MCWorkers)   \* for instances of one gateway

MCAnswers == {"cid", "error"}
MCNoCID == {"undef", "error"}
MCNoError == {"cid"}
MCOneCID == {0}
=============================================================================
