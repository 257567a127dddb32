--------------------------- MODULE MCWebsitesProbe ---------------------------
(* Instances of WebsitesProbe for TLC.                                      *)
EXTENDS WebsitesProbe, TLC

CONSTANTS site1, site2, p1

MCWebsites == {site1, site2}
MCPeers == {p1}
\* One list of each shape: what two websites are called makes no difference.
MCSiteLists == {<<>>, <<site1>>, <<site1, site1>>, <<site1, site2>>}
=============================================================================
