---------------------------- MODULE MCBridgeServer ----------------------------
(* Instances of BridgeServer for TLC.                                       *)
EXTENDS BridgeServer

CONSTANTS c1, c2
AllKinds == {"query", "begin", "refused", "unknown", "malformed", "raw"}
FewKinds == {"query", "begin", "raw"}
SessionKinds == {"begin", "raw"}
=============================================================================
