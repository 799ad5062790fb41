---------------------------- MODULE MCController ----------------------------
(* One receiver; a session of its own for every request.                   *)
EXTENDS Controller

CONSTANTS mac, s1, s2, s3, s4

MCPeers == {mac}
MCSessions == {s1, s2, s3, s4}
MCNonce == <<s1, s2, s3, s4>>
=============================================================================
