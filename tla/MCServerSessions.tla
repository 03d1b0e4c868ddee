-------------------------- MODULE MCServerSessions --------------------------
(* ServerSessions with two connections, which carry the same session id,   *)
(* and the readers of the .cfg.  Connections are alike, and so are readers *)
(* (symmetry is used for the safety run only).                             *)
EXTENDS ServerSessions, TLC

CONSTANTS c1, c2, s1

MCConn     == {c1, c2}
MCSession  == {s1, NoSid}
MCSameSid  == c1 :> s1 @@ c2 :> s1
MCSymmetry == Permutations(MCConn) \cup Permutations(Reader)
=============================================================================
