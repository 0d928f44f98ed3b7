---------------------------- MODULE MCWsaServer ----------------------------
(* Two slots; connections are made one after the other, so a slot is       *)
(* reused while threads of its previous client may still be running.       *)
EXTENDS WsaServer
=============================================================================
