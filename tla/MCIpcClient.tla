----------------------------- MODULE MCIpcClient -----------------------------
(* A node of each kind in one process, on relays that share the client.    *)
EXTENDS IpcClient

MCProgram == <<"numGen", "add">>
=============================================================================
