------------------------------ MODULE MCIPCServer ------------------------------
(* Two clients with a request each against a limit of one, and one event.    *)
(* One client may go and may stop reading at any moment; the other stays,    *)
(* reads, and shows what the first one costs it.                             *)
EXTENDS IPCServer

CONSTANTS c1, c2, r1, r2, e1

MCConns == {c1, c2}
MCRequests == {r1, r2}
MCEvents == {e1}
MCHome == [r \in MCRequests |-> IF r = r1 THEN c1 ELSE c2]
MCSends == [c \in MCConns |-> IF c = c1 THEN Other ELSE {"handshake"}]
MCFickle == {c1}
=============================================================================
