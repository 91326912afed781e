------------------------------ MODULE MCIPCClient ------------------------------
(* Three requests, two of which share an id, and two socket objects: the     *)
(* second is there to find out whether the client could ever hold two at a   *)
(* time.                                                                     *)
EXTENDS IPCClient

CONSTANTS r1, r2, r3

MCRequests == {r1, r2, r3}
MCIds == {"hs", "hb", "1", "2"}
MCIdOf == [c \in Calls |-> CASE c = Handshake -> "hs" [] c = Ping -> "hb"
                             [] c = r1 -> "1" [] OTHER -> "2"]
MCSockets == {"s1", "s2"}
=============================================================================
