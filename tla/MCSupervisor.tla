------------------------------ MODULE MCSupervisor -----------------------------
(* The startup call and one restart after the other, with two processes: an  *)
(* old child and its successor.                                              *)
EXTENDS Supervisor

CONSTANTS c1, c2, r1, r2

MCChildren == {c1, c2}
MCRestart == {r1}
MCRestarts == {r1, r2}
MCPlatforms == {"win32", "posix"}
MCWindows == {"win32"}
=============================================================================
