-------------------------------- MODULE Schema --------------------------------
(* How the memory's database is opened (memory/structured/database.py):      *)
(* every caller asks DatabaseManager for the connection, the first one is    *)
(* made and brought up to date by the migrations (migrations.py).  A script  *)
(* is committed statement by statement, its version in a transaction of its  *)
(* own, so that the process may die, or a statement fail, in between.        *)
EXTENDS Naturals, FiniteSets

VARIABLES
  built,    \* how much of each migration's tables and indexes there is
  applied,  \* the table schema_migrations: the versions on record
  conn      \* _conn: "closed", "open", or what the migration under way does next

schemaVars == <<built, applied, conn>>

(* The tables, and the indexes on them.                                      *)
Migrations == {1, 2}

SchemaTypeOK ==
  /\ built \in [Migrations -> {"none", "some", "all"}]
  /\ applied \subseteq Migrations
  /\ conn \in {"closed", "script", "record", "open"}

SchemaInit ==
  /\ built = [v \in Migrations |-> "none"] /\ applied = {} /\ conn = "closed"

Unapplied == Migrations \ applied

Due(v) == v \in Unapplied /\ \A u \in Unapplied : v <= u

(* DatabaseManager.connect, up to the first script.                          *)
OpenDatabase ==
  /\ conn = "closed"
  /\ conn' = IF Unapplied = {} THEN "open" ELSE "script"
  /\ UNCHANGED <<built, applied>>

(* A script that broke off is recorded as well.                              *)
Mutant_RunScript(v) ==
  /\ conn = "script" /\ Due(v) /\ conn' = "record"
  /\ \E s \in {"some", "all"} :
       built' = [built EXCEPT ![v] = IF built[v] = "all" THEN "all" ELSE s]
  /\ UNCHANGED applied

(* Every statement says IF NOT EXISTS: what an earlier run left is kept.     *)
RunScript(v) ==
  /\ conn = "script" /\ Due(v)
  /\ \/ built' = [built EXCEPT ![v] = "all"] /\ conn' = "record"
     \/ built[v] = "none" /\ built' = [built EXCEPT ![v] = "some"] /\ conn' = "closed"
  /\ UNCHANGED applied

RecordVersion(v) ==
  /\ conn = "record" /\ Due(v)
  /\ applied' = applied \cup {v}
  /\ conn' = IF Unapplied = {v} THEN "open" ELSE "script"
  /\ UNCHANGED built

(* The process dies, or a statement that would change nothing fails: the     *)
(* next caller starts again.                                                 *)
ConnectionLost == conn # "closed" /\ conn' = "closed" /\ UNCHANGED <<built, applied>>

SchemaNext ==
  \/ OpenDatabase
  \/ \E v \in Migrations : RunScript(v) \/ RecordVersion(v)

-----------------------------------------------------------------------------
(* A version on record, and a connection handed out, mean that everything    *)
(* the scripts create is there, however often they were broken off; and no   *)
(* script runs before those it builds on are complete.                       *)
SchemaIsBuilt ==
  /\ \A v \in applied : built[v] = "all"
  /\ conn = "open" => \A v \in Migrations : built[v] = "all"
  /\ \A u, v \in Migrations : u < v /\ built[v] # "none" => built[u] = "all"
=============================================================================
