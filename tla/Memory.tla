-------------------------------- MODULE Memory --------------------------------
(* Tiers 2 and 3 of the memory: rows in SQLite (memory/structured) and       *)
(* vectors beside them (memory/semantic), written one after the other by     *)
(* MemoryManager.store, and read together by MemoryRetriever.  Nothing in a  *)
(* write suspends, but the process may die between two transactions.         *)
EXTENDS Schema

CONSTANTS
  MaxRecords,   \* bound on the ids generated
  Projects,
  Keys,      \* keys of preferences, each in its scope
  Values,    \* their values
  TopK,
  NoProject, NoKey, NoValue

ASSUME MemoryAssumption ==
  /\ MaxRecords \in Nat /\ TopK \in Nat \ {0}
  /\ NoProject \notin Projects /\ NoKey \notin Keys /\ NoValue \notin Values

VARIABLES
  rows,     \* the table memories: id -> record, for the ids in it
  vectors,  \* the ids in the vector table
  prefs,    \* the table preferences: key -> the value and the memory's id
  used,     \* how many ids were generated
  op        \* the write under way: the next statement and its subject

memoryVars == <<rows, vectors, prefs, used, op, schemaVars>>

Row == [project : Projects \cup {NoProject}, global : BOOLEAN,
        deadline : {"never", "ahead", "past"},
        status : {"pending", "embedded", "failed"}, value : Values \cup {NoValue}]

Ids == 1 .. MaxRecords
Idle == [next |-> "none", id |-> 0, key |-> NoKey, value |-> NoValue]
Unset == [id |-> 0, value |-> NoValue]

MemoryTypeOK ==
  /\ SchemaTypeOK
  /\ used \in 0 .. MaxRecords
  /\ DOMAIN rows \subseteq 1 .. used /\ \A id \in DOMAIN rows : rows[id] \in Row
  /\ vectors \subseteq 1 .. used
  /\ prefs \in [Keys -> {Unset} \cup [id : Ids, value : Values]]
  /\ op \in [next : {"none", "index", "mark", "fail", "link"}, id : Ids \cup {0},
             key : Keys \cup {NoKey}, value : Values \cup {NoValue}]

MemoryInit ==
  /\ SchemaInit
  /\ rows = [id \in {} |-> Unset] /\ vectors = {} /\ used = 0 /\ op = Idle
  /\ prefs = [k \in Keys |-> Unset]

(* Every operation asks for the connection first; nothing in one suspends.   *)
DatabaseReady == op = Idle /\ conn = "open"

Put(id, row) == rows' = [i \in DOMAIN rows \cup {id} |-> IF i = id THEN row ELSE rows[i]]
Drop(ids) == [i \in DOMAIN rows \ ids |-> rows[i]]
Then(next, id, key, value) == op' = [next |-> next, id |-> id, key |-> key, value |-> value]

-----------------------------------------------------------------------------
(* RetentionPolicy.compute_expiry: whether a memory has a deadline.          *)
Transient == {"task", "conversation", "event", "episodic", "summary"}
Durable == {"fact", "preference", "project", "artifact", "semantic"}

Expiry(scope, type, custom) ==
  IF custom \/ scope = "session" \/ type \in Transient THEN "ahead" ELSE "never"

(* MemoryManager.store up to the insert: what is empty, or asks to be        *)
(* obeyed, was rejected before, and a failing insert leaves nothing.         *)
Store ==
  /\ DatabaseReady /\ used < MaxRecords /\ used' = used + 1
  /\ \/ UNCHANGED <<rows, op>>
     \/ \E project \in Projects \cup {NoProject},
           scope \in {"session", "conversation", "user", "project", "global"},
           type \in Transient \cup Durable, custom \in BOOLEAN :
          /\ Put(used + 1, [project |-> project, global |-> scope = "global",
                            deadline |-> Expiry(scope, type, custom),
                            status |-> "pending", value |-> NoValue])
          /\ Then("index", used + 1, NoKey, NoValue)
  /\ UNCHANGED <<vectors, prefs>>

(* The row is marked before the vector is there.                             *)
Mutant_IndexRecord ==
  /\ op.next = "index"
  /\ \/ rows' = [rows EXCEPT ![op.id].status = "embedded"]
     \/ UNCHANGED rows
  /\ Then("fail", op.id, NoKey, NoValue)
  /\ UNCHANGED <<vectors, prefs, used>>

(* The embedding and the insert of its vector, either of which may fail.     *)
IndexRecord ==
  /\ op.next = "index"
  /\ \/ vectors' = vectors \cup {op.id} /\ Then("mark", op.id, NoKey, NoValue)
     \/ Then("fail", op.id, NoKey, NoValue) /\ UNCHANGED vectors
  /\ UNCHANGED <<rows, prefs, used>>

(* repository.update, first with EMBEDDED, then, from the except clause,     *)
(* with FAILED; when that raises too, the row stays as it is.                *)
MarkRecord ==
  /\ \/ /\ op.next = "mark"
        /\ \/ rows' = [rows EXCEPT ![op.id].status = "embedded"] /\ op' = Idle
           \/ Then("fail", op.id, NoKey, NoValue) /\ UNCHANGED rows
     \/ /\ op.next = "fail" /\ op' = Idle
        /\ \/ rows' = [rows EXCEPT ![op.id].status = "failed"]
           \/ UNCHANGED rows
  /\ UNCHANGED <<vectors, prefs, used>>

(* upsert_preference: a known key has its value and its memory updated in    *)
(* one transaction; for a new one the memory is inserted before the link.    *)
UpsertPreference(key, value) ==
  /\ DatabaseReady
  /\ \/ /\ prefs[key] # Unset
        /\ prefs' = [prefs EXCEPT ![key].value = value]
        /\ rows' = [rows EXCEPT ![prefs[key].id].value = value]
        /\ UNCHANGED <<used, op>>
     \/ /\ prefs[key] = Unset /\ used < MaxRecords /\ used' = used + 1
        /\ Put(used + 1, [project |-> NoProject, global |-> FALSE, deadline |-> "never",
                          status |-> "pending", value |-> value])
        /\ Then("link", used + 1, key, value)
        /\ UNCHANGED prefs
  /\ UNCHANGED vectors

LinkPreference ==
  /\ op.next = "link" /\ op' = Idle
  /\ \/ prefs' = [prefs EXCEPT ![op.key] = [id |-> op.id, value |-> op.value]]
     \/ UNCHANGED prefs
  /\ UNCHANGED <<rows, vectors, used>>

(* The foreign key is not enforced.                                          *)
Mutant_Deleted(ids) == rows' = Drop(ids) /\ UNCHANGED <<prefs, vectors, used, op>>

(* What refers to a deleted memory goes with it; its vector does not.        *)
Deleted(ids) ==
  /\ rows' = Drop(ids)
  /\ prefs' = [k \in Keys |-> IF prefs[k] # Unset /\ prefs[k].id \in ids THEN Unset ELSE prefs[k]]
  /\ UNCHANGED <<vectors, used, op>>

DeleteRecord(id) == DatabaseReady /\ id \in DOMAIN rows /\ Deleted({id})

Expired == {id \in DOMAIN rows : rows[id].deadline = "past"}

PruneExpired == DatabaseReady /\ Deleted(Expired)

DeadlinePasses(id) ==
  /\ id \in DOMAIN rows /\ rows[id].deadline = "ahead"
  /\ rows' = [rows EXCEPT ![id].deadline = "past"]
  /\ UNCHANGED <<vectors, prefs, used, op>>

(* The write is given up by an exception it re-raises, or the process dies.  *)
CrashMemory ==
  /\ \/ op # Idle /\ UNCHANGED schemaVars
     \/ ConnectionLost
  /\ op' = Idle
  /\ UNCHANGED <<rows, vectors, prefs, used>>

-----------------------------------------------------------------------------
(* MemoryRetriever.retrieve.  A query asks for a project, or for any, and    *)
(* may include what has expired.                                             *)
Query == [project : Projects \cup {NoProject}, expired : BOOLEAN]

Foreign(q, id) == q.project # NoProject /\ rows[id].project \notin {NoProject, q.project}

(* What repository.search may return: the rows that pass the WHERE clause,   *)
(* as many as asked for; words and weights select and order them.            *)
Searched(q) ==
  LET matching == {id \in DOMAIN rows :
        /\ q.expired \/ rows[id].deadline # "past"
        /\ q.project # NoProject => rows[id].project = q.project \/ rows[id].global}
  IN  {S \in SUBSET matching : Cardinality(S) <= TopK}

(* search_knn ranks all the vectors there are, those of deleted rows too,    *)
(* passes over the dissimilar, and finds nothing when it fails.              *)
Nearest == {K \in SUBSET vectors : Cardinality(K) <= TopK}

(* A neighbour is looked up by its id; one with a deadline counts as expired. *)
Neighbours(q, K) ==
  {id \in K \cap DOMAIN rows :
     (q.expired \/ rows[id].deadline = "never") /\ ~Foreign(q, id)}

(* The boundary is left to the two searches.                                 *)
Mutant_Recalled(q) ==
  {R \in UNION {SUBSET (S \cup Neighbours(q, K)) : S \in Searched(q), K \in Nearest} :
     Cardinality(R) <= TopK}

Recalled(q) ==
  {R \in UNION {SUBSET {id \in S \cup Neighbours(q, K) : ~Foreign(q, id)} :
                 S \in Searched(q), K \in Nearest} : Cardinality(R) <= TopK}

MemoryNext ==
  \/ /\ \/ \E id \in Ids : DeleteRecord(id) \/ DeadlinePasses(id)
        \/ \E key \in Keys, value \in Values : UpsertPreference(key, value)
        \/ Store \/ IndexRecord \/ MarkRecord \/ LinkPreference \/ PruneExpired
     /\ UNCHANGED schemaVars
  \/ CrashMemory
  \/ SchemaNext /\ UNCHANGED <<rows, vectors, prefs, used, op>>

MemorySpec == MemoryInit /\ [][MemoryNext]_memoryVars

-----------------------------------------------------------------------------
(* Wherever a write is broken off, by an error or by the end of the process, *)
(* what the two stores and the table of preferences say agrees: a row marked *)
(* as embedded has its vector, and a preference has a memory that holds its  *)
(* value; and a database that is in use is complete.                         *)
StoresAgree ==
  /\ SchemaIsBuilt
  /\ \A id \in DOMAIN rows : rows[id].status = "embedded" => id \in vectors
  /\ \A k \in Keys : prefs[k] # Unset =>
       prefs[k].id \in DOMAIN rows /\ rows[prefs[k].id].value = prefs[k].value

(* README.md, line 245: whatever combination of keyword and vector matches   *)
(* is returned, vectors of deleted rows included, no memory is of another    *)
(* project, and none has expired unless that was asked for.                  *)
RecallIsAllowed ==
  \A q \in Query : \A id \in UNION Recalled(q) :
    id \in DOMAIN rows /\ ~Foreign(q, id) /\ (q.expired \/ rows[id].deadline # "past")
=============================================================================
