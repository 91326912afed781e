----------------------------- MODULE RequestReply -----------------------------
(* What the gateway's callers may expect of a request to the Python core:    *)
(* the promise is settled exactly once, with the core's reply to this very   *)
(* request if that arrives while the caller waits, else with an error that   *)
(* says nothing about whether the core has done the work.                    *)

CONSTANTS Requests

VARIABLES
  stage,     \* how far each request is
  replied    \* the requests whose reply has reached the gateway

vars == <<stage, replied>>

Error == {"timeout", "closed", "writeError"}
Stage == {"new", "waiting", "refused", "answered"} \cup Error

Init ==
  /\ stage = [r \in Requests |-> "new"]
  /\ replied = {}

Ask(r) ==
  /\ stage[r] = "new"
  /\ stage' = [stage EXCEPT ![r] = "waiting"]
  /\ UNCHANGED replied

Refuse(r) ==
  /\ stage[r] = "new"
  /\ stage' = [stage EXCEPT ![r] = "refused"]
  /\ UNCHANGED replied

(* A reply that comes too late is dropped.                                   *)
Reply(r) ==
  /\ stage[r] # "new" /\ r \notin replied
  /\ replied' = replied \cup {r}
  /\ stage' = [stage EXCEPT ![r] = IF @ = "waiting" THEN "answered" ELSE @]

(* A closing connection gives up on several requests at once.                *)
GiveUp ==
  /\ stage' \in [Requests -> Stage]
  /\ \A r \in Requests :
       stage'[r] = stage[r] \/ (stage[r] = "waiting" /\ stage'[r] \in Error)
  /\ UNCHANGED replied

Next == GiveUp \/ \E r \in Requests : Ask(r) \/ Refuse(r) \/ Reply(r)

Steps == Init /\ [][Next]_vars

(* No caller waits for ever.                                                 *)
Settles == \A r \in Requests : (stage[r] = "waiting") ~> (stage[r] # "waiting")

Spec == Steps /\ Settles
=============================================================================
