------------------------------ MODULE HandProofs ------------------------------
(* The executor's records, for any number of jobs, tools and attempts, and   *)
(* the grounding of vision, for any elements and confidences.                *)
EXTENDS Tools, Vision, TLAPS

(* An execution that has ended, other than by cancellation of the job.       *)
Done(x, async, on) ==
  /\ \E story \in Story : Tells(x, story, on)
  /\ x.calls > 0 => x.ruling = "allowed"
  /\ x.live => ~async /\ x.status = "timeout"

(* And one that its job's cancellation ended.                                *)
Dropped(x, async) == x.event = "none" /\ x.status = "none" /\ (x.live => ~async)

Async(e) == Uses[e[1]][e[3]].async

(* Executions still to come: of later attempts, or of later tools of this.   *)
Later(e, n, i) == e[2] > n \/ (e[2] = n /\ e[3] >= i)

Succeeded(x) == x.status = "success" /\ ~x.live

ExecutionsAreSound ==
  \A e \in Executions :
    /\ exec[e].phase = "none" => exec[e] = Unused
    /\ exec[e].phase = "awaited" =>
         /\ job[e[1]] = "executing" /\ e = Current(e[1])
         /\ exec[e].event = "none" /\ exec[e].status = "none"
    /\ exec[e].phase = "over" =>
         \/ Done(exec[e], Async(e), bus)
         \/ job[e[1]] = "cancelled" /\ Dropped(exec[e], Async(e))
    /\ e[2] > attempt[e[1]] => exec[e] = Unused
    /\ job[e[1]] = "executing" /\ Later(e, attempt[e[1]], tool[e[1]] + 1) => exec[e] = Unused

JobsAreSound ==
  /\ \A j \in Jobs : job[j] # "new" => attempt[j] \in 1 .. Attempts
  /\ \A j \in Jobs : job[j] = "executing" =>
       /\ tool[j] \in DOMAIN Uses[j]
       /\ exec[Current(j)].phase = "awaited"
  /\ \A j \in Agents, i \in Nat \ {0} :
       job[j] = "executing" /\ i < tool[j] /\ i \in DOMAIN Uses[j] /\ Uses[j][i].listed
         => Succeeded(exec[<<j, attempt[j], i>>])

ToolsIInv == ToolsTypeOK /\ ExecutionsAreSound /\ JobsAreSound /\ CompletedMeansToolsRan

-----------------------------------------------------------------------------
(* Where an execution is from: a job, an attempt, a tool of the job.         *)
LEMMA ExecutionParts ==
  /\ \A j \in Jobs, n \in 1 .. Attempts : \A k \in DOMAIN Uses[j] : <<j, n, k>> \in Executions
  /\ \A e \in Executions :
       /\ e = <<e[1], e[2], e[3]>>
       /\ e[1] \in Jobs /\ e[2] \in 1 .. Attempts /\ e[3] \in DOMAIN Uses[e[1]]
  /\ \A j \in Jobs : DOMAIN Uses[j] \subseteq Nat \ {0}
  /\ Attempts \in Nat /\ 1 .. Attempts \subseteq Nat /\ Agents \subseteq Jobs
<1>1. \A j \in Jobs : DOMAIN Uses[j] \subseteq Nat \ {0}
  BY ToolsAssumption
<1> QED BY <1>1, ToolsAssumption DEF Executions

(* The rulings of policy.py, and no others.                                  *)
LEMMA RulingTyped ==
  ASSUME NEW u
  PROVE  Ruling(u) \in {"tool_not_found", "denied", "validation_failed", "allowed"}
BY DEF Ruling

(* What a record changes of an execution.                                    *)
LEMMA RecordedIs ==
  ASSUME NEW x \in Exec, NEW event \in {"none", "denied", "failed", "timeout", "completed"},
         NEW status \in {"none", "denied", "failed", "timeout", "success"}
  PROVE  LET r == Recorded(x, event, status) IN
           /\ r \in Exec /\ r.phase = "over" /\ r.status = status
           /\ r.event = event \/ (r.event = "none" /\ ~bus)
           /\ r.calls = x.calls /\ r.live = x.live /\ r.ruling = x.ruling
<1> DEFINE v == IF bus THEN event ELSE "none"
<1>1. /\ v \in {"none", "denied", "failed", "timeout", "completed"}
      /\ v = event \/ (v = "none" /\ ~bus)
  OBVIOUS
<1>2. Recorded(x, event, status) = [x EXCEPT !.phase = "over", !.event = v, !.status = status]
  BY DEF Recorded
<1> HIDE DEF v
<1> QED BY <1>1, <1>2, ZenonT(30) DEF Exec

(* What a ruling changes of it.                                              *)
LEMMA RuledIs ==
  ASSUME NEW x \in Exec,
         NEW ruling \in {"none", "tool_not_found", "denied", "validation_failed", "allowed"}
  PROVE  LET r == [x EXCEPT !.ruling = ruling] IN
           r \in Exec /\ r.ruling = ruling /\ (r.live <=> x.live) /\ r.calls = x.calls
BY DEF Exec

(* What being allowed changes of it.                                         *)
LEMMA AllowedIs ==
  ASSUME NEW x \in Exec, NEW l \in BOOLEAN
  PROVE  LET r == [x EXCEPT !.ruling = "allowed", !.live = l] IN
           r \in Exec /\ r.ruling = "allowed" /\ r.live = l /\ r.calls = x.calls
BY DEF Exec

(* An execution that has not begun.                                          *)
LEMMA UnusedTyped == Unused \in Exec /\ Unused.calls = 0 /\ ~Unused.live /\ Unused.phase = "none"
BY DEF Unused, Exec

(* What tells a story, of a handler that is done, is done.                    *)
LEMMA StoryIsTold ==
  ASSUME NEW r, NEW a, NEW event, NEW ruling, NEW status, <<event, ruling, status>> \in Story,
         r.event = event \/ (r.event = "none" /\ ~bus), r.ruling = ruling, r.status = status,
         r.calls > 0 => ruling = "allowed", r.live => ~a /\ status = "timeout"
  PROVE  Done(r, a, bus)
BY DEF Done, Tells

(* A refused one is over, with the one story a refusal may tell.             *)
LEMMA RefusedIsDone ==
  ASSUME NEW u, Ruling(u) # "allowed", NEW a
  PROVE  Refused(u) \in Exec /\ Done(Refused(u), a, bus) /\ Refused(u).phase = "over"
<1> DEFINE d == IF Ruling(u) = "denied" THEN "denied" ELSE "failed"
           y == [Unused EXCEPT !.ruling = Ruling(u)]
<1>1. Refused(u) = Recorded(y, d, d)
  BY DEF Refused
<1>2. \/ Ruling(u) = "denied" /\ d = "denied"
      \/ Ruling(u) \in {"tool_not_found", "validation_failed"} /\ d = "failed"
  BY RulingTyped
<1>3. <<d, Ruling(u), d>> \in Story
  BY <1>2 DEF Story
<1>4. y \in Exec /\ y.ruling = Ruling(u) /\ ~y.live /\ y.calls = 0
  <2>1. Ruling(u) \in {"tool_not_found", "denied", "validation_failed"}
    BY RulingTyped
  <2>2. y \in Exec /\ y.ruling = Ruling(u)
    <3>1. Ruling(u) \in {"none", "tool_not_found", "denied", "validation_failed", "allowed"}
      BY <2>1
    <3>2. y.ruling = Ruling(u)
      BY UnusedTyped DEF Exec
    <3>3. y \in Exec
      BY <3>1, UnusedTyped DEF Exec
    <3> QED BY <3>2, <3>3
  <2>3. y.calls = 0
    BY <2>1, UnusedTyped, RuledIs
  <2>4. ~y.live
    BY <2>1, UnusedTyped, RuledIs
  <2> QED BY <2>2, <2>3, <2>4
<1> HIDE DEF d, y
<1>5. LET r == Recorded(y, d, d) IN
        r \in Exec /\ Done(r, a, bus) /\ r.phase = "over"
  BY <1>2, <1>3, <1>4, RecordedIs, StoryIsTold
<1> QED BY <1>1, <1>5

(* A handler that was called is awaited.                                     *)
LEMMA InvokedTyped ==
  ASSUME NEW n \in 0 .. 2, NEW b \in BOOLEAN
  PROVE  /\ Invoked(n, b) \in Exec /\ Invoked(n, b).phase = "awaited"
         /\ Invoked(n, b).calls = n /\ (Invoked(n, b).live <=> b)
         /\ Invoked(n, b).event = "none" /\ Invoked(n, b).status = "none"
BY DEF Invoked, Unused, Exec

(* A plain function that raised when it was called to see what it returns.   *)
LEMMA RaisedIsDone ==
  ASSUME NEW a
  PROVE  LET r == Recorded([Invoked(1, FALSE) EXCEPT !.ruling = "allowed"], "failed", "failed")
         IN  r \in Exec /\ Done(r, a, bus) /\ r.phase = "over"
<1> DEFINE y == [Invoked(1, FALSE) EXCEPT !.ruling = "allowed"]
<1>1. y \in Exec /\ y.ruling = "allowed" /\ ~y.live /\ y.calls = 1
  <2>1. Invoked(1, FALSE) \in Exec /\ ~Invoked(1, FALSE).live /\ Invoked(1, FALSE).calls = 1
    <3>1. 1 \in 0 .. 2 /\ FALSE \in BOOLEAN
      OBVIOUS
    <3> QED BY <3>1, InvokedTyped, Zenon
  <2>2. y \in Exec /\ y.ruling = "allowed"
    BY <2>1, RuledIs
  <2>3. y.calls = 1
    BY <2>1, RuledIs
  <2>4. ~y.live
    BY <2>1, RuledIs
  <2> QED BY <2>2, <2>3, <2>4
<1>2. <<"failed", "allowed", "failed">> \in Story
  BY DEF Story
<1> HIDE DEF y
<1>3. LET r == Recorded(y, "failed", "failed") IN r \in Exec /\ Done(r, a, bus) /\ r.phase = "over"
  BY <1>1, <1>2, RecordedIs, StoryIsTold
<1> QED BY <1>3 DEF y

(* The executions x of job j are over, the i-th of its n-th attempt and all  *)
(* that follow are to come, and the agent's before it succeeded.             *)
Ready(j, n, i, x) ==
  /\ \A e \in Executions :
       IF e[1] # j THEN x[e] = exec[e]
       ELSE /\ x[e].phase # "awaited" /\ (x[e].phase = "none" => x[e] = Unused)
            /\ x[e].phase = "over" => Done(x[e], Async(e), bus)
            /\ Later(e, n, i) => x[e] = Unused
  /\ \A k \in DOMAIN Uses[j] :
       j \in Agents /\ k < i /\ Uses[j][k].listed => Succeeded(x[<<j, n, k>>])

(* Such a job goes on.                                                       *)
LEMMA ProceedKeeps ==
  ASSUME ToolsIInv, NEW j \in Jobs, NEW n \in 1 .. Attempts, NEW i \in Nat \ {0},
         NEW x \in [Executions -> Exec],
         Proceed(j, n, i, x), UNCHANGED bus, attempt' = [attempt EXCEPT ![j] = n],
         Ready(j, n, i, x)
  PROVE  ToolsIInv'
<1> USE DEF Ready
<1>1. CASE /\ Ahead(j, i) = {}
           /\ job' = [job EXCEPT ![j] = "completed"] /\ exec' = x /\ UNCHANGED tool
  <2>1. ToolsTypeOK'
    BY <1>1, ExecutionParts DEF ToolsIInv, ToolsTypeOK
  <2>2. ExecutionsAreSound'
    BY <1>1, <2>1, ExecutionParts
    DEF ToolsIInv, ToolsTypeOK, ExecutionsAreSound, Current, Later, Async
  <2>3. ASSUME NEW h \in Jobs \ {j}, job[h] # "new", NEW m \in DOMAIN Uses[h]
        PROVE  <<h, attempt[h], m>> \in Executions /\ x[<<h, attempt[h], m>>] = exec[<<h, attempt[h], m>>]
    BY <2>3, ExecutionParts DEF ToolsIInv, JobsAreSound
  <2>4. JobsAreSound'
    BY <1>1, <2>3, ExecutionParts DEF ToolsIInv, ToolsTypeOK, JobsAreSound, Current
  <2>5. ASSUME NEW h \in Agents, job'[h] = "completed", NEW m \in DOMAIN Uses[h], Uses[h][m].listed
        PROVE  Succeeded(exec'[<<h, attempt'[h], m>>])
    <3>1. CASE h = j
      <4>1. m < i
        BY <1>1, <2>5, <3>1, ExecutionParts DEF Ahead
      <4> QED BY <1>1, <2>5, <3>1, <4>1, ExecutionParts DEF ToolsIInv, ToolsTypeOK
    <3>2. CASE h # j
      <4>1. job[h] = "completed" /\ attempt'[h] = attempt[h]
        BY <1>1, <2>5, <3>2, ExecutionParts DEF ToolsIInv, ToolsTypeOK
      <4>2. Succeeded(exec[<<h, attempt[h], m>>])
        BY <2>5, <4>1 DEF ToolsIInv, CompletedMeansToolsRan, Succeeded
      <4> QED BY <1>1, <2>3, <2>5, <3>2, <4>1, <4>2, ExecutionParts
    <3> QED BY <3>1, <3>2
  <2>6. CompletedMeansToolsRan'
    BY <2>5 DEF CompletedMeansToolsRan, Succeeded
  <2> QED BY <2>1, <2>2, <2>4, <2>6 DEF ToolsIInv
<1>2. ASSUME NEW k \in Ahead(j, i), \A m \in Ahead(j, i) : k <= m,
             tool' = [tool EXCEPT ![j] = k],
             NEW r \in Exec, exec' = [x EXCEPT ![<<j, n, k>>] = r],
             \/ job' = [job EXCEPT ![j] = "failed"] /\ r.phase = "over" /\ Done(r, Uses[j][k].async, bus)
             \/ /\ job' = [job EXCEPT ![j] = "executing"]
                /\ r.phase = "awaited" /\ r.event = "none" /\ r.status = "none"
      PROVE  ToolsIInv'
  <2> DEFINE c == <<j, n, k>>
  <2>1. k \in DOMAIN Uses[j] /\ k \in Nat \ {0} /\ k >= i /\ c \in Executions
    BY <1>2, ExecutionParts DEF Ahead
  <2>2. c[1] = j /\ c[2] = n /\ c[3] = k /\ \A e \in Executions : e[1] = j /\ e[2] = n /\ e[3] = k => e = c
    BY ExecutionParts
  <2> HIDE DEF c
  <2>3. exec'[c] = r /\ \A e \in Executions \ {c} : exec'[e] = x[e]
    BY <1>2, <2>1 DEF c
  <2>4. ToolsTypeOK'
    <3>1. exec' \in [Executions -> Exec]
      BY <1>2
    <3>2. attempt' \in [Jobs -> 0 .. Attempts] /\ tool' \in [Jobs -> Nat]
      BY <1>2, <2>1, ExecutionParts DEF ToolsIInv, ToolsTypeOK
    <3>3. job' \in [Jobs -> {"new", "executing", "completed", "failed", "cancelled"}]
      BY <1>2 DEF ToolsIInv, ToolsTypeOK
    <3>4. bus' \in BOOLEAN
      BY DEF ToolsIInv, ToolsTypeOK
    <3> QED BY <3>1, <3>2, <3>3, <3>4 DEF ToolsTypeOK
  <2>5. ExecutionsAreSound'
    <3> SUFFICES ASSUME NEW e \in Executions PROVE ExecutionsAreSound!(e)'
      BY DEF ExecutionsAreSound
    <3>1. CASE e[1] # j
      BY <1>2, <2>2, <2>3, <3>1, ExecutionParts
      DEF ToolsIInv, ToolsTypeOK, ExecutionsAreSound, Current, Later, Async
    <3>2. CASE e = c
      BY <1>2, <2>1, <2>2, <2>3, <3>2, ExecutionParts
      DEF ToolsIInv, ToolsTypeOK, Current, Later, Async, c
    <3>3. CASE e[1] = j /\ e # c
      BY <1>2, <2>1, <2>2, <2>3, <3>3, ExecutionParts
      DEF ToolsIInv, ToolsTypeOK, Later, Async
    <3> QED BY <3>1, <3>2, <3>3
  <2>6. JobsAreSound'
    <3>1. ASSUME NEW h \in Jobs, job'[h] = "executing"
          PROVE  /\ tool'[h] \in DOMAIN Uses[h]
                 /\ exec'[Current(h)'].phase = "awaited"
      <4>1. CASE h = j
        BY <1>2, <2>1, <2>3, <3>1, <4>1 DEF ToolsIInv, ToolsTypeOK, Current, c
      <4>2. CASE h # j
        BY <1>2, <2>2, <2>3, <3>1, <4>2, ExecutionParts
        DEF ToolsIInv, ToolsTypeOK, JobsAreSound, Current
      <4> QED BY <4>1, <4>2
    <3>2. ASSUME NEW h \in Agents, NEW m \in DOMAIN Uses[h], job'[h] = "executing",
                 m < tool'[h], Uses[h][m].listed
          PROVE  Succeeded(exec'[<<h, attempt'[h], m>>])
      <4>1. CASE h = j
        <5>1. m < k /\ m \in Nat
          BY <1>2, <2>1, <3>2, <4>1, ExecutionParts DEF ToolsIInv, ToolsTypeOK
        <5>2. m \notin Ahead(j, i)
          BY <1>2, <2>1, <5>1
        <5>3. m < i
          BY <3>2, <4>1, <5>1, <5>2 DEF Ahead
        <5> QED BY <1>2, <2>1, <2>2, <2>3, <3>2, <4>1, <5>1, <5>3, ExecutionParts DEF ToolsIInv, ToolsTypeOK, c
      <4>2. CASE h # j
        <5>1. job[h] = "executing" /\ attempt'[h] = attempt[h] /\ m < tool[h] /\ attempt[h] \in 1 .. Attempts
          BY <1>2, <3>2, <4>2, ExecutionParts DEF ToolsIInv, ToolsTypeOK, JobsAreSound
        <5>2. <<h, attempt[h], m>> \in Executions \ {c}
          BY <2>2, <3>2, <4>2, <5>1, ExecutionParts
        <5> QED BY <2>3, <3>2, <4>2, <5>1, <5>2, ExecutionParts DEF ToolsIInv, JobsAreSound
      <4> QED BY <4>1, <4>2
    <3>3. ASSUME NEW h \in Jobs, job'[h] # "new" PROVE attempt'[h] \in 1 .. Attempts
      BY <1>2, <3>3 DEF ToolsIInv, ToolsTypeOK, JobsAreSound
    <3> QED BY <3>1, <3>2, <3>3 DEF JobsAreSound
  <2>7. CompletedMeansToolsRan'
    <3> SUFFICES ASSUME NEW h \in Agents, job'[h] = "completed", NEW m \in DOMAIN Uses[h], Uses[h][m].listed
                 PROVE  Succeeded(exec'[<<h, attempt'[h], m>>])
      BY DEF CompletedMeansToolsRan, Succeeded
    <3>1. h # j /\ job[h] = "completed" /\ attempt'[h] = attempt[h]
      BY <1>2, ExecutionParts DEF ToolsIInv, ToolsTypeOK
    <3>2. Succeeded(exec[<<h, attempt[h], m>>])
      BY <3>1 DEF ToolsIInv, CompletedMeansToolsRan, Succeeded
    <3>3. <<h, attempt[h], m>> \in Executions \ {c}
      BY <2>2, <3>1, ExecutionParts DEF ToolsIInv, JobsAreSound
    <3> QED BY <2>3, <3>1, <3>2, <3>3, ExecutionParts
  <2> QED BY <2>4, <2>5, <2>6, <2>7 DEF ToolsIInv
<1>3. ASSUME NEW k \in Ahead(j, i), \A m \in Ahead(j, i) : k <= m,
             tool' = [tool EXCEPT ![j] = k],
             LET u == Uses[j][k]  e == <<j, n, k>> IN
               \/ /\ Ruling(u) # "allowed"
                  /\ job' = [job EXCEPT ![j] = "failed"]
                  /\ exec' = [x EXCEPT ![e] = Refused(u)]
               \/ /\ Ruling(u) = "allowed" /\ ~u.async
                  /\ job' = [job EXCEPT ![j] = "failed"]
                  /\ exec' = [x EXCEPT ![e] =
                       Recorded([Invoked(1, FALSE) EXCEPT !.ruling = "allowed"], "failed", "failed")]
               \/ /\ Ruling(u) = "allowed"
                  /\ job' = [job EXCEPT ![j] = "executing"]
                  /\ exec' = [x EXCEPT ![e] = Invoked(IF u.async THEN 1 ELSE 2, TRUE)]
      PROVE  ToolsIInv'
  <2> DEFINE u == Uses[j][k]
  <2>1. CASE /\ Ruling(u) # "allowed" /\ job' = [job EXCEPT ![j] = "failed"]
             /\ exec' = [x EXCEPT ![<<j, n, k>>] = Refused(u)]
    BY <1>2, <1>3, <2>1, RefusedIsDone
  <2>2. CASE /\ job' = [job EXCEPT ![j] = "failed"]
             /\ exec' = [x EXCEPT ![<<j, n, k>>] =
                  Recorded([Invoked(1, FALSE) EXCEPT !.ruling = "allowed"], "failed", "failed")]
    BY <1>2, <1>3, <2>2, RaisedIsDone
  <2>3. CASE /\ job' = [job EXCEPT ![j] = "executing"]
             /\ exec' = [x EXCEPT ![<<j, n, k>>] = Invoked(IF u.async THEN 1 ELSE 2, TRUE)]
    <3>1. (IF u.async THEN 1 ELSE 2) \in 0 .. 2
      OBVIOUS
    <3> DEFINE r == Invoked(IF u.async THEN 1 ELSE 2, TRUE)
    <3>2. r \in Exec /\ r.phase = "awaited" /\ r.event = "none" /\ r.status = "none"
      BY <3>1, InvokedTyped, ZenonT(40)
    <3>3. exec' = [x EXCEPT ![<<j, n, k>>] = r]
      BY <2>3
    <3> HIDE DEF r
    <3> QED BY <1>2, <1>3, <2>3, <3>2, <3>3, Zenon
  <2> QED BY <1>3, <2>1, <2>2, <2>3
<1> QED BY <1>1, <1>3 DEF Proceed

(* In executions x, job j's current one has ended and all else is as it was. *)
Closes(j, x, status, live) ==
  LET c == Current(j) IN
    /\ x \in [Executions -> Exec] /\ c \in Executions
    /\ c[1] = j /\ c[2] = attempt[j] /\ c[3] = tool[j]
    /\ x[c].phase = "over" /\ Done(x[c], Async(c), bus)
    /\ x[c].status = status /\ (x[c].live <=> live)
    /\ \A e \in Executions \ {c} : x[e] = exec[e]
    /\ \A e \in Executions : e[1] = j /\ e # c => exec[e].phase # "awaited"

(* A handler's end: what was awaited is over, as told.                       *)
LEMMA EndedIsDone ==
  ASSUME ToolsIInv, NEW j \in Jobs, job[j] = "executing",
         NEW event, NEW status, NEW live,
         live \in BOOLEAN,
         \/ event = "completed" /\ status = "success"
         \/ event \in {"failed", "timeout"} /\ status = event,
         live => IsThread(j) /\ status = "timeout"
  PROVE  Closes(j, Ended(j, event, status, live), status, live)
<1> DEFINE x == Ended(j, event, status, live)  c == Current(j)
<1>1. attempt[j] \in 1 .. Attempts /\ tool[j] \in DOMAIN Uses[j]
  BY DEF ToolsIInv, JobsAreSound
<1>2. c \in Executions /\ c[1] = j /\ c[2] = attempt[j] /\ c[3] = tool[j]
  BY <1>1, ExecutionParts DEF Current
<1>3. exec[c] \in Exec /\ exec \in [Executions -> Exec]
  BY <1>2 DEF ToolsIInv, ToolsTypeOK
<1> DEFINE y == [exec[c] EXCEPT !.ruling = "allowed", !.live = live]
<1>4. y \in Exec /\ y.ruling = "allowed" /\ y.live = live /\ y.calls = exec[c].calls
  BY <1>3, AllowedIs
<1>5. x = [exec EXCEPT ![c] = Recorded(y, event, status)]
  BY DEF Ended
<1> HIDE DEF x, c, y
<1>9. LET r == Recorded(y, event, status) IN
        /\ r \in Exec /\ r.phase = "over" /\ r.status = status
        /\ r.event = event \/ (r.event = "none" /\ ~bus)
        /\ r.live = live /\ r.ruling = "allowed"
  BY <1>4, RecordedIs
<1>10. /\ x \in [Executions -> Exec] /\ x[c] = Recorded(y, event, status)
       /\ \A e \in Executions \ {c} : x[e] = exec[e]
  BY <1>2, <1>3, <1>5, <1>9
<1>6. <<event, "allowed", status>> \in Story
  BY DEF Story
<1>7. Done(x[c], Async(c), bus)
  BY <1>2, <1>9, <1>10, <1>6, StoryIsTold DEF Async, IsThread
<1>8. \A e \in Executions : e[1] = j /\ e # c => exec[e].phase # "awaited"
  BY DEF ToolsIInv, ExecutionsAreSound, c
<1> QED BY <1>2, <1>7, <1>8, <1>9, <1>10 DEF x, c, Closes

(* The job is over with its handler, in one of the ways that end both.       *)
LEMMA JobEnds ==
  ASSUME ToolsIInv, NEW j \in Jobs, job[j] = "executing",
         NEW to \in {"failed", "cancelled"}, job' = [job EXCEPT ![j] = to],
         UNCHANGED <<attempt, tool, bus>>, exec' \in [Executions -> Exec],
         \A e \in Executions : e # Current(j) => exec'[e] = exec[e],
         Current(j) \in Executions, exec'[Current(j)].phase = "over",
         \/ Done(exec'[Current(j)], Async(Current(j)), bus)
         \/ to = "cancelled" /\ Dropped(exec'[Current(j)], Async(Current(j)))
  PROVE  ToolsIInv'
<1>1. Current(j)[1] = j /\ Current(j)[2] = attempt[j] /\ Current(j)[3] = tool[j]
  BY DEF Current
<1>2. ToolsTypeOK'
  BY DEF ToolsIInv, ToolsTypeOK
<1>3. ASSUME NEW e \in Executions, e # Current(j) PROVE ExecutionsAreSound!(e)'
  <2>1. CASE e[1] = j
    BY <1>3, <2>1, <1>1, ExecutionParts
    DEF ToolsIInv, ToolsTypeOK, ExecutionsAreSound, Current, Async, Later
  <2>2. CASE e[1] # j
    BY <1>3, <2>2, <1>1, ExecutionParts
    DEF ToolsIInv, ToolsTypeOK, ExecutionsAreSound, Current, Async, Later
  <2> QED BY <2>1, <2>2
<1>4. ASSUME NEW e \in Executions, e = Current(j) PROVE ExecutionsAreSound!(e)'
  BY <1>4, <1>1, ExecutionParts
  DEF ToolsIInv, ToolsTypeOK, JobsAreSound, ExecutionsAreSound, Current, Async, Later
<1>5. ExecutionsAreSound'
  <2> SUFFICES ASSUME NEW e \in Executions PROVE ExecutionsAreSound!(e)'
    BY DEF ExecutionsAreSound
  <2>1. CASE e = Current(j)
    BY <1>4, <2>1
  <2>2. CASE e # Current(j)
    BY <1>3, <2>2
  <2> QED BY <2>1, <2>2
<1>6. ASSUME NEW h \in Jobs, h # j, job[h] # "new", NEW m \in DOMAIN Uses[h]
      PROVE  exec'[<<h, attempt[h], m>>] = exec[<<h, attempt[h], m>>]
  <2>1. <<h, attempt[h], m>> \in Executions /\ <<h, attempt[h], m>> # Current(j)
    BY <1>6, ExecutionParts DEF ToolsIInv, JobsAreSound, Current
  <2> QED BY <2>1
<1>7. JobsAreSound'
  BY <1>6, ExecutionParts DEF ToolsIInv, ToolsTypeOK, JobsAreSound, Current
<1>8. CompletedMeansToolsRan'
  BY <1>6, ExecutionParts DEF ToolsIInv, ToolsTypeOK, CompletedMeansToolsRan
<1> QED BY <1>2, <1>5, <1>7, <1>8 DEF ToolsIInv

(* Each step of the tools keeps the invariant.                               *)
LEMMA ToolsStep ==
  ASSUME ToolsIInv, [ToolsNext]_toolVars
  PROVE  ToolsIInv'
<1>1. CASE UNCHANGED toolVars
  BY <1>1 DEF toolVars, ToolsIInv, ToolsTypeOK, ExecutionsAreSound, JobsAreSound,
              CompletedMeansToolsRan, Current, Async, Later
<1>2. ASSUME NEW j \in Jobs, Begin(j) PROVE ToolsIInv'
  <2>1. attempt[j] + 1 \in 1 .. Attempts /\ attempt[j] \in Nat /\ job[j] \notin {"executing", "cancelled"}
    BY <1>2, ExecutionParts DEF Begin, ToolsIInv, ToolsTypeOK
  <2>2. ASSUME NEW e \in Executions, e[1] = j
        PROVE  /\ exec[e].phase # "awaited" /\ (exec[e].phase = "none" => exec[e] = Unused)
               /\ exec[e].phase = "over" => Done(exec[e], Async(e), bus)
               /\ Later(e, attempt[j] + 1, 1) => exec[e] = Unused
    BY <2>1, <2>2, ExecutionParts DEF ToolsIInv, ExecutionsAreSound, Later
  <2>3. \A k \in DOMAIN Uses[j] : ~(k < 1)
    BY ExecutionParts
  <2>4. exec \in [Executions -> Exec] /\ 1 \in Nat \ {0}
    BY DEF ToolsIInv, ToolsTypeOK
  <2>5. Proceed(j, attempt[j] + 1, 1, exec) /\ UNCHANGED bus /\ attempt' = [attempt EXCEPT ![j] = attempt[j] + 1]
    BY <1>2 DEF Begin
  <2>6. Ready(j, attempt[j] + 1, 1, exec)
    BY <2>2, <2>3 DEF Ready
  <2> QED BY <2>1, <2>4, <2>5, <2>6, ProceedKeeps
<1>3. ASSUME NEW j \in Jobs, HandlerReturns(j) PROVE ToolsIInv'
  <2> DEFINE x == Ended(j, "completed", "success", FALSE)  c == Current(j)
  <2>1. /\ x \in [Executions -> Exec] /\ c \in Executions
        /\ c[1] = j /\ c[2] = attempt[j] /\ c[3] = tool[j]
        /\ x[c].phase = "over" /\ Done(x[c], Async(c), bus)
        /\ x[c].status = "success" /\ ~x[c].live
        /\ \A e \in Executions \ {c} : x[e] = exec[e]
        /\ \A e \in Executions : e[1] = j /\ e # c => exec[e].phase # "awaited"
    <3>1. job[j] = "executing"
      BY <1>3 DEF HandlerReturns
    <3>2. Closes(j, x, "success", FALSE)
      BY <3>1, EndedIsDone, Zenon
    <3> QED BY <3>2 DEF Closes
  <2> HIDE DEF x
  <2>2. /\ attempt[j] \in 1 .. Attempts /\ tool[j] \in Nat \ {0} /\ tool[j] \in DOMAIN Uses[j]
        /\ job[j] = "executing" /\ tool[j] + 1 \in Nat \ {0}
    BY <1>3, ExecutionParts DEF HandlerReturns, ToolsIInv, JobsAreSound
  <2>3. ASSUME NEW e \in Executions, e[1] = j
        PROVE  /\ x[e].phase # "awaited" /\ (x[e].phase = "none" => x[e] = Unused)
               /\ x[e].phase = "over" => Done(x[e], Async(e), bus)
               /\ Later(e, attempt[j], tool[j] + 1) => x[e] = Unused
    <3>1. CASE e = c
      BY <2>1, <2>2, <3>1 DEF Later
    <3>2. CASE e # c
      BY <2>1, <2>2, <2>3, <3>2 DEF ToolsIInv, ExecutionsAreSound
    <3> QED BY <3>1, <3>2
  <2>4. ASSUME NEW e \in Executions, e[1] # j PROVE x[e] = exec[e]
    BY <2>1, <2>4
  <2>5. ASSUME NEW k \in DOMAIN Uses[j], j \in Agents, k < tool[j] + 1, Uses[j][k].listed
        PROVE  Succeeded(x[<<j, attempt[j], k>>])
    <3>1. k \in Nat \ {0} /\ <<j, attempt[j], k>> \in Executions
      BY <2>2, ExecutionParts
    <3>2. CASE k = tool[j]
      BY <2>1, <3>2 DEF Succeeded, Current
    <3>3. CASE k < tool[j]
      <4>1. Succeeded(exec[<<j, attempt[j], k>>])
        BY <2>2, <2>5, <3>1, <3>3 DEF ToolsIInv, JobsAreSound
      <4>2. <<j, attempt[j], k>> # c
        BY <2>2, <3>3 DEF Current
      <4> QED BY <2>1, <3>1, <4>1, <4>2
    <3> QED BY <2>2, <2>5, <3>1, <3>2, <3>3
  <2>6. Proceed(j, attempt[j], tool[j] + 1, x) /\ UNCHANGED bus
    BY <1>3 DEF HandlerReturns, x
  <2>7. attempt' = [attempt EXCEPT ![j] = attempt[j]]
    BY <1>3 DEF HandlerReturns, ToolsIInv, ToolsTypeOK
  <2>8. Ready(j, attempt[j], tool[j] + 1, x)
    BY <2>3, <2>4, <2>5 DEF Ready
  <2> QED BY <2>1, <2>2, <2>6, <2>7, <2>8, ProceedKeeps
<1>4. ASSUME NEW j \in Jobs, HandlerRaises(j) PROVE ToolsIInv'
  <2>1. job[j] = "executing"
    BY <1>4 DEF HandlerRaises
  <2>2. exec' = Ended(j, "failed", "failed", FALSE) /\ job' = [job EXCEPT ![j] = "failed"]
        /\ UNCHANGED <<attempt, tool, bus>>
    BY <1>4 DEF HandlerRaises
  <2>3. Closes(j, exec', "failed", FALSE)
    BY <2>1, <2>2, EndedIsDone, Zenon
  <2> QED BY <2>1, <2>2, <2>3, JobEnds DEF Closes
<1>5. ASSUME NEW j \in Jobs, HandlerTimesOut(j) PROVE ToolsIInv'
  <2>1. tool[j] \in DOMAIN Uses[j] /\ job[j] = "executing"
    BY <1>5 DEF HandlerTimesOut, ToolsIInv, JobsAreSound
  <2>2. exec' = Ended(j, "timeout", "timeout", IsThread(j)) /\ job' = [job EXCEPT ![j] = "failed"]
        /\ UNCHANGED <<attempt, tool, bus>> /\ IsThread(j) \in BOOLEAN
    BY <1>5 DEF HandlerTimesOut, IsThread
  <2>3. Closes(j, exec', "timeout", IsThread(j))
    BY <2>1, <2>2, EndedIsDone, Zenon
  <2> QED BY <2>1, <2>2, <2>3, JobEnds DEF Closes
<1>6. ASSUME NEW j \in Jobs, JobCancelled(j) PROVE ToolsIInv'
  <2> DEFINE c == Current(j)
  <2>1. job[j] = "executing" /\ tool[j] \in DOMAIN Uses[j] /\ attempt[j] \in 1 .. Attempts
        /\ exec[c].phase = "awaited"
    BY <1>6 DEF JobCancelled, ToolsIInv, JobsAreSound
  <2>9. exec' = [exec EXCEPT ![c].phase = "over", ![c].live = IsThread(j)]
    BY <1>6 DEF JobCancelled
  <2>2. c \in Executions /\ c[1] = j /\ c[3] = tool[j]
    BY <2>1, ExecutionParts DEF Current
  <2> HIDE DEF c
  <2>3. exec[c] \in Exec /\ IsThread(j) \in BOOLEAN /\ (IsThread(j) <=> ~Async(c))
    BY <2>2 DEF ToolsIInv, ToolsTypeOK, IsThread, Async
  <2>4. exec[c].event = "none" /\ exec[c].status = "none"
    BY <2>1, <2>2 DEF ToolsIInv, ExecutionsAreSound
  <2>5. exec \in [Executions -> Exec]
    BY DEF ToolsIInv, ToolsTypeOK
  <2>6. /\ exec' \in [Executions -> Exec] /\ \A e \in Executions \ {c} : exec'[e] = exec[e]
        /\ exec'[c].phase = "over" /\ exec'[c].event = "none" /\ exec'[c].status = "none"
        /\ exec'[c].live => IsThread(j)
    BY <2>2, <2>3, <2>4, <2>5, <2>9 DEF Exec
  <2>7. Dropped(exec'[c], Async(c))
    BY <2>3, <2>6 DEF Dropped
  <2>8. job' = [job EXCEPT ![j] = "cancelled"] /\ UNCHANGED <<attempt, tool, bus>>
    BY <1>6 DEF JobCancelled
  <2> QED BY <2>1, <2>2, <2>6, <2>7, <2>8, JobEnds DEF c
<1>7. ASSUME NEW d \in Executions, ThreadEnds(d) PROVE ToolsIInv'
  <2>1. exec \in [Executions -> Exec] /\ exec[d].phase = "over" /\ exec[d] \in Exec
        /\ UNCHANGED <<job, attempt, tool, bus>> /\ exec' = [exec EXCEPT ![d].live = FALSE]
    BY <1>7 DEF ThreadEnds, ToolsIInv, ToolsTypeOK
  <2>2. /\ exec'[d] \in Exec /\ ~exec'[d].live /\ exec'[d].phase = "over"
        /\ exec'[d].event = exec[d].event /\ exec'[d].ruling = exec[d].ruling
        /\ exec'[d].status = exec[d].status /\ exec'[d].calls = exec[d].calls
        /\ \A e \in Executions \ {d} : exec'[e] = exec[e]
    BY <2>1 DEF Exec
  <2>3. exec[d] # Unused
    BY <2>1, UnusedTyped
  <2>4. ToolsTypeOK'
    BY <2>1, <2>2 DEF ToolsIInv, ToolsTypeOK
  <2>5. \A a : /\ Done(exec[d], a, bus) => Done(exec'[d], a, bus)
               /\ Dropped(exec[d], a) => Dropped(exec'[d], a)
    BY <2>1, <2>2 DEF Done, Dropped, Tells
  <2>6. ExecutionsAreSound'
    <3> SUFFICES ASSUME NEW e \in Executions PROVE ExecutionsAreSound!(e)'
      BY DEF ExecutionsAreSound
    <3>1. CASE e = d
      BY <2>1, <2>2, <2>3, <2>5, <3>1 DEF ToolsIInv, ExecutionsAreSound, Later, Async
    <3>2. CASE e # d
      BY <2>1, <2>2, <3>2 DEF ToolsIInv, ExecutionsAreSound, Current, Later, Async
    <3> QED BY <3>1, <3>2
  <2>7. JobsAreSound'
    BY <2>1, <2>2, ExecutionParts DEF ToolsIInv, JobsAreSound, Current, Succeeded
  <2>8. CompletedMeansToolsRan'
    BY <2>1, <2>2, ExecutionParts DEF ToolsIInv, JobsAreSound, CompletedMeansToolsRan
  <2> QED BY <2>4, <2>6, <2>7, <2>8 DEF ToolsIInv
<1>8. CASE BusStops
  <2>1. UNCHANGED <<job, attempt, tool, exec>> /\ bus' = FALSE
    BY <1>8 DEF BusStops
  <2>2. ToolsTypeOK'
    BY <2>1 DEF ToolsIInv, ToolsTypeOK
  <2>3. \A x, a : Done(x, a, bus) => Done(x, a, FALSE)
    BY DEF Done, Tells
  <2>4. ExecutionsAreSound'
    BY <2>1, <2>3 DEF ToolsIInv, ExecutionsAreSound, Current, Async, Later
  <2>5. JobsAreSound' /\ CompletedMeansToolsRan'
    BY <2>1 DEF ToolsIInv, JobsAreSound, CompletedMeansToolsRan, Current, Succeeded
  <2> QED BY <2>2, <2>4, <2>5 DEF ToolsIInv
<1> QED BY <1>1, <1>2, <1>3, <1>4, <1>5, <1>6, <1>7, <1>8 DEF ToolsNext

(* It holds at the start, ...                                                *)
LEMMA ToolsStart == ToolsInit => ToolsIInv
<1> SUFFICES ASSUME ToolsInit PROVE ToolsIInv
  OBVIOUS
<1>1. ToolsTypeOK
  BY UnusedTyped, ToolsAssumption DEF ToolsInit, ToolsTypeOK
<1>2. ExecutionsAreSound
  BY UnusedTyped, ExecutionParts DEF ToolsInit, ExecutionsAreSound
<1> QED BY <1>1, <1>2, ExecutionParts DEF ToolsInit, ToolsIInv, JobsAreSound, CompletedMeansToolsRan

(* ... and says what the runs check.                                         *)
LEMMA ToolsTruth == ToolsIInv => RecordsTellTheTruth /\ CompletedMeansToolsRan
<1> SUFFICES ASSUME ToolsIInv, NEW e \in Executions PROVE RecordsTellTheTruth!(e)
  BY DEF ToolsIInv, RecordsTellTheTruth
<1>1. exec[e] \in Exec
  BY DEF ToolsIInv, ToolsTypeOK
<1>2. CASE exec[e].phase = "over"
  BY <1>1, <1>2 DEF ToolsIInv, ExecutionsAreSound, Done, Dropped, Async
<1>3. CASE exec[e].phase = "awaited"
  BY <1>1, <1>3 DEF ToolsIInv, ExecutionsAreSound
<1>4. CASE exec[e].phase = "none"
  BY <1>1, <1>4, UnusedTyped DEF ToolsIInv, ExecutionsAreSound
<1> QED BY <1>1, <1>2, <1>3, <1>4 DEF Exec

-----------------------------------------------------------------------------
(* A quotient by a thousand.                                                 *)
LEMMA Thousandth ==
  ASSUME NEW n \in Int
  PROVE  /\ n \div 1000 \in Int
         /\ 1000 * (n \div 1000) <= n /\ n < 1000 * (n \div 1000) + 1000
OBVIOUS

(* Thousandths of one.                                                       *)
PerMille == 0 .. 1000

(* A number that is no smaller, or smaller by at most 50 than one of 600.     *)
NoFarBelow(b, a) == b >= a \/ (b >= a - 50 /\ a >= 600)

(* A product that drops by little and, when it was enough, stays enough.      *)
DropIsSmall(a, b, c) ==
  /\ b * c >= a * c - 50000
  /\ a * c >= 350000 => b * c >= 300000

(* What a drop of at most 50 before the multiplication comes to after it.    *)
LEMMA SmallDrop ==
  ASSUME NEW a \in Int, NEW b \in Int, NEW c \in PerMille, NoFarBelow(b, a)
  PROVE  DropIsSmall(a, b, c)
<1> USE DEF DropIsSmall, PerMille, NoFarBelow
<1>1. CASE b >= a
  BY <1>1
<1>2. CASE b >= a - 50 /\ a >= 600
  <2>1. (a - b) * c <= 50 * c
    BY <1>2
  <2>2. a * c >= 600 * c
    BY <1>2
  <2> QED BY <2>1, <2>2
<1> QED BY <1>1, <1>2

(* Similarities and confidences are thousandths, hints are given or not.     *)
LEMMA LooksAre ==
  Looks = [sim : PerMille, asked : BOOLEAN, clickable : BOOLEAN,
           confidence : PerMille, left : BOOLEAN]
BY DEF Looks, PerMille

LEMMA PerMilleIsInt == \A n \in PerMille : n \in Int
BY DEF PerMille

LEMMA SimTyped == \A e \in Elements : Look[e].sim \in PerMille
BY VisionAssumption, LooksAre

LEMMA SimIsInt == \A e \in Elements : Look[e].sim \in Int
BY SimTyped, PerMilleIsInt, Zenon

LEMMA ConfidenceTyped == \A e \in Elements : Look[e].confidence \in PerMille
BY VisionAssumption, LooksAre

LEMMA ConfidenceIsInt == \A e \in Elements : Look[e].confidence \in Int
BY ConfidenceTyped, PerMilleIsInt, Zenon

LEMMA AskedTyped == \A e \in Elements : Look[e].asked \in BOOLEAN
BY VisionAssumption, LooksAre

(* The score before the confidence, band by band.                            *)
LEMMA Bands ==
  ASSUME NEW q \in Question, NEW e \in Elements
  PROVE  LET s == Look[e].sim  k == Adjusted(q, e)  r == RawScore(q, e) IN
           /\ s >= 950 => r = s - 30 + k
           /\ s \in 700 .. 949 => r = 750 + (s - 700) \div 2 + k
           /\ s \in 350 .. 699 => r = 400 + ((s - 350) * 4) \div 5 + k
           /\ s < 350 /\ q.hints /\ Look[e].asked => r = 450 + k
           /\ s < 350 /\ ~(q.hints /\ Look[e].asked) =>
                r = (s * 2) \div 5 + (IF q.hints THEN -200 ELSE 0)
<1> DEFINE s == Look[e].sim  k == Adjusted(q, e)  r == RawScore(q, e)
           low == q.hints /\ Look[e].asked
           rest == (s * 2) \div 5 + (IF q.hints THEN -200 ELSE 0)
<1>1. s \in Int
  BY SimIsInt
<1>2. k \in Int
  BY AskedTyped DEF Question, Adjusted
<1>3. r = CASE s >= 950 -> 920 + (s - 950) + k
            [] s \in 700 .. 949 -> 750 + (s - 700) \div 2 + k
            [] s \in 350 .. 699 -> 400 + ((s - 350) * 4) \div 5 + k
            [] s < 350 /\ low -> 450 + k
            [] OTHER -> rest
  BY Zenon DEF RawScore
<1> HIDE DEF s, k, r, low, rest
<1>4. /\ s >= 950 => ~(s < 350) /\ s \notin 700 .. 949 /\ s \notin 350 .. 699
      /\ s \in 700 .. 949 => ~(s < 350) /\ s \notin 350 .. 699
      /\ s \in 350 .. 699 => ~(s < 350)
  BY <1>1
<1>5. s >= 950 => r = s - 30 + k
  BY <1>1, <1>2, <1>3, <1>4
<1>6. s \in 700 .. 949 => r = 750 + (s - 700) \div 2 + k
  BY <1>1, <1>3, <1>4
<1>7. s \in 350 .. 699 => r = 400 + ((s - 350) * 4) \div 5 + k
  BY <1>1, <1>3, <1>4
<1>8. s < 350 /\ low => r = 450 + k
  BY <1>1, <1>3, <1>4
<1>9. s < 350 /\ ~low => r = rest
  BY <1>1, <1>3, <1>4
<1> QED BY <1>5, <1>6, <1>7, <1>8, <1>9, ZenonT(40) DEF s, k, r, low, rest

(* More similar never scores less, but where a hint lifts what is hardly     *)
(* similar.                                                                  *)
LEMMA RawScoreDrops ==
  ASSUME NEW q \in Question, NEW d \in Elements, NEW e \in Elements, Alike(e, d),
         Look[d].sim <= Look[e].sim
  PROVE  /\ RawScore(q, d) \in Int /\ RawScore(q, e) \in Int
         /\ \/ RawScore(q, e) >= RawScore(q, d)
            \/ RawScore(q, e) >= RawScore(q, d) - 50 /\ RawScore(q, d) >= 600
<1> DEFINE s == Look[d].sim  t == Look[e].sim  k == Adjusted(q, d)
           low == q.hints /\ Look[d].asked
           r == RawScore(q, d)  u == RawScore(q, e)
<1>0. /\ s \in PerMille /\ t \in PerMille /\ s <= t
      /\ Look[d].asked \in BOOLEAN
  BY SimTyped, AskedTyped, Zenon
<1>a. q.hints \in BOOLEAN
  BY DEF Question
<1>2. /\ Look[e].asked = Look[d].asked /\ Adjusted(q, e) = k /\ k \in Int
      /\ low => k >= 150
      /\ ~q.hints => k >= 0
      /\ k >= -200
  BY <1>0, <1>a DEF Alike, Adjusted
<1>3. /\ s >= 950 => r = s - 30 + k
      /\ s \in 700 .. 949 => r = 750 + (s - 700) \div 2 + k
      /\ s \in 350 .. 699 => r = 400 + ((s - 350) * 4) \div 5 + k
      /\ s < 350 /\ low => r = 450 + k
      /\ s < 350 /\ ~low => r = (s * 2) \div 5 + (IF q.hints THEN -200 ELSE 0)
  BY Bands
<1>4. /\ t >= 950 => u = t - 30 + k
      /\ t \in 700 .. 949 => u = 750 + (t - 700) \div 2 + k
      /\ t \in 350 .. 699 => u = 400 + ((t - 350) * 4) \div 5 + k
      /\ t < 350 /\ low => u = 450 + k
      /\ t < 350 /\ ~low => u = (t * 2) \div 5 + (IF q.hints THEN -200 ELSE 0)
  BY <1>2, Bands
<1> HIDE DEF s, t, k, low, r, u
<1>1. s \in 0 .. 1000 /\ t \in 0 .. 1000 /\ s <= t /\ q.hints \in BOOLEAN
  BY <1>0, <1>a DEF PerMille
<1>5. low \in BOOLEAN
  BY DEF low
<1>6. CASE s >= 950
  <2>1. r = s - 30 + k /\ u = t - 30 + k
    BY <1>1, <1>3, <1>4, <1>6
  <2>2. r \in Int /\ u \in Int /\ u >= r
    BY <1>1, <1>2, <2>1
  <2> QED BY <2>2 DEF r, u
<1>7. CASE s \in 700 .. 949
  <2>1. (s - 700) \div 2 \in 0 .. 124 /\ r \in Int
    BY <1>2, <1>3, <1>7
  <2>2. CASE t >= 950
    BY <1>1, <1>2, <1>3, <1>4, <1>7, <2>1, <2>2 DEF r, u
  <2>3. CASE t \in 700 .. 949
    BY <1>1, <1>2, <1>3, <1>4, <1>7, <2>1, <2>3 DEF r, u
  <2> QED BY <1>1, <1>7, <2>2, <2>3
<1>8. CASE s \in 350 .. 699
  <2>1. ((s - 350) * 4) \div 5 \in 0 .. 279 /\ r \in Int
    BY <1>2, <1>3, <1>8
  <2>2. CASE t >= 950
    BY <1>1, <1>2, <1>3, <1>4, <1>8, <2>1, <2>2 DEF r, u
  <2>3. CASE t \in 700 .. 949
    BY <1>1, <1>2, <1>3, <1>4, <1>8, <2>1, <2>3 DEF r, u
  <2>4. CASE t \in 350 .. 699
    BY <1>1, <1>2, <1>3, <1>4, <1>8, <2>1, <2>4 DEF r, u
  <2> QED BY <1>1, <1>8, <2>2, <2>3, <2>4
<1>9. CASE s < 350 /\ low
  <2>1. r = 450 + k /\ r >= 600
    BY <1>2, <1>3, <1>9
  <2>2. u >= 400 + k /\ u \in Int
    BY <1>1, <1>2, <1>4, <1>9
  <2> QED BY <1>2, <2>1, <2>2 DEF r, u
<1>10. CASE s < 350 /\ ~low
  <2>1. (s * 2) \div 5 \in 0 .. 139
    BY <1>1, <1>10
  <2>2. r \in Int /\ r <= 139 /\ (q.hints => r <= -61)
    BY <1>1, <1>3, <1>10, <2>1
  <2>3. CASE t >= 350
    <3>1. u >= 400 + k /\ u \in Int
      BY <1>1, <1>2, <1>4, <2>3
    <3> QED BY <1>1, <1>2, <2>2, <3>1 DEF r, u
  <2>4. CASE t < 350
    BY <1>1, <1>2, <1>3, <1>4, <1>10, <2>2, <2>4 DEF r, u
  <2> QED BY <1>1, <2>3, <2>4
<1> QED BY <1>1, <1>5, <1>6, <1>7, <1>8, <1>9, <1>10

(* What a score is made of, ...                                              *)
LEMMA ScoreParts ==
  ASSUME NEW q \in Question, NEW e \in Elements
  PROVE  (RawScore(q, e) * Look[e].confidence) \div 1000 \in Int
<1>1. RawScore(q, e) \in Int /\ Look[e].confidence \in Int
  <2>1. Look[e].confidence \in Int
    BY ConfidenceIsInt, Zenon
  <2>2. Look[e].sim <= Look[e].sim
    <3> DEFINE t == Look[e].sim
    <3>1. t \in Int
      BY SimIsInt, Zenon
    <3> HIDE DEF t
    <3>2. t <= t
      BY <3>1
    <3> QED BY <3>2 DEF t
  <2>3. Alike(e, e)
    BY Zenon DEF Alike
  <2> QED BY <2>1, <2>2, <2>3, RawScoreDrops
<1> DEFINE n == RawScore(q, e) * Look[e].confidence
<1>2. n \in Int
  BY <1>1
<1> HIDE DEF n
<1>3. n \div 1000 \in Int
  BY <1>2
<1> QED BY <1>3 DEF n

(* ... which is a number of thousandths.                                     *)
LEMMA ScoreIsInt ==
  ASSUME NEW q \in Question, NEW e \in Elements PROVE Score(q, e) \in Int
<1> DEFINE n == (RawScore(q, e) * Look[e].confidence) \div 1000
<1>1. n \in Int
  BY ScoreParts
<1>2. \/ Score(q, e) = 1000 \/ Score(q, e) = 0
      \/ Score(q, e) = IF n < 0 THEN 0 ELSE IF n > 1000 THEN 1000 ELSE n
  BY DEF Score
<1> HIDE DEF n
<1> QED BY <1>1, <1>2

(* So what scores enough is never far ahead of what is alike and more        *)
(* similar, which is a candidate with it.                                    *)
LEMMA NeverFarAhead ==
  ASSUME NEW q \in Question, NEW d \in Elements, NEW e \in Elements, Alike(e, d),
         q.named \notin {d, e}, Look[d].sim <= Look[e].sim, Score(q, d) >= 350
  PROVE  Score(q, e) >= 300 /\ Score(q, d) - Score(q, e) <= 80
<1>9. Look[e].confidence = Look[d].confidence
  BY DEF Alike
<1> DEFINE c == Look[d].confidence
           a == RawScore(q, d)  b == RawScore(q, e)
           m == (a * c) \div 1000  n == (b * c) \div 1000
<1>2. a \in Int /\ b \in Int /\ (b >= a \/ (b >= a - 50 /\ a >= 600))
  BY RawScoreDrops
<1> HIDE DEF a, b, c
<1>0. c \in PerMille
  BY ConfidenceTyped, Zenon DEF c
<1>c. NoFarBelow(b, a)
  BY <1>2 DEF NoFarBelow
<1>3. DropIsSmall(a, b, c)
  BY <1>0, <1>2, <1>c, SmallDrop, Zenon
<1>4. a * c \in Int /\ b * c \in Int
  BY <1>0, <1>2, PerMilleIsInt
<1>5. /\ m \in Int /\ 1000 * m <= a * c /\ a * c < 1000 * m + 1000
      /\ n \in Int /\ 1000 * n <= b * c /\ b * c < 1000 * n + 1000
  BY <1>4, Thousandth
<1>6. /\ Score(q, d) = IF q.words /\ Look[d].sim < 250 THEN 0
                        ELSE IF m < 0 THEN 0 ELSE IF m > 1000 THEN 1000 ELSE m
      /\ Score(q, e) = IF q.words /\ Look[e].sim < 250 THEN 0
                        ELSE IF n < 0 THEN 0 ELSE IF n > 1000 THEN 1000 ELSE n
  BY <1>9 DEF Score, a, b, c
<1> HIDE DEF m, n
<1>7. m >= 350 /\ ~(q.words /\ Look[d].sim < 250)
  BY <1>5, <1>6
<1>8. n >= 300 /\ m - n <= 51
  BY <1>3, <1>4, <1>5, <1>7 DEF DropIsSmall
<1>10. ~(q.words /\ Look[e].sim < 250)
  <2> DEFINE s == Look[d].sim  t == Look[e].sim
  <2>1. s \in Int /\ t \in Int /\ s <= t
    BY SimIsInt, Zenon
  <2> HIDE DEF s, t
  <2>2. t < 250 => s < 250
    BY <2>1
  <2> QED BY <1>7, <2>2, Zenon DEF s, t
<1>11. Score(q, d) = IF m > 1000 THEN 1000 ELSE m
  BY <1>5, <1>6, <1>7
<1>12. Score(q, e) = IF n > 1000 THEN 1000 ELSE n
  BY <1>5, <1>6, <1>8, <1>10
<1> QED BY <1>5, <1>7, <1>8, <1>11, <1>12

(* A threshold is a natural number.                                          *)
LEMMA ThresholdIsInt == \A q \in Question : q.threshold \in Int
<1>1. \A q \in Question : q.threshold \in Thresholds
  BY DEF Question
<1>2. \A h \in Thresholds : h \in Int
  BY VisionAssumption
<1> QED BY <1>1, <1>2

(* No score is more than that of an element asked for by its id.             *)
LEMMA ScoreIsBounded ==
  ASSUME NEW q \in Question, NEW e \in Elements PROVE Score(q, e) <= 1000
<1> DEFINE n == (RawScore(q, e) * Look[e].confidence) \div 1000
<1>1. n \in Int
  BY ScoreParts
<1>2. \/ Score(q, e) = 1000 \/ Score(q, e) = 0
      \/ Score(q, e) = IF n < 0 THEN 0 ELSE IF n > 1000 THEN 1000 ELSE n
  BY DEF Score
<1> HIDE DEF n
<1> QED BY <1>1, <1>2

(* So nothing else is far enough ahead of it to be grounded.                  *)
LEMMA NamedIsFirst ==
  ASSUME NEW q \in Question, NEW els \in SUBSET Elements, NEW d \in els,
         q.named \in els, Clear(q, d, els)
  PROVE  d = q.named
<1> DEFINE a == Score(q, d)  b == Score(q, q.named)
<1>1. b = 1000
  BY DEF Score
<1>2. a \in Int /\ a <= 1000
  BY ScoreIsInt, ScoreIsBounded
<1>3. b >= 300 /\ d # q.named => a - b > 80
  BY DEF Clear, Matching
<1> HIDE DEF a, b
<1> QED BY <1>1, <1>2, <1>3

(* Without a runner-up close behind, nothing of its kind is as similar.      *)
LEMMA BestOfItsKind ==
  ASSUME NEW q \in Question, NEW els \in SUBSET Elements, NEW d \in Elements, NEW e \in Elements,
         d \in els, e \in els, e # d, q.named \notin els,
         Alike(e, d), Score(q, d) >= q.threshold, q.threshold >= 350, Clear(q, d, els)
  PROVE  Look[e].sim < Look[d].sim
<1> DEFINE s == Look[d].sim  t == Look[e].sim  a == Score(q, d)  b == Score(q, e)
           h == q.threshold
<1>1. s \in Int /\ t \in Int
  BY SimIsInt, Zenon
<1>2. a \in Int /\ b \in Int
  BY ScoreIsInt, Zenon
<1>3. h \in Int
  BY ThresholdIsInt
<1>4. a >= h /\ h >= 350
  OBVIOUS
<1>5. b >= 300 => a - b > 80
  BY DEF Clear, Matching
<1>6. s <= t /\ a >= 350 => b >= 300 /\ a - b <= 80
  BY NeverFarAhead
<1> HIDE DEF s, t, a, b, h
<1>7. t < s
  BY <1>1, <1>2, <1>3, <1>4, <1>5, <1>6
<1> QED BY <1>7 DEF s, t

(* Ages are cut off one past the time to live.                               *)
LEMMA AgesAreTyped ==
  TTL \in Nat /\ 0 \in 0 .. TTL + 1 /\ \A n \in 0 .. TTL + 1 : Older(n) \in 0 .. TTL + 1
<1> TTL \in Nat
  BY VisionAssumption
<1> QED BY DEF Older

-----------------------------------------------------------------------------
(* Vision: a call in progress has grounded nothing yet, and what is grounded *)
(* was the best of what was in hand.                                         *)
VisionIInv ==
  /\ VisionTypeOK /\ GroundingIsBest
  /\ sight # "idle" => ground.element = NoElement

(* Each step of vision keeps what is grounded right.                         *)
LEMMA VisionStep == VisionIInv /\ [VisionNext]_visionVars => VisionIInv'
<1> SUFFICES ASSUME VisionIInv, [VisionNext]_visionVars PROVE VisionIInv'
  OBVIOUS
<1> USE DEF VisionIInv, VisionTypeOK
<1>1. Ungrounded.element = NoElement /\ Ungrounded \in [element : Elements \cup {NoElement},
        ambiguous : BOOLEAN, threshold : Nat, named : Elements \cup {NoElement}]
  BY DEF Ungrounded
<1>2. \A els \in Screens : els \subseteq Elements
  BY DEF Screens, kSubset
<1>0. TTL \in Nat /\ 0 \in 0 .. TTL + 1 /\ \A n \in 0 .. TTL + 1 : Older(n) \in 0 .. TTL + 1
  BY AgesAreTyped
<1>3. CASE UNCHANGED visionVars
  BY <1>3 DEF visionVars, GroundingIsBest
<1>4. ASSUME NEW els \in Screens, TakeCached(els) PROVE VisionIInv'
  BY <1>1, <1>2, <1>4 DEF TakeCached, GroundingIsBest
<1>5. ASSUME NEW els \in Screens, AnalysisEnds(els) PROVE VisionIInv'
  <2>1. ground.element = NoElement /\ ground' = ground
    BY <1>5 DEF AnalysisEnds
  <2> QED BY <1>0, <1>2, <1>5, <2>1 DEF AnalysisEnds, GroundingIsBest
<1>6. CASE Analyze
  BY <1>0, <1>1, <1>6 DEF Analyze, GroundingIsBest
<1>7. CASE CacheRefreshed
  BY <1>0, <1>1, <1>7 DEF CacheRefreshed, GroundingIsBest
<1>8. CASE Tick
  BY <1>0, <1>1, <1>8 DEF Tick, GroundingIsBest
<1>9. ASSUME NEW q \in Question, Resolve(q) PROVE VisionIInv'
  <2>1. CASE ground' = Ungrounded
    BY <1>1, <1>9, <2>1 DEF Resolve, GroundingIsBest
  <2>2. ASSUME NEW d \in Grounds(q, seen, age),
               ground' = [element |-> d, ambiguous |-> q.ambiguous, threshold |-> q.threshold,
                          named |-> q.named]
        PROVE  VisionIInv'
    <3>1. /\ d \in seen /\ d \in Elements /\ age <= TTL /\ ~Look[d].left
          /\ Score(q, d) >= q.threshold
          /\ q.ambiguous \/ Clear(q, d, seen)
      BY <2>2 DEF Grounds, Matching
    <3>2. /\ q.threshold \in Nat /\ q.ambiguous \in BOOLEAN
          /\ q.named \in Elements \cup {NoElement}
          /\ ground'.element = d /\ ground'.ambiguous = q.ambiguous
          /\ ground'.threshold = q.threshold /\ ground'.named = q.named
      BY <2>2, VisionAssumption DEF Question
    <3>3. ASSUME ~q.ambiguous, q.named \notin seen, q.threshold >= 350, NEW e \in seen \ {d},
                 Alike(e, d)
          PROVE  Look[e].sim < Look[d].sim
      BY <3>1, <3>3, BestOfItsKind
    <3>4. ASSUME ~q.ambiguous, q.named \in seen
          PROVE  d = q.named
      BY <3>1, <3>4, NamedIsFirst
    <3>5. GroundingIsBest'
      BY <1>9, <3>1, <3>2, <3>3, <3>4 DEF GroundingIsBest, Resolve
    <3> QED BY <1>9, <2>2, <3>1, <3>2, <3>5 DEF Resolve
  <2> QED BY <1>9, <2>1, <2>2 DEF Resolve
<1> QED BY <1>3, <1>4, <1>5, <1>6, <1>7, <1>8, <1>9 DEF VisionNext
=============================================================================
