---------------------------- MODULE IPCServerProofs ----------------------------
(* The server's books, for any number of connections, requests and events.   *)
EXTENDS IPCServer, FiniteSetTheorems, TLAPS

Running == {r \in Requests : req[r] = "running"} \cup drains

(* A frame that waits to be read is of its own connection, and waits once.   *)
UnreadAreSent ==
  \A c \in Conns : \A i \in DOMAIN inbox[c] : inbox[c][i] \in Requests =>
    /\ req[inbox[c][i]] = "sent" /\ Home[inbox[c][i]] = c
    /\ \A j \in DOMAIN inbox[c] : inbox[c][j] = inbox[c][i] => i = j

(* A transport is open only while its loop is at work, and until stop() has  *)
(* cancelled them, every loop at work is among the tasks.                    *)
LoopsAreSound ==
  /\ \A c \in up : loop[c] \in {"reading", "greeting", "answering"}
  /\ \A c \in shaken : loop[c] \notin {"none", "gone"}
  /\ stop # "no" => state = "STOPPING"
  /\ state \in {"DISCONNECTED", "CONNECTED"} \/ stop = "closing" =>
       \A c \in Conns : loop[c] \in {"reading", "greeting", "answering"} => c \in tasks

(* A task that waits for its client to read has written its reply.           *)
DrainsAreDone == \A r \in drains : req[r] \in {"replied", "lost"}

(* Whoever a broadcast takes for dead is, and stays so.                      *)
CastsAreSound ==
  \A e \in Events :
    /\ \A c \in cast[e].rest \cup cast[e].waits \cup cast[e].dead : loop[c] # "none"
    /\ cast[e].dead \cap (up \ eof) = {}

IInv ==
  /\ TypeOK /\ UnreadAreSent /\ CountIsExact /\ DrainsAreDone /\ LoopsAreSound
  /\ CastsAreSound /\ ListedAreServed /\ ServedAreListed

-----------------------------------------------------------------------------
(* A write to a client, who may be one of those that do not read.            *)
LEMMA WriteTyped ==
  ASSUME TypeOK, NEW c \in Conns, Write(c)
  PROVE  deaf' \subseteq Conns
BY DEF TypeOK, Write

(* The walk of a broadcast after one more write.                             *)
LEMMA WalkGoesOn ==
  ASSUME NEW walk \in Casts,
         NEW c \in walk.rest, NEW next \in AfterWrite(walk, c)
  PROVE  /\ next \in Casts
         /\ next.rest = walk.rest \ {c}
         /\ next.waits \subseteq walk.waits \cup {c}
         /\ next.dead = walk.dead \/ (next.dead = walk.dead \cup {c} /\ Gone(c))
<1>1. \/ next = [walk EXCEPT !.rest = walk.rest \ {c}, !.waits = {c} \cap deaf']
      \/ next = [walk EXCEPT !.rest = walk.rest \ {c}, !.dead = walk.dead \cup {c}] /\ Gone(c)
  BY DEF AfterWrite
<1>2. /\ walk.rest \ {c} \in SUBSET Conns /\ walk.dead \cup {c} \in SUBSET Conns
      /\ {c} \cap deaf' \in SUBSET Conns
  BY DEF Casts
<1>3. CASE next = [walk EXCEPT !.rest = walk.rest \ {c}, !.waits = {c} \cap deaf']
  BY <1>2, <1>3 DEF Casts
<1>4. CASE next = [walk EXCEPT !.rest = walk.rest \ {c}, !.dead = walk.dead \cup {c}] /\ Gone(c)
  BY <1>2, <1>4 DEF Casts
<1> QED BY <1>1, <1>3, <1>4

(* What the first part of a broadcast leaves behind.                         *)
LEMMA CastBeginsAs ==
  ASSUME TypeOK, NEW e \in Events, CastBegins(e)
  PROVE  /\ cast' \in [Events -> Casts] /\ deaf' \subseteq Conns
         /\ \A d \in Events \ {e} : cast'[d] = cast[d]
         /\ cast'[e].rest \cup cast'[e].waits \cup cast'[e].dead \subseteq clients
         /\ cast'[e].dead \cap (up \ eof) = {}
         /\ UNCHANGED <<server, eof, links, work>>
<1>1. CASE clients = {} /\ cast' = [cast EXCEPT ![e] = Walk("over")] /\ UNCHANGED deaf
  BY <1>1 DEF TypeOK, CastBegins, Walk, Casts
<1>2. ASSUME NEW c \in clients, Write(c),
             NEW walk \in AfterWrite([Walk("going") EXCEPT !.rest = clients,
                                                           !.size = Cardinality(clients)], c),
             cast' = [cast EXCEPT ![e] = walk]
      PROVE  /\ cast' \in [Events -> Casts] /\ deaf' \subseteq Conns
             /\ \A d \in Events \ {e} : cast'[d] = cast[d]
             /\ cast'[e].rest \cup cast'[e].waits \cup cast'[e].dead \subseteq clients
             /\ cast'[e].dead \cap (up \ eof) = {}
  <2> DEFINE first == [Walk("going") EXCEPT !.rest = clients, !.size = Cardinality(clients)]
  <2>1. Cardinality(clients) \in Nat
    BY FS_Subset, FS_CardinalityType, ServerAssumption DEF TypeOK
  <2>2. /\ first \in Casts
        /\ first.rest = clients /\ first.waits = {} /\ first.dead = {}
    BY <2>1 DEF Walk, TypeOK, Casts
  <2> HIDE DEF first
  <2>3. walk \in AfterWrite(first, c)
    BY <1>2 DEF first
  <2>4. /\ walk \in Casts
        /\ walk.rest = clients \ {c} /\ walk.waits \subseteq {c}
        /\ walk.dead = {} \/ (walk.dead = {c} /\ Gone(c))
    BY <2>2, <2>3, WalkGoesOn
  <2>5. cast'[e] = walk /\ \A d \in Events \ {e} : cast'[d] = cast[d]
    BY <1>2 DEF TypeOK
  <2>6. cast' \in [Events -> Casts]
    BY <1>2, <2>4 DEF TypeOK
  <2>7. deaf' \subseteq Conns
    BY <1>2, WriteTyped DEF TypeOK
  <2> QED BY <2>4, <2>5, <2>6, <2>7 DEF Gone
<1>3. UNCHANGED <<server, eof, links, work>>
  BY DEF CastBegins
<1> QED BY <1>1, <1>2, <1>3 DEF CastBegins

(* What a write of it, or its waking, leaves behind.                         *)
LEMMA CastGoesOnAs ==
  ASSUME TypeOK, NEW e \in Events, CastWrites(e) \/ CastWakes(e)
  PROVE  /\ cast' \in [Events -> Casts] /\ deaf' \subseteq Conns
         /\ \A d \in Events \ {e} : cast'[d] = cast[d]
         /\ cast'[e].rest \cup cast'[e].waits \cup cast'[e].dead
              \subseteq cast[e].rest \cup cast[e].waits \cup cast[e].dead
         /\ \A c \in cast'[e].dead : c \in cast[e].dead \/ Gone(c)
         /\ UNCHANGED <<server, eof, links, work>>
<1>1. cast[e] \in Casts
  BY DEF TypeOK
<1>2. UNCHANGED <<server, eof, links, work>>
  BY DEF CastWrites, CastWakes, peers
<1>3. CASE CastWrites(e)
  <2>1. PICK c \in cast[e].rest :
          Write(c) /\ \E walk \in AfterWrite(cast[e], c) : cast' = [cast EXCEPT ![e] = walk]
    BY <1>3 DEF CastWrites
  <2>2. PICK walk \in AfterWrite(cast[e], c) : cast' = [cast EXCEPT ![e] = walk]
    BY <2>1
  <2>3. /\ walk \in Casts
        /\ walk.rest = cast[e].rest \ {c} /\ walk.waits \subseteq cast[e].waits \cup {c}
        /\ walk.dead = cast[e].dead \/ (walk.dead = cast[e].dead \cup {c} /\ Gone(c))
    BY <1>1, <2>2, WalkGoesOn
  <2>4. cast'[e] = walk /\ \A d \in Events \ {e} : cast'[d] = cast[d]
    BY <2>2 DEF TypeOK
  <2>5. cast' \in [Events -> Casts]
    BY <2>2, <2>3 DEF TypeOK
  <2>6. c \in Conns
    BY <1>1 DEF Casts
  <2>7. deaf' \subseteq Conns
    BY <2>1, <2>6, WriteTyped
  <2> QED BY <1>2, <2>1, <2>3, <2>4, <2>5, <2>7
<1>4. CASE CastWakes(e)
  <2>1. PICK lost \in SUBSET {c \in cast[e].waits : Gone(c)} :
          cast' = [cast EXCEPT ![e].waits = {}, ![e].dead = @ \cup lost]
    BY <1>4 DEF CastWakes
  <2> DEFINE walk == [cast[e] EXCEPT !.waits = {}, !.dead = cast[e].dead \cup lost]
  <2>2. cast' = [cast EXCEPT ![e] = walk]
    BY <2>1 DEF TypeOK
  <2>3. lost \subseteq cast[e].waits /\ \A c \in lost : Gone(c)
    BY <2>1
  <2>4. cast[e].dead \cup lost \in SUBSET Conns
    BY <1>1, <2>3 DEF Casts
  <2>5. /\ walk \in Casts /\ walk.rest = cast[e].rest /\ walk.waits = {}
        /\ walk.dead = cast[e].dead \cup lost
    BY <1>1, <2>4 DEF Casts
  <2> HIDE DEF walk
  <2>6. cast'[e] = walk /\ \A d \in Events \ {e} : cast'[d] = cast[d]
    BY <2>2 DEF TypeOK
  <2>7. cast' \in [Events -> Casts] /\ deaf' \subseteq Conns
    BY <1>4, <2>2, <2>5 DEF TypeOK, CastWakes, peers
  <2> QED BY <1>2, <2>3, <2>5, <2>6, <2>7
<1> QED BY <1>3, <1>4

-----------------------------------------------------------------------------
(* What each action does to the requests: the count changes with what runs,  *)
(* and what a step takes from a connection's inbox was sent.                 *)
LEMMA RunningStays ==
  ASSUME TypeOK, CountIsExact, DrainsAreDone, UNCHANGED <<drains, count>>,
         \A r \in Requests :
           \/ req'[r] = req[r]
           \/ req[r] \notin {"running", "replied", "lost"} /\ req'[r] # "running"
  PROVE  CountIsExact' /\ DrainsAreDone' /\ count' \in 0..Cardinality(Requests)
<1>1. Running' = Running
  BY DEF Running
<1>2. DrainsAreDone'
  BY DEF DrainsAreDone, TypeOK
<1> QED BY <1>1, <1>2 DEF Running, CountIsExact, TypeOK

(* The running requests are finitely many.                                   *)
LEMMA RunningTyped ==
  ASSUME NEW R, R \subseteq Requests
  PROVE  IsFiniteSet(R) /\ Cardinality(R) \in 0..Cardinality(Requests)
<1>1. IsFiniteSet(Requests)
  BY ServerAssumption
<1>2. IsFiniteSet(R) /\ Cardinality(R) <= Cardinality(Requests)
  BY <1>1, FS_Subset
<1>3. Cardinality(R) \in Nat /\ Cardinality(Requests) \in Nat
  BY <1>1, <1>2, FS_CardinalityType
<1> QED BY <1>2, <1>3

(* What becomes of the requests nobody will read.                            *)
LEMMA UnreadTyped ==
  ASSUME TypeOK, NEW S
  PROVE  /\ Unread(S) \in [Requests -> {"idle", "sent", "created", "running", "replied", "lost"}]
         /\ \A r \in Requests :
              /\ Unread(S)[r] = req[r] \/ (req[r] = "sent" /\ Unread(S)[r] = "lost")
              /\ req[r] = "sent" /\ Home[r] \notin S => Unread(S)[r] = "sent"
BY DEF Unread, TypeOK

(* The first frame of an inbox and the rest.                                 *)
LEMMA HeadTail ==
  ASSUME TypeOK, NEW c \in Conns, inbox[c] # <<>>
  PROVE  /\ Head(inbox[c]) = inbox[c][1] /\ 1 \in DOMAIN inbox[c]
         /\ Head(inbox[c]) \in Requests \cup Other
         /\ Tail(inbox[c]) \in Seq(Requests \cup Other)
         /\ \A i \in DOMAIN Tail(inbox[c]) :
              i + 1 \in DOMAIN inbox[c] /\ i + 1 # 1 /\ Tail(inbox[c])[i] = inbox[c][i + 1]
         /\ \A i, j \in DOMAIN Tail(inbox[c]) : i + 1 = j + 1 => i = j
<1>1. inbox[c] \in Seq(Requests \cup Other)
  BY DEF TypeOK
<1> QED BY <1>1

(* Once a frame was taken from c's inbox, and its request if it is one was   *)
(* dealt with, the rest are as they were.                                    *)
LEMMA TakenLeavesRest ==
  ASSUME TypeOK, UnreadAreSent, NEW c \in Conns, inbox[c] # <<>>,
         inbox' = [inbox EXCEPT ![c] = Tail(@)],
         \A r \in Requests : r # Head(inbox[c]) => req'[r] = req[r]
  PROVE  UnreadAreSent' /\ inbox' \in [Conns -> Seq(Requests \cup Other)]
<1>1. inbox' \in [Conns -> Seq(Requests \cup Other)]
  BY HeadTail DEF TypeOK
<1>2. ASSUME NEW d \in Conns, d # c PROVE UnreadAreSent!(d)'
  <2>1. inbox'[d] = inbox[d]
    BY <1>2 DEF TypeOK
  <2>2. ASSUME NEW i \in DOMAIN inbox[d], inbox[d][i] \in Requests
        PROVE  inbox[d][i] # Head(inbox[c])
    BY <1>2, <2>2, HeadTail DEF UnreadAreSent
  <2> QED BY <2>1, <2>2 DEF UnreadAreSent
<1>3. UnreadAreSent!(c)'
  <2>1. inbox'[c] = Tail(inbox[c])
    BY DEF TypeOK
  <2> SUFFICES ASSUME NEW i \in DOMAIN Tail(inbox[c]), Tail(inbox[c])[i] \in Requests
               PROVE  /\ req'[Tail(inbox[c])[i]] = "sent" /\ Home[Tail(inbox[c])[i]] = c
                      /\ \A j \in DOMAIN Tail(inbox[c]) :
                           Tail(inbox[c])[j] = Tail(inbox[c])[i] => i = j
    BY <2>1
  <2>2. inbox[c][i + 1] = Tail(inbox[c])[i] /\ i + 1 \in DOMAIN inbox[c] /\ i + 1 # 1
    BY HeadTail
  <2>3. Tail(inbox[c])[i] # Head(inbox[c])
    BY <2>2, HeadTail DEF UnreadAreSent
  <2>4. req[inbox[c][i + 1]] = "sent" /\ Home[inbox[c][i + 1]] = c
    BY <2>2 DEF UnreadAreSent
  <2>5. ASSUME NEW j \in DOMAIN Tail(inbox[c]), Tail(inbox[c])[j] = Tail(inbox[c])[i] PROVE i = j
    BY <2>2, <2>5, HeadTail DEF UnreadAreSent
  <2> QED BY <2>2, <2>3, <2>4, <2>5
<1> QED
  <2> SUFFICES ASSUME NEW d \in Conns PROVE UnreadAreSent!(d)'
    BY <1>1 DEF UnreadAreSent
  <2> QED BY <1>2, <1>3

-----------------------------------------------------------------------------
(* The loop's end.                                                           *)
LEMMA LeaveKeeps ==
  ASSUME IInv, NEW c \in Conns, loop[c] \in {"reading", "greeting", "answering"}, Leave(c),
         UNCHANGED <<server, eof, cast>>, deaf' \subseteq Conns
  PROVE  IInv'
<1>1. TypeOK' /\ CountIsExact' /\ DrainsAreDone'
  <2>1. req' = Unread({c}) /\ UNCHANGED <<drains, count>>
    BY DEF Leave
  <2>2. CountIsExact' /\ DrainsAreDone' /\ count' \in 0..Cardinality(Requests)
    BY <2>1, UnreadTyped, RunningStays DEF IInv
  <2>3. inbox' \in [Conns -> Seq(Requests \cup Other)]
    BY DEF Leave, IInv, TypeOK
  <2> QED BY <2>1, <2>2, <2>3, UnreadTyped DEF Leave, IInv, TypeOK, server, Loops
<1>2. UnreadAreSent'
  <2> SUFFICES ASSUME NEW d \in Conns PROVE UnreadAreSent!(d)'
    BY DEF UnreadAreSent
  <2>1. CASE d = c
    BY <2>1 DEF Leave, IInv, TypeOK
  <2>2. CASE d # c
    <3>1. inbox'[d] = inbox[d] /\ req' = Unread({c})
      BY <2>2 DEF Leave, IInv, TypeOK
    <3> QED BY <2>2, <3>1, UnreadTyped DEF IInv, UnreadAreSent
  <2> QED BY <2>1, <2>2
<1>3. LoopsAreSound' /\ CastsAreSound' /\ ListedAreServed' /\ ServedAreListed'
  BY DEF Leave, IInv, TypeOK, LoopsAreSound, CastsAreSound, ListedAreServed, ServedAreListed,
         Serving, server
<1> QED BY <1>1, <1>2, <1>3 DEF IInv

(* Loops come and go; a broadcast's clients are still such as had one.       *)
LEMMA CastsStay ==
  ASSUME TypeOK, CastsAreSound, UNCHANGED cast, up' \ eof' \subseteq up \ eof,
         \A c \in Conns : loop[c] # "none" => loop'[c] # "none"
  PROVE  CastsAreSound'
<1>1. \A e \in Events : cast[e].rest \cup cast[e].waits \cup cast[e].dead \subseteq Conns
  BY DEF TypeOK, Casts
<1> QED BY <1>1 DEF CastsAreSound

(* stop() cancels the loops.                                                 *)
LEMMA StopCancelsKeeps ==
  ASSUME IInv, StopCancels
  PROVE  IInv'
<1> DEFINE cut == {c \in tasks : loop[c] \in {"reading", "greeting", "answering"}}
<1> DEFINE left == {c \in tasks : loop[c] = "leaving"}
<1>1. /\ stop = "closing" /\ stop' = "gathering" /\ todo' = tasks /\ closes' = {} /\ clients' = {}
      /\ loop' = [c \in Conns |-> IF c \in cut THEN "leaving"
                                  ELSE IF c \in left THEN "gone" ELSE loop[c]]
      /\ up' = up \ cut
      /\ inbox' = [c \in Conns |-> IF c \in cut THEN <<>> ELSE inbox[c]]
      /\ req' = Unread(cut)
      /\ tasks' = tasks \ left /\ shaken' = shaken \ left /\ eof' = eof \ left
      /\ UNCHANGED <<state, listening, deaf, drains, count, cast>>
  BY DEF StopCancels
<1>2. \A c \in Conns : loop[c] \in {"reading", "greeting", "answering"} => c \in cut
  BY <1>1 DEF IInv, LoopsAreSound
<1>3. cut \subseteq Conns /\ \A c \in left : loop[c] = "leaving"
  BY DEF IInv, TypeOK
<1> HIDE DEF cut, left
<1>4. CountIsExact' /\ DrainsAreDone' /\ count' \in 0..Cardinality(Requests)
  BY <1>1, UnreadTyped, RunningStays DEF IInv
<1>5. TypeOK'
  <2>1. inbox' \in [Conns -> Seq(Requests \cup Other)]
    BY <1>1 DEF IInv, TypeOK
  <2>2. loop' \in [Conns -> Loops]
    BY <1>1 DEF IInv, TypeOK, Loops
  <2> QED BY <1>1, <1>4, <2>1, <2>2, UnreadTyped DEF IInv, TypeOK
<1>6. UnreadAreSent'
  <2> SUFFICES ASSUME NEW d \in Conns PROVE UnreadAreSent!(d)'
    BY DEF UnreadAreSent
  <2>1. CASE d \in cut
    BY <1>1, <2>1
  <2>2. CASE d \notin cut
    BY <1>1, <2>2, UnreadTyped DEF IInv, UnreadAreSent
  <2> QED BY <2>1, <2>2
<1>7. \A c \in Conns \ cut : loop[c] \notin {"reading", "greeting", "answering"}
  BY <1>2
<1>8. up' = {}
  BY <1>1, <1>7 DEF IInv, TypeOK, LoopsAreSound
<1>9. LoopsAreSound'
  <2>1. \A c \in shaken' : loop'[c] \notin {"none", "gone"}
    BY <1>1, <1>3 DEF IInv, TypeOK, LoopsAreSound
  <2> QED BY <1>1, <1>8, <2>1 DEF IInv, LoopsAreSound
<1>10. ListedAreServed' /\ ServedAreListed'
  BY <1>1, <1>8 DEF ListedAreServed, ServedAreListed
<1>11. CastsAreSound'
  <2>1. \A c \in Conns : loop[c] # "none" => loop'[c] # "none"
    BY <1>1
  <2> QED BY <1>1, <1>8, <2>1, CastsStay DEF IInv
<1> QED BY <1>4, <1>5, <1>6, <1>9, <1>10, <1>11 DEF IInv

(* A step that touches neither requests nor what waits to be read.           *)
LEMMA RequestsStay ==
  ASSUME IInv, UNCHANGED <<inbox, work>>
  PROVE  /\ UnreadAreSent' /\ CountIsExact' /\ DrainsAreDone'
         /\ inbox' \in [Conns -> Seq(Requests \cup Other)]
         /\ req' \in [Requests -> {"idle", "sent", "created", "running", "replied", "lost"}]
         /\ drains' \subseteq Requests /\ count' \in 0..Cardinality(Requests)
BY DEF IInv, TypeOK, UnreadAreSent, CountIsExact, DrainsAreDone, work

(* The steps of start() and stop() keep the invariant, ...                   *)
LEMMA ServerStep ==
  ASSUME IInv, Start \/ StopBegins \/ StopStep
  PROVE  IInv'
<1>1. CASE StopCancels
  BY <1>1, StopCancelsKeeps
<1>2. CASE Start \/ StopBegins \/ StopForgets \/ StopEnds
  <2>1. UNCHANGED <<inbox, work>> /\ UNCHANGED <<eof, deaf, closes, loop, shaken, up, clients, cast>>
    BY <1>2 DEF Start, StopBegins, StopForgets, StopEnds, links, peers
  <2>2. TypeOK' /\ LoopsAreSound'
    BY <1>2, <2>1, RequestsStay
    DEF Start, StopBegins, StopForgets, StopEnds, IInv, TypeOK, LoopsAreSound, links
  <2>3. CastsAreSound' /\ ListedAreServed' /\ ServedAreListed'
    BY <2>1 DEF IInv, CastsAreSound, ListedAreServed, ServedAreListed, Serving
  <2> QED BY <2>1, <2>2, <2>3, RequestsStay DEF IInv
<1>3. ASSUME NEW c \in Conns, StopCloses(c) PROVE IInv'
  <2>1. UNCHANGED <<inbox, work>>
    BY <1>3 DEF StopCloses, work
  <2>2. TypeOK' /\ LoopsAreSound' /\ CastsAreSound' /\ ListedAreServed' /\ ServedAreListed'
    BY <1>3, <2>1, RequestsStay
    DEF StopCloses, IInv, TypeOK, LoopsAreSound, CastsAreSound, ListedAreServed, ServedAreListed,
        Serving, peers
  <2> QED BY <2>1, <2>2, RequestsStay DEF IInv
<1> QED BY <1>1, <1>2, <1>3 DEF StopStep

(* ... those of the clients, ...                                             *)
LEMMA ClientsStep ==
  ASSUME IInv, NEW c \in Conns, ClientStep(c)
  PROVE  IInv'
<1>1. CASE ClientConnects(c)
  <2>1. UNCHANGED <<inbox, work>>
    BY <1>1 DEF ClientConnects
  <2>2. TypeOK' /\ LoopsAreSound'
    BY <1>1, <2>1, RequestsStay DEF ClientConnects, IInv, TypeOK, LoopsAreSound, Loops, server, peers
  <2>3. ListedAreServed' /\ ServedAreListed'
    BY <1>1 DEF ClientConnects, IInv, TypeOK, LoopsAreSound, ListedAreServed, ServedAreListed,
                Serving, peers
  <2>4. CastsAreSound'
    BY <1>1 DEF ClientConnects, IInv, TypeOK, CastsAreSound, peers
  <2> QED BY <2>1, <2>2, <2>3, <2>4, RequestsStay DEF IInv
<1>3. CASE ClientCloses(c) \/ ClientReads(c)
  <2>1. UNCHANGED <<inbox, work>> /\ UNCHANGED <<server, links, cast>>
        /\ eof \subseteq eof' /\ eof' \subseteq Conns /\ deaf' \subseteq Conns
    BY <1>3 DEF ClientCloses, ClientReads, links, IInv, TypeOK
  <2>2. TypeOK' /\ LoopsAreSound'
    BY <2>1, RequestsStay DEF IInv, TypeOK, LoopsAreSound, server, links
  <2>3. CastsAreSound' /\ ListedAreServed' /\ ServedAreListed'
    BY <2>1 DEF IInv, CastsAreSound, ListedAreServed, ServedAreListed, Serving, links
  <2> QED BY <2>1, <2>2, <2>3, RequestsStay DEF IInv
<1>4. CASE ConnectionResets(c)
  <2>1. deaf' \subseteq Conns
    BY <1>4 DEF ConnectionResets, IInv, TypeOK
  <2> QED BY <1>4, <2>1, LeaveKeeps DEF ConnectionResets
<1>2. ASSUME NEW f \in Requests \cup Other, ClientSends(c, f) PROVE IInv'
  <2>1. /\ inbox' = [inbox EXCEPT ![c] = Append(inbox[c], f)] /\ inbox[c] \in Seq(Requests \cup Other)
        /\ UNCHANGED <<server, eof, deaf, loop, shaken, up, clients, tasks, drains, count, cast>>
        /\ f \in Requests => req[f] = "idle" /\ Home[f] = c /\ req' = [req EXCEPT ![f] = "sent"]
        /\ f \notin Requests => req' = req
    BY <1>2 DEF ClientSends, IInv, TypeOK, peers
  <2>2. /\ req' \in [Requests -> {"idle", "sent", "created", "running", "replied", "lost"}]
        /\ \A r \in Requests : req'[r] = req[r] \/ (req[r] = "idle" /\ req'[r] = "sent")
        /\ \A r \in Requests : r # f => req'[r] = req[r]
        /\ f \in Requests => req'[f] = "sent"
    BY <2>1 DEF IInv, TypeOK
  <2>3. CountIsExact' /\ DrainsAreDone' /\ count' \in 0..Cardinality(Requests)
    BY <2>1, <2>2, RunningStays DEF IInv
  <2>4. inbox' \in [Conns -> Seq(Requests \cup Other)]
    BY <2>1 DEF IInv, TypeOK
  <2>5. UnreadAreSent'
    <3> SUFFICES ASSUME NEW d \in Conns PROVE UnreadAreSent!(d)'
      BY DEF UnreadAreSent
    <3>1. \A i \in DOMAIN inbox[d] : f \in Requests => inbox[d][i] # f
      BY <2>1 DEF IInv, UnreadAreSent
    <3>2. CASE d # c
      <4>1. inbox'[d] = inbox[d]
        BY <2>1, <3>2 DEF IInv, TypeOK
      <4> QED BY <2>2, <3>1, <4>1 DEF IInv, UnreadAreSent
    <3>3. CASE d = c
      <4>1. inbox'[c] = Append(inbox[c], f)
        BY <2>1 DEF IInv, TypeOK
      <4>2. /\ DOMAIN inbox'[c] = DOMAIN inbox[c] \cup {Len(inbox[c]) + 1}
            /\ Len(inbox[c]) + 1 \notin DOMAIN inbox[c]
            /\ inbox'[c][Len(inbox[c]) + 1] = f
            /\ \A i \in DOMAIN inbox[c] : inbox'[c][i] = inbox[c][i]
        BY <2>1, <4>1
      <4> QED BY <2>1, <2>2, <3>1, <3>3, <4>2 DEF IInv, UnreadAreSent
    <3> QED BY <3>2, <3>3
  <2>6. TypeOK' /\ LoopsAreSound' /\ CastsAreSound' /\ ListedAreServed' /\ ServedAreListed'
    BY <2>1, <2>2, <2>3, <2>4
    DEF IInv, TypeOK, LoopsAreSound, CastsAreSound, ListedAreServed, ServedAreListed, Serving, server
  <2> QED BY <2>3, <2>5, <2>6 DEF IInv
<1> QED BY <1>1, <1>2, <1>3, <1>4 DEF ClientStep

(* ... of the client loops, ...                                              *)
LEMMA LoopsStep ==
  ASSUME IInv, NEW c \in Conns, LoopStep(c)
  PROVE  IInv'
<1>1. CASE ReadEnd(c) \/ ReadFatal(c)
  <2>1. UNCHANGED <<server, eof, cast>> /\ deaf' \subseteq Conns
    BY <1>1 DEF ReadEnd, ReadFatal, peers, IInv, TypeOK
  <2> QED BY <1>1, <2>1, LeaveKeeps DEF ReadEnd, ReadFatal
<1>2. CASE ReadHandshake(c) \/ ReadInvalid(c)
  <2>1. /\ inbox[c] # <<>> /\ inbox' = [inbox EXCEPT ![c] = Tail(inbox[c])]
        /\ UNCHANGED <<server, eof, shaken, up, clients, tasks, req, drains, count, cast>>
        /\ loop[c] = "reading" /\ deaf' \subseteq Conns
    BY <1>2, WriteTyped DEF ReadHandshake, ReadInvalid, Answers, work, IInv
  <2>2. UnreadAreSent' /\ inbox' \in [Conns -> Seq(Requests \cup Other)]
    BY <2>1, TakenLeavesRest DEF IInv
  <2>3. CountIsExact' /\ DrainsAreDone'
    BY <2>1 DEF IInv, CountIsExact, DrainsAreDone
  <2>4. CASE ReadHandshake(c)
    <3>1. loop' = [loop EXCEPT ![c] = "greeting"] /\ c \notin shaken
      BY <2>4 DEF ReadHandshake
    <3>2. TypeOK' /\ LoopsAreSound'
      BY <2>1, <2>2, <3>1 DEF IInv, TypeOK, LoopsAreSound, Loops, server
    <3>3. CastsAreSound' /\ ListedAreServed' /\ ServedAreListed'
      BY <2>1, <3>1 DEF IInv, TypeOK, CastsAreSound, ListedAreServed, ServedAreListed, Serving
    <3> QED BY <2>2, <2>3, <3>2, <3>3 DEF IInv
  <2>5. CASE ReadInvalid(c)
    <3>1. loop' = [loop EXCEPT ![c] = "answering"] \/ loop' = [loop EXCEPT ![c] = "reading"]
      BY <2>5 DEF ReadInvalid, Answers
    <3>2. TypeOK' /\ LoopsAreSound'
      <4>1. loop' \in [Conns -> Loops]
        BY <3>1 DEF IInv, TypeOK, Loops
      <4>2. TypeOK'
        BY <2>1, <2>2, <4>1 DEF IInv, TypeOK, server
      <4>3. LoopsAreSound'
        BY <2>1, <3>1 DEF IInv, TypeOK, LoopsAreSound, server
      <4> QED BY <4>2, <4>3
    <3>3. CastsAreSound'
      <4>1. \A d \in Conns : loop[d] # "none" => loop'[d] # "none"
        BY <2>1, <3>1 DEF IInv, TypeOK
      <4> QED BY <2>1, <4>1, CastsStay DEF IInv
    <3>4. ListedAreServed' /\ ServedAreListed'
      BY <2>1, <3>1 DEF IInv, TypeOK, ListedAreServed, ServedAreListed, Serving
    <3> QED BY <2>2, <2>3, <3>2, <3>3, <3>4 DEF IInv
  <2> QED BY <1>2, <2>4, <2>5
<1>3. CASE LoopDrained(c)
  <2>1. UNCHANGED <<inbox, work>> /\ UNCHANGED <<server, eof, deaf, up, tasks, cast>>
        /\ loop' = [loop EXCEPT ![c] = "reading"] /\ loop[c] \in {"greeting", "answering"}
        /\ \/ loop[c] = "greeting" /\ shaken' = shaken \cup {c} /\ clients' = clients \cup {c}
           \/ loop[c] = "answering" /\ UNCHANGED <<shaken, clients>>
    BY <1>3 DEF LoopDrained, Greeted, Answered, peers
  <2>2. TypeOK' /\ LoopsAreSound'
    BY <2>1, RequestsStay DEF IInv, TypeOK, LoopsAreSound, Loops, server
  <2>3. CastsAreSound' /\ ListedAreServed' /\ ServedAreListed'
    BY <2>1 DEF IInv, TypeOK, CastsAreSound, ListedAreServed, ServedAreListed, Serving
  <2> QED BY <2>1, <2>2, <2>3, RequestsStay DEF IInv
<1>4. CASE LoopEnds(c)
  <2>1. UNCHANGED <<inbox, work>>
    BY <1>4 DEF LoopEnds
  <2>2. TypeOK' /\ LoopsAreSound'
    BY <1>4, <2>1, RequestsStay DEF LoopEnds, IInv, TypeOK, LoopsAreSound, Loops, server
  <2>3. CastsAreSound' /\ ListedAreServed' /\ ServedAreListed'
    BY <1>4 DEF LoopEnds, IInv, TypeOK, LoopsAreSound, CastsAreSound, ListedAreServed,
                ServedAreListed, Serving
  <2> QED BY <2>1, <2>2, <2>3, RequestsStay DEF IInv
<1>5. CASE ReadRequest(c)
  <2> DEFINE r == Head(inbox[c])
  <2>1. /\ inbox[c] # <<>> /\ inbox' = [inbox EXCEPT ![c] = Tail(inbox[c])] /\ r \in Requests
        /\ loop[c] = "reading"
        /\ UNCHANGED <<server, eof, shaken, up, clients, tasks, drains, count, cast>>
    BY <1>5 DEF ReadRequest
  <2>2. req[r] = "sent"
    BY <2>1, HeadTail DEF IInv, UnreadAreSent
  <2> HIDE DEF r
  <2>3. \E to \in {"replied", "lost", "created"} : req' = [req EXCEPT ![r] = to]
    BY <1>5 DEF ReadRequest, Written, r
  <2>4. /\ req' \in [Requests -> {"idle", "sent", "created", "running", "replied", "lost"}]
        /\ \A q \in Requests : q # r => req'[q] = req[q]
        /\ req[r] = "sent" /\ req'[r] \in {"replied", "lost", "created"}
    BY <2>1, <2>2, <2>3 DEF IInv, TypeOK
  <2>5. UnreadAreSent' /\ inbox' \in [Conns -> Seq(Requests \cup Other)]
    BY <2>1, <2>4, TakenLeavesRest DEF IInv, r
  <2>6. CountIsExact' /\ DrainsAreDone' /\ count' \in 0..Cardinality(Requests)
    <3>1. \A q \in Requests : req'[q] = req[q] \/ (req[q] = "sent" /\ req'[q] # "running")
      BY <2>4
    <3> QED BY <2>1, <3>1, RunningStays DEF IInv
  <2>7. /\ deaf' \subseteq Conns
        /\ loop' \in {loop, [loop EXCEPT ![c] = "answering"], [loop EXCEPT ![c] = "reading"]}
    BY <1>5, WriteTyped DEF ReadRequest, Answers, IInv, TypeOK
  <2>8. TypeOK' /\ LoopsAreSound'
    <3>1. loop' \in [Conns -> Loops]
      BY <2>7 DEF IInv, TypeOK, Loops
    <3>2. TypeOK'
      BY <2>1, <2>4, <2>5, <2>6, <2>7, <3>1 DEF IInv, TypeOK, server
    <3>3. LoopsAreSound'
      BY <2>1, <2>7 DEF IInv, TypeOK, LoopsAreSound, server
    <3> QED BY <3>2, <3>3
  <2>9. CastsAreSound'
    <3>1. \A d \in Conns : loop[d] # "none" => loop'[d] # "none"
      BY <2>1, <2>7 DEF IInv, TypeOK
    <3> QED BY <2>1, <3>1, CastsStay DEF IInv
  <2>10. ListedAreServed' /\ ServedAreListed'
    BY <2>1, <2>7 DEF IInv, TypeOK, ListedAreServed, ServedAreListed, Serving
  <2> QED BY <2>5, <2>6, <2>8, <2>9, <2>10 DEF IInv
<1> QED BY <1>1, <1>2, <1>3, <1>4, <1>5 DEF LoopStep

(* ... of the request tasks ...                                              *)
LEMMA TasksStep ==
  ASSUME IInv, NEW r \in Requests, TaskStep(r)
  PROVE  IInv'
<1>1. UNCHANGED <<server, eof, links, cast>> /\ deaf' \subseteq Conns
  <2>1. Home[r] \in Conns
    BY ServerAssumption
  <2> QED BY <2>1, WriteTyped DEF TaskStep, BeginRequest, EndRequest, ReplyDrained, peers, IInv, TypeOK
<1>2. \/ req[r] = "created" /\ req' = [req EXCEPT ![r] = "running"] /\ count' = count + 1
         /\ UNCHANGED drains
      \/ /\ req[r] = "running"
         /\ req' = [req EXCEPT ![r] = "replied"] \/ req' = [req EXCEPT ![r] = "lost"]
         /\ \/ drains' = drains \cup {r} /\ UNCHANGED count
            \/ count' = count - 1 /\ UNCHANGED drains
      \/ r \in drains /\ UNCHANGED req /\ drains' = drains \ {r} /\ count' = count - 1
  BY DEF TaskStep, BeginRequest, EndRequest, Written, ReplyDrained
<1>3. req \in [Requests -> {"idle", "sent", "created", "running", "replied", "lost"}]
      /\ drains \subseteq Requests
  BY DEF IInv, TypeOK
<1>4. req' \in [Requests -> {"idle", "sent", "created", "running", "replied", "lost"}]
      /\ drains' \subseteq Requests
  BY <1>2, <1>3
<1>5. \A q \in Requests : req[q] = "sent" => req'[q] = "sent"
  BY <1>2, <1>3
<1>6. UnreadAreSent'
  BY <1>1, <1>5 DEF IInv, UnreadAreSent, links
<1>7. DrainsAreDone'
  BY <1>2, <1>3 DEF IInv, DrainsAreDone
<1>8. /\ IsFiniteSet(Running) /\ Cardinality(Running) \in 0..Cardinality(Requests)
      /\ Cardinality(Running') \in 0..Cardinality(Requests)
  <2>1. Running \subseteq Requests /\ Running' \subseteq Requests
    BY <1>3, <1>4 DEF Running
  <2> QED BY <2>1, RunningTyped
<1>9. \/ Running' = Running \cup {r} /\ r \notin Running /\ count' = count + 1
      \/ Running' = Running /\ UNCHANGED count
      \/ Running' = Running \ {r} /\ r \in Running /\ count' = count - 1
  BY <1>2, <1>3 DEF Running, IInv, DrainsAreDone
<1>10. Cardinality(Running') = count'
  <2>1. count = Cardinality(Running)
    BY DEF IInv, CountIsExact, Running
  <2>2. CASE Running' = Running \cup {r} /\ r \notin Running /\ count' = count + 1
    BY <1>8, <2>1, <2>2, FS_AddElement
  <2>3. CASE Running' = Running /\ UNCHANGED count
    BY <2>1, <2>3
  <2>4. CASE Running' = Running \ {r} /\ r \in Running /\ count' = count - 1
    BY <1>8, <2>1, <2>4, FS_RemoveElement
  <2> QED BY <1>9, <2>2, <2>3, <2>4
<1>11. CountIsExact' /\ count' \in 0..Cardinality(Requests)
  BY <1>8, <1>10 DEF CountIsExact, Running
<1>12. TypeOK' /\ LoopsAreSound' /\ CastsAreSound' /\ ListedAreServed' /\ ServedAreListed'
  BY <1>1, <1>4, <1>11
  DEF IInv, TypeOK, LoopsAreSound, CastsAreSound, ListedAreServed, ServedAreListed, Serving,
      server, links
<1> QED BY <1>6, <1>7, <1>11, <1>12 DEF IInv

(* ... and of the broadcasts.                                                *)
LEMMA CastsStep ==
  ASSUME IInv, NEW e \in Events, CastBegins(e) \/ CastStep(e)
  PROVE  IInv'
<1>1. CASE CastBegins(e) \/ CastWrites(e) \/ CastWakes(e)
  <2>1. /\ UNCHANGED <<server, eof, links, work>> /\ \A d \in Events \ {e} : cast'[d] = cast[d]
        /\ cast' \in [Events -> Casts] /\ deaf' \subseteq Conns
    BY <1>1, CastBeginsAs, CastGoesOnAs DEF IInv
  <2>2. /\ \A c \in cast'[e].rest \cup cast'[e].waits \cup cast'[e].dead : loop[c] # "none"
        /\ cast'[e].dead \cap (up \ eof) = {}
    <3>1. CASE CastBegins(e)
      <4>1. /\ cast'[e].rest \cup cast'[e].waits \cup cast'[e].dead \subseteq clients
            /\ cast'[e].dead \cap (up \ eof) = {}
        BY <3>1, CastBeginsAs DEF IInv
      <4>2. \A c \in clients : loop[c] # "none"
        BY DEF IInv, ListedAreServed, Serving
      <4> QED BY <4>1, <4>2
    <3>2. CASE CastWrites(e) \/ CastWakes(e)
      <4>1. /\ cast'[e].rest \cup cast'[e].waits \cup cast'[e].dead
                  \subseteq cast[e].rest \cup cast[e].waits \cup cast[e].dead
            /\ \A c \in cast'[e].dead : c \in cast[e].dead \/ c \in eof \/ c \notin up
        BY <3>2, CastGoesOnAs DEF IInv, Gone
      <4> QED BY <4>1 DEF IInv, CastsAreSound
    <3> QED BY <1>1, <3>1, <3>2
  <2>3. TypeOK'
    BY <2>1 DEF IInv, TypeOK, server, links, work
  <2>4. CastsAreSound'
    BY <2>1, <2>2 DEF IInv, CastsAreSound, links
  <2>5. UNCHANGED <<inbox, work>>
    BY <2>1 DEF links
  <2>6. LoopsAreSound' /\ ListedAreServed' /\ ServedAreListed'
    BY <2>1 DEF IInv, LoopsAreSound, ListedAreServed, ServedAreListed, Serving, server, links
  <2> QED BY <2>3, <2>4, <2>5, <2>6, RequestsStay DEF IInv
<1>3. CASE CastRaises(e) \/ CastEnds(e)
  <2>1. /\ UNCHANGED <<server, eof, deaf, loop, shaken, up, inbox, tasks, work>>
        /\ cast' = [cast EXCEPT ![e] = Walk("over")]
        /\ clients' = clients \/ clients' = clients \ cast[e].dead
    BY <1>3 DEF CastRaises, CastEnds, links, peers
  <2>2. TypeOK'
    <3>1. Walk("over") \in Casts
      BY DEF Walk, Casts
    <3> QED BY <2>1, <3>1 DEF IInv, TypeOK, server, work
  <2>3. CastsAreSound'
    BY <2>1 DEF IInv, TypeOK, CastsAreSound, Walk
  <2>4. LoopsAreSound' /\ ListedAreServed' /\ ServedAreListed'
    BY <2>1 DEF IInv, LoopsAreSound, CastsAreSound, ListedAreServed, ServedAreListed, Serving, server
  <2> QED BY <2>1, <2>2, <2>3, <2>4, RequestsStay DEF IInv
<1> QED BY <1>1, <1>3 DEF CastStep

-----------------------------------------------------------------------------
(* So it holds throughout.                                                   *)
LEMMA Invariance == Spec => []IInv
<1>1. Init => IInv
  <2> SUFFICES ASSUME Init PROVE IInv
    OBVIOUS
  <2>1. Running = {} /\ CountIsExact /\ count \in 0..Cardinality(Requests)
    <3>1. Running = {} /\ count = 0
      BY DEF Init, Running
    <3>2. Cardinality(Requests) \in Nat /\ Cardinality({}) = 0
      BY FS_EmptySet, FS_CardinalityType, ServerAssumption
    <3> QED BY <3>1, <3>2 DEF Running, CountIsExact
  <2>2. TypeOK
    <3>1. inbox \in [Conns -> Seq(Requests \cup Other)]
      BY DEF Init
    <3>2. cast \in [Events -> Casts]
      BY DEF Init, Walk, Casts
    <3> QED BY <2>1, <3>1, <3>2 DEF Init, TypeOK, Loops
  <2> QED BY <2>1, <2>2 DEF Init, IInv, UnreadAreSent, DrainsAreDone, LoopsAreSound, CastsAreSound,
                            ListedAreServed, ServedAreListed, Walk
<1>2. IInv /\ [Next]_vars => IInv'
  <2> SUFFICES ASSUME IInv, [Next]_vars PROVE IInv'
    OBVIOUS
  <2>1. CASE UNCHANGED vars
    <3>1. UNCHANGED <<inbox, work>>
      BY <2>1 DEF vars, links
    <3> QED BY <2>1, <3>1, RequestsStay
            DEF vars, server, peers, links, work, IInv, TypeOK, LoopsAreSound, CastsAreSound,
                ListedAreServed, ServedAreListed, Serving
  <2>2. CASE Next
    BY <2>2, ServerStep, ClientsStep, LoopsStep, TasksStep, CastsStep DEF Next
  <2> QED BY <2>1, <2>2
<1> QED BY <1>1, <1>2, PTL DEF Spec

(* The server's types (ipc/server.py).                                       *)
THEOREM Typing == Spec => []TypeOK
<1>1. IInv => TypeOK
  BY DEF IInv
<1> QED BY <1>1, Invariance, PTL

(* The counter is exact, whoever is listed is served, and whoever is served  *)
(* is listed, however clients, broadcasts and stop() interleave.             *)
THEOREM Books == Spec => []BooksAreRight
<1>1. IInv => BooksAreRight
  BY DEF IInv, BooksAreRight, ServedAreListed
<1> QED BY <1>1, Invariance, PTL

-----------------------------------------------------------------------------
(* What a caller hears of a request in each of its states.                   *)
LEMMA HeardIs ==
  /\ Heard("idle") = "new"
  /\ \A s \in {"sent", "created", "running"} : Heard(s) = "waiting"
  /\ Heard("replied") = "answered"
  /\ Heard("lost") = "closed"
<1>1. Heard("idle") = "new" /\ Heard("lost") = "closed"
  BY DEF Heard
<1>2. Heard("replied") = "answered"
  BY DEF Heard
<1>3. Heard("sent") = "waiting" /\ Heard("created") = "waiting" /\ Heard("running") = "waiting"
  BY DEF Heard
<1> QED BY <1>1, <1>2, <1>3

(* Requests that are lost together are given up on.                          *)
LEMMA LostAreGivenUp ==
  ASSUME TypeOK, TypeOK',
         \A r \in Requests :
           req'[r] = req[r] \/ (req[r] \in {"sent", "created", "running"} /\ req'[r] = "lost")
  PROVE  Promise!GiveUp
<1> DEFINE stage == [r \in Requests |-> Heard(req[r])]
<1>1. \A r \in Requests : Heard(req'[r]) \in Promise!Stage
  <2>1. \A r \in Requests :
          req'[r] \in {"idle", "sent", "created", "running", "replied", "lost"}
    BY DEF TypeOK
  <2>2. \A r \in Requests : Heard(req'[r]) \in {"new", "waiting", "answered", "closed"}
    BY HeardIs, <2>1
  <2> QED BY <2>1, <2>2, SMT DEF Promise!Stage, Promise!Error
<1>2. stage' \in [Requests -> Promise!Stage]
  BY <1>1
<1>3. \A r \in Requests :
        stage'[r] = stage[r] \/ (stage[r] = "waiting" /\ stage'[r] \in Promise!Error)
  BY HeardIs DEF Promise!Error
<1>4. \A r \in Requests : req'[r] = "replied" <=> req[r] = "replied"
  OBVIOUS
<1> QED BY <1>2, <1>3, <1>4 DEF Promise!GiveUp

(* A request that the server has in hand is answered, lost, or still waited  *)
(* for.                                                                      *)
LEMMA OneGoesOn ==
  ASSUME TypeOK, TypeOK', NEW r \in Requests,
         \A q \in Requests : q # r => req'[q] = req[q],
         req[r] \in {"sent", "created", "running"},
         req'[r] \in {"created", "running", "replied", "lost"}
  PROVE  [Promise!Next]_(Promise!vars)
<1> DEFINE stage == [q \in Requests |-> Heard(req[q])]
           replied == {q \in Requests : req[q] = "replied"}
<1>1. CASE req'[r] = "lost"
  BY <1>1, LostAreGivenUp DEF Promise!Next
<1>2. CASE req'[r] \in {"created", "running"}
  <2>1. \A q \in Requests : Heard(req'[q]) = Heard(req[q])
    BY <1>2, HeardIs
  <2>2. \A q \in Requests : req'[q] = "replied" <=> req[q] = "replied"
    BY <1>2
  <2>3. stage' = stage /\ replied' = replied
    BY <2>1, <2>2
  <2> QED BY <2>3 DEF Promise!vars
<1>3. CASE req'[r] = "replied"
  <2>1. stage[r] = "waiting" /\ r \notin replied
    BY HeardIs
  <2>2. replied' = replied \cup {r}
    BY <1>3
  <2>3. stage' = [stage EXCEPT ![r] = "answered"]
    BY <1>3, HeardIs
  <2>4. Promise!Reply(r)
    BY <2>1, <2>2, <2>3 DEF Promise!Reply
  <2> QED BY <2>4 DEF Promise!Next
<1> QED BY <1>1, <1>2, <1>3

(* What each step of the server is to the callers.                           *)
LEMMA StepIsPromised ==
  ASSUME IInv, IInv', [Next]_vars
  PROVE  [Promise!Next]_(Promise!vars)
<1> USE DEF IInv
<1> DEFINE stage == [q \in Requests |-> Heard(req[q])]
           replied == {q \in Requests : req[q] = "replied"}
<1>1. ASSUME UNCHANGED req PROVE [Promise!Next]_(Promise!vars)
  BY <1>1 DEF Promise!vars
<1>2. ASSUME NEW S, req' = Unread(S) PROVE [Promise!Next]_(Promise!vars)
  <2>1. \A r \in Requests : req'[r] = req[r] \/ (req[r] = "sent" /\ req'[r] = "lost")
    BY <1>2 DEF Unread
  <2> QED BY <2>1, LostAreGivenUp DEF Promise!Next
<1>3. ASSUME NEW c \in Conns, NEW f \in Requests, ClientSends(c, f)
      PROVE  [Promise!Next]_(Promise!vars)
  <2>1. req[f] = "idle" /\ req' = [req EXCEPT ![f] = "sent"]
    BY <1>3 DEF ClientSends
  <2>2. req'[f] = "sent" /\ \A q \in Requests : q # f => req'[q] = req[q]
    BY <2>1 DEF TypeOK
  <2>3. stage[f] = "new" /\ stage' = [stage EXCEPT ![f] = "waiting"]
    <3>1. Heard(req[f]) = "new" /\ Heard(req'[f]) = "waiting"
      BY <2>1, <2>2, HeardIs
    <3>2. \A q \in Requests : q # f => Heard(req'[q]) = Heard(req[q])
      BY <2>2
    <3> QED BY <3>1, <3>2
  <2>4. replied' = replied
    BY <2>1, <2>2
  <2>5. Promise!Ask(f)
    BY <2>3, <2>4 DEF Promise!Ask
  <2> QED BY <2>5 DEF Promise!Next
<1>4. ASSUME NEW c \in Conns, ReadRequest(c) PROVE [Promise!Next]_(Promise!vars)
  <2> DEFINE r == Head(inbox[c])
  <2>1. r \in Requests /\ inbox[c] # <<>>
    BY <1>4 DEF ReadRequest
  <2>2. req[r] = "sent"
    BY <2>1, HeadTail DEF UnreadAreSent
  <2> HIDE DEF r
  <2>3. \E to \in {"replied", "lost", "created"} : req' = [req EXCEPT ![r] = to]
    BY <1>4 DEF ReadRequest, Written, r
  <2>4. /\ req'[r] \in {"replied", "lost", "created"}
        /\ \A q \in Requests : q # r => req'[q] = req[q]
    BY <2>1, <2>3 DEF TypeOK
  <2> QED BY <2>1, <2>2, <2>4, OneGoesOn
<1>5. ASSUME NEW r \in Requests, TaskStep(r) PROVE [Promise!Next]_(Promise!vars)
  <2>1. CASE ReplyDrained(r)
    BY <1>1, <2>1 DEF ReplyDrained
  <2>2. CASE BeginRequest(r) \/ EndRequest(r)
    <3>1. /\ req[r] \in {"created", "running"} /\ req'[r] \in {"running", "replied", "lost"}
          /\ \A q \in Requests : q # r => req'[q] = req[q]
      BY <2>2 DEF BeginRequest, EndRequest, Written, TypeOK
    <3> QED BY <3>1, OneGoesOn
  <2> QED BY <1>5, <2>1, <2>2 DEF TaskStep
<1>6. CASE Start \/ StopBegins \/ StopStep
  <2>1. UNCHANGED req \/ \E S : req' = Unread(S)
    BY <1>6 DEF Start, StopBegins, StopStep, StopCancels, StopForgets, StopEnds, StopCloses, work
  <2> QED BY <2>1, <1>1, <1>2
<1>7. ASSUME NEW c \in Conns, ClientStep(c) PROVE [Promise!Next]_(Promise!vars)
  <2>1. \/ UNCHANGED req \/ req' = Unread({c})
        \/ \E f \in Requests : ClientSends(c, f)
    BY <1>7 DEF ClientStep, ClientConnects, ClientCloses, ClientReads, ConnectionResets, Leave,
                ClientSends, work
  <2> QED BY <2>1, <1>1, <1>2, <1>3
<1>8. ASSUME NEW c \in Conns, LoopStep(c) PROVE [Promise!Next]_(Promise!vars)
  <2>1. UNCHANGED req \/ req' = Unread({c}) \/ ReadRequest(c)
    BY <1>8 DEF LoopStep, ReadEnd, ReadFatal, Leave, ReadHandshake, LoopDrained, Greeted, Answered,
                ReadInvalid, LoopEnds, work
  <2> QED BY <2>1, <1>1, <1>2, <1>4
<1>9. ASSUME NEW e \in Events, CastBegins(e) \/ CastStep(e) PROVE UNCHANGED req
  BY <1>9 DEF CastBegins, CastStep, CastWakes, CastWrites, CastRaises, CastEnds, work
<1>10. CASE UNCHANGED vars
  BY <1>1, <1>10 DEF vars, work
<1> QED BY <1>1, <1>5, <1>6, <1>7, <1>8, <1>9, <1>10 DEF Next

(* The server implements the request and reply that the gateway's client     *)
(* implements at the other end: whatever clients, broadcasts and stop() do,  *)
(* each request gets one reply or none, and no reply is taken back.          *)
THEOREM ImplementsRequestReply == Spec => Promise!Steps
<1>1. Init => Promise!Init
  BY HeardIs DEF Init, Promise!Init
<1>2. IInv /\ IInv' /\ [Next]_vars => [Promise!Next]_(Promise!vars)
  BY StepIsPromised
<1> QED BY <1>1, <1>2, Invariance, PTL DEF Spec, Promise!Steps
=============================================================================
