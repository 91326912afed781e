------------------------------- MODULE IPCServer -------------------------------
(* IPCServer of the Python core (jarvis/ipc/server.py): start and stop, one  *)
(* loop per client connection, one task per request, and the broadcast of    *)
(* events.  asyncio switches between them only where an await really waits;  *)
(* a frame that is already buffered is read, and a reply is written, without *)
(* switching, so a step may be followed at once by the next of the same      *)
(* coroutine: every such order is among the interleavings below.             *)
EXTENDS Naturals, Sequences, FiniteSets

CONSTANTS
  Conns,            \* client connections, each used once
  Requests,         \* request frames, each sent once
  Events,           \* events the bus hands over, each once
  MaxConcurrent,    \* max_concurrent_requests
  Home,             \* the connection that each request is sent over
  MaxInbox,         \* bound: frames of a connection waiting to be read
  Sends,            \* bound: what each client sends besides requests
  Fickle,           \* bound: connections whose clients may close or stop reading
  WaitsForClients   \* asyncio.Server.wait_closed waits for the connections
                    \* that are still up (Python >= 3.12) or returns at once

ASSUME ServerAssumption ==
  /\ IsFiniteSet(Conns) /\ IsFiniteSet(Requests)
  /\ Home \in [Requests -> Conns]
  /\ MaxConcurrent \in Nat /\ MaxInbox \in Nat /\ WaitsForClients \in BOOLEAN
  /\ Fickle \subseteq Conns

(* What a client may send besides requests: a handshake, a line that is no   *)
(* JSON object, and a line longer than the 64 KiB that asyncio.start_server  *)
(* lets a reader hold.  A JSON object that is no JarvisRequest, or asks for  *)
(* another version, ends the connection like the last of them when it comes  *)
(* first and is answered like the second later.                              *)
Other == {"handshake", "notJson", "overrun"}

ASSUME FramesAssumption == Requests \cap Other = {}

VARIABLES
  state,      \* self._state
  stop,       \* where stop() waits: "no", "closing", "gathering", "waiting"
  todo,       \* stop(): writers still to close, or tasks gathered
  closes,     \* stop(): the connection whose wait_closed() it awaits, if any
  listening,  \* the listening socket is open
  loop,       \* each connection's _client_loop: "none", "reading", "greeting"
              \* (writing the handshake's reply), "answering" (in the drain of an
              \* error reply), "leaving" (in its finally), "gone"
  shaken,     \* connections whose is_handshake_done is set
  up,         \* connections whose transport is open
  eof,        \* connections whose client has closed its end
  deaf,       \* connections whose client does not read and whose transport's buffer
              \* is over the high-water mark: drain() and wait_closed() wait
  inbox,      \* per connection: the frames received
  clients,    \* _active_clients
  tasks,      \* _client_tasks
  req,        \* each request: "idle", "sent", "created", "running"; "replied" (the
              \* router's reply, REQUEST_TIMEOUT, INTERNAL_ERROR or SERVER_BUSY), or
              \* "lost": its connection went first
  drains,     \* requests whose task has written its reply and waits in drain()
  count,      \* _active_requests
  cast        \* each event: its broadcast_event

server == <<state, stop, todo, closes, listening>>
peers == <<eof, deaf>>
links == <<loop, shaken, up, inbox, clients, tasks>>
work == <<req, drains, count>>
vars == <<server, peers, links, work, cast>>

Loops == {"none", "reading", "greeting", "answering", "leaving", "gone"}

(* A broadcast: whom it has still to write to, how many they were, whose     *)
(* drain it waits for and who could not be written to.                       *)
Casts == [at : {"idle", "going", "over"}, rest : SUBSET Conns, size : Nat,
          waits : SUBSET Conns, dead : SUBSET Conns]

Walk(at) == [at |-> at, rest |-> {}, size |-> 0, waits |-> {}, dead |-> {}]

TypeOK ==
  /\ state \in {"DISCONNECTED", "CONNECTED", "STOPPING", "STOPPED"}
  /\ stop \in {"no", "closing", "gathering", "waiting"}
  /\ todo \subseteq Conns /\ closes \subseteq Conns
  /\ listening \in BOOLEAN
  /\ loop \in [Conns -> Loops]
  /\ shaken \subseteq Conns /\ up \subseteq Conns
  /\ eof \subseteq Conns /\ deaf \subseteq Conns
  /\ inbox \in [Conns -> Seq(Requests \cup Other)]
  /\ clients \subseteq Conns /\ tasks \subseteq Conns
  /\ req \in [Requests -> {"idle", "sent", "created", "running", "replied", "lost"}]
  /\ drains \subseteq Requests
  /\ count \in 0..Cardinality(Requests)
  /\ cast \in [Events -> Casts]

Init ==
  /\ state = "DISCONNECTED" /\ stop = "no" /\ todo = {} /\ closes = {}
  /\ listening = FALSE
  /\ loop = [c \in Conns |-> "none"]
  /\ shaken = {} /\ up = {} /\ eof = {} /\ deaf = {}
  /\ inbox = [c \in Conns |-> <<>>]
  /\ clients = {} /\ tasks = {}
  /\ req = [r \in Requests |-> "idle"] /\ drains = {} /\ count = 0
  /\ cast = [e \in Events |-> Walk("idle")]

-----------------------------------------------------------------------------
(* The clients.                                                              *)

ClientConnects(c) ==
  /\ listening /\ loop[c] = "none"
  /\ loop' = [loop EXCEPT ![c] = "reading"]
  /\ up' = up \cup {c} /\ tasks' = tasks \cup {c}
  /\ UNCHANGED <<server, peers, shaken, inbox, clients, work, cast>>

(* The gateway sends requests only over a connection whose handshake was     *)
(* answered; whatever else comes first is like an overrun.                   *)
ClientSends(c, f) ==
  /\ c \in up \ eof /\ Len(inbox[c]) < MaxInbox /\ f \in Requests \cup Sends[c]
  /\ inbox' = [inbox EXCEPT ![c] = Append(@, f)]
  /\ IF f \in Requests
       THEN req[f] = "idle" /\ Home[f] = c /\ c \in shaken /\ req' = [req EXCEPT ![f] = "sent"]
       ELSE UNCHANGED req
  /\ UNCHANGED <<server, peers, loop, shaken, up, clients, tasks, drains, count, cast>>

ClientCloses(c) ==
  /\ c \in (up \cap Fickle) \ eof
  /\ eof' = eof \cup {c}
  /\ UNCHANGED <<server, deaf, links, work, cast>>

(* The client reads again, or its connection is lost: the buffer empties and *)
(* everybody who waits for it is woken.                                      *)
ClientReads(c) ==
  /\ c \in deaf
  /\ deaf' = deaf \ {c}
  /\ UNCHANGED <<server, eof, links, work, cast>>

-----------------------------------------------------------------------------
(* write_frame                                                               *)

(* A write to a client that does not read may take the buffer over its mark. *)
Write(c) == deaf' \in {deaf} \cup {deaf \cup {x} : x \in {c} \cap up \cap Fickle}

Written(c, reply) == IF c \in up \ eof THEN reply ELSE "lost"

-----------------------------------------------------------------------------
(* _client_loop                                                              *)

(* The requests that the loops of S never read are lost with them.           *)
Unread(S) ==
  [r \in Requests |-> IF req[r] = "sent" /\ Home[r] \in S THEN "lost" ELSE req[r]]

(* The writer stays listed.                                                  *)
Mutant_Leave(c) ==
  /\ loop' = [loop EXCEPT ![c] = "leaving"]
  /\ up' = up \ {c}
  /\ inbox' = [inbox EXCEPT ![c] = <<>>]
  /\ req' = Unread({c})
  /\ UNCHANGED <<shaken, clients, tasks, drains, count>>

(* The loop ends and its finally begins.                                     *)
Leave(c) ==
  /\ loop' = [loop EXCEPT ![c] = "leaving"]
  /\ clients' = clients \ {c} /\ up' = up \ {c}
  /\ inbox' = [inbox EXCEPT ![c] = <<>>]
  /\ req' = Unread({c})
  /\ UNCHANGED <<shaken, tasks, drains, count>>

(* Nothing more to read: the client is gone, or stop() closed the transport. *)
ReadEnd(c) ==
  /\ loop[c] = "reading" /\ inbox[c] = <<>> /\ (c \in eof \/ c \notin up)
  /\ Leave(c)
  /\ UNCHANGED <<server, peers, cast>>

(* A client that goes may reset its connection: the read or the drain that   *)
(* the loop awaits raises ConnectionResetError, whatever is still unread.    *)
ConnectionResets(c) ==
  /\ loop[c] \in {"reading", "greeting", "answering"} /\ c \in eof
  /\ deaf' = deaf \ {c}
  /\ Leave(c)
  /\ UNCHANGED <<server, eof, cast>>

(* After refusing a handshake, after any other first message, and on a frame *)
(* that read_frame raises on, the connection is closed.                      *)
FatalFrame(c, f) ==
  \/ f = "overrun"
  \/ c \notin shaken /\ f \notin {"handshake", "notJson"}

(* The refusal is written before, but while it waits to be drained the loop  *)
(* does nothing that its finally would not wait for, too.                    *)
ReadFatal(c) ==
  /\ loop[c] = "reading" /\ inbox[c] # <<>> /\ FatalFrame(c, Head(inbox[c]))
  /\ Leave(c)
  /\ UNCHANGED <<server, peers, cast>>

(* The handshake's reply is written before the client is listed.             *)
ReadHandshake(c) ==
  /\ loop[c] = "reading" /\ inbox[c] # <<>> /\ c \notin shaken
  /\ Head(inbox[c]) = "handshake"
  /\ inbox' = [inbox EXCEPT ![c] = Tail(@)]
  /\ loop' = [loop EXCEPT ![c] = "greeting"]
  /\ Write(c)
  /\ UNCHANGED <<server, eof, shaken, up, clients, tasks, work, cast>>

Greeted(c) ==
  /\ loop[c] = "greeting" /\ c \notin deaf
  /\ loop' = [loop EXCEPT ![c] = "reading"]
  /\ shaken' = shaken \cup {c} /\ clients' = clients \cup {c}
  /\ UNCHANGED <<server, peers, up, inbox, tasks, work, cast>>

(* The loop writes a reply itself, and reads no further until it is drained. *)
Answers(c) ==
  /\ Write(c)
  /\ loop' = [loop EXCEPT ![c] = IF c \in deaf' THEN "answering" ELSE "reading"]

Answered(c) ==
  /\ loop[c] = "answering" /\ c \notin deaf
  /\ loop' = [loop EXCEPT ![c] = "reading"]
  /\ UNCHANGED <<server, peers, shaken, up, inbox, clients, tasks, work, cast>>

(* An error reply, and on to the next frame; a second handshake is one more  *)
(* request that the router knows no method for.                              *)
ReadInvalid(c) ==
  /\ loop[c] = "reading" /\ inbox[c] # <<>> /\ ~FatalFrame(c, Head(inbox[c]))
  /\ Head(inbox[c]) \in Other /\ (Head(inbox[c]) = "handshake" => c \in shaken)
  /\ inbox' = [inbox EXCEPT ![c] = Tail(@)]
  /\ Answers(c)
  /\ UNCHANGED <<server, eof, shaken, up, clients, tasks, work, cast>>

(* At the limit the frame is skipped.                                        *)
Mutant_ReadRequest(c) ==
  /\ loop[c] = "reading" /\ inbox[c] # <<>> /\ c \in shaken
  /\ LET r == Head(inbox[c]) IN
       /\ r \in Requests
       /\ req' = IF count >= MaxConcurrent THEN req ELSE [req EXCEPT ![r] = "created"]
  /\ inbox' = [inbox EXCEPT ![c] = Tail(@)]
  /\ UNCHANGED <<server, peers, loop, shaken, up, clients, tasks, drains, count, cast>>

(* At the limit: SERVER_BUSY.  Below it a task is created, which counts      *)
(* itself when it first runs.                                                *)
ReadRequest(c) ==
  /\ loop[c] = "reading" /\ inbox[c] # <<>> /\ c \in shaken
  /\ LET r == Head(inbox[c]) IN
       /\ r \in Requests
       /\ IF count >= MaxConcurrent
            THEN req' = [req EXCEPT ![r] = Written(c, "replied")] /\ Answers(c)
            ELSE req' = [req EXCEPT ![r] = "created"] /\ UNCHANGED <<deaf, loop>>
  /\ inbox' = [inbox EXCEPT ![c] = Tail(@)]
  /\ UNCHANGED <<server, eof, shaken, up, clients, tasks, drains, count, cast>>

(* wait_closed() is over: the loop's task is done and discarded, and its     *)
(* locals with it.                                                           *)
LoopEnds(c) ==
  /\ loop[c] = "leaving" /\ c \notin deaf
  /\ loop' = [loop EXCEPT ![c] = "gone"]
  /\ tasks' = tasks \ {c} /\ shaken' = shaken \ {c} /\ eof' = eof \ {c}
  /\ UNCHANGED <<server, deaf, up, inbox, clients, work, cast>>

-----------------------------------------------------------------------------
(* _process_request                                                          *)

(* The limit is counted down but never up.                                   *)
Mutant_BeginRequest(r) ==
  /\ req[r] = "created"
  /\ req' = [req EXCEPT ![r] = "running"]
  /\ UNCHANGED <<server, peers, links, drains, count, cast>>

BeginRequest(r) ==
  /\ req[r] = "created"
  /\ req' = [req EXCEPT ![r] = "running"]
  /\ count' = count + 1
  /\ UNCHANGED <<server, peers, links, drains, cast>>

(* Counting down after the reply is written, not in a finally.               *)
Mutant_EndRequest(r) ==
  /\ req[r] = "running"
  /\ req' = [req EXCEPT ![r] = Written(Home[r], "replied")]
  /\ count' = IF req'[r] = "lost" THEN count ELSE count - 1
  /\ UNCHANGED <<server, peers, links, drains, cast>>

(* The router's reply, REQUEST_TIMEOUT or INTERNAL_ERROR is written; when    *)
(* the client is gone that is lost or raises, and the finally counts down    *)
(* all the same.  No timeout is over the drain: a client that does not read  *)
(* keeps the task there, counted.                                            *)
EndRequest(r) ==
  /\ req[r] = "running"
  /\ req' = [req EXCEPT ![r] = Written(Home[r], "replied")]
  /\ Write(Home[r])
  /\ IF Home[r] \in deaf'
       THEN drains' = drains \cup {r} /\ UNCHANGED count
       ELSE count' = count - 1 /\ UNCHANGED drains
  /\ UNCHANGED <<server, eof, links, cast>>

ReplyDrained(r) ==
  /\ r \in drains /\ Home[r] \notin deaf
  /\ drains' = drains \ {r} /\ count' = count - 1
  /\ UNCHANGED <<server, peers, links, req, cast>>

-----------------------------------------------------------------------------
(* broadcast_event, one bus dispatch task per event.  It walks the live set  *)
(* of clients and may be suspended after each write, for as long as the      *)
(* client written to does not read.                                          *)

Gone(c) == c \in eof \/ c \notin up

(* The walk after a write to c, which raises only on a transport that is     *)
(* closed or losing its client.                                              *)
AfterWrite(walk, c) ==
  {[walk EXCEPT !.rest = @ \ {c}, !.waits = {x} \cap deaf'] : x \in {c} \cap clients}
    \cup {[walk EXCEPT !.rest = @ \ {c}, !.dead = @ \cup {x}] : x \in {y \in {c} : Gone(y)}}

(* The first write follows at once.                                          *)
CastBegins(e) ==
  /\ cast[e].at = "idle" /\ state # "DISCONNECTED"
  /\ \/ clients = {} /\ cast' = [cast EXCEPT ![e] = Walk("over")] /\ UNCHANGED deaf
     \/ \E c \in clients :
          /\ Write(c)
          /\ \E walk \in
               AfterWrite([Walk("going") EXCEPT !.rest = clients, !.size = Cardinality(clients)], c) :
                 cast' = [cast EXCEPT ![e] = walk]
  /\ UNCHANGED <<server, eof, links, work>>

(* The client whose drain the walk waits for reads again, or is lost.        *)
CastWakes(e) ==
  /\ cast[e].waits # {} /\ cast[e].waits \cap deaf = {}
  /\ \E lost \in SUBSET {c \in cast[e].waits : Gone(c)} :
       cast' = [cast EXCEPT ![e].waits = {}, ![e].dead = @ \cup lost]
  /\ UNCHANGED <<server, peers, links, work>>

(* The walk goes on; the set it walks may have changed size meanwhile.       *)
Walks(e) == cast[e].at = "going" /\ cast[e].waits = {}

SameSize(e) == Cardinality(clients) = cast[e].size

CastWrites(e) ==
  /\ Walks(e) /\ SameSize(e)
  /\ \E c \in cast[e].rest :
       /\ Write(c)
       /\ \E walk \in AfterWrite(cast[e], c) : cast' = [cast EXCEPT ![e] = walk]
  /\ UNCHANGED <<server, eof, links, work>>

(* Whoever was not reached is taken for dead.                                *)
Mutant_CastRaises(e) ==
  /\ Walks(e) /\ ~SameSize(e)
  /\ cast' = [cast EXCEPT ![e] = Walk("over")]
  /\ clients' = clients \ cast[e].rest
  /\ UNCHANGED <<server, peers, loop, shaken, up, inbox, tasks, work>>

(* The set changed size while it was walked: RuntimeError, which the bus     *)
(* logs.  Whoever was still to come does not get the event, and who could    *)
(* not be written to stays listed.                                           *)
CastRaises(e) ==
  /\ Walks(e) /\ ~SameSize(e)
  /\ cast' = [cast EXCEPT ![e] = Walk("over")]
  /\ UNCHANGED <<server, peers, links, work>>

CastEnds(e) ==
  /\ Walks(e) /\ SameSize(e) /\ cast[e].rest = {}
  /\ cast' = [cast EXCEPT ![e] = Walk("over")]
  /\ clients' = clients \ cast[e].dead
  /\ UNCHANGED <<server, peers, loop, shaken, up, inbox, tasks, work>>

-----------------------------------------------------------------------------
Start ==
  /\ state = "DISCONNECTED"
  /\ state' = "CONNECTED" /\ listening' = TRUE
  /\ UNCHANGED <<stop, todo, closes, peers, links, work, cast>>

StopBegins ==
  /\ state = "CONNECTED"
  /\ state' = "STOPPING" /\ stop' = "closing" /\ todo' = clients
  /\ UNCHANGED <<closes, listening, peers, links, work, cast>>

(* One writer after the other is closed and waited for, until its buffer has *)
(* been flushed.                                                             *)
StopCloses(c) ==
  /\ stop = "closing" /\ closes \cap deaf = {} /\ c \in todo
  /\ todo' = todo \ {c} /\ closes' = {c} \cap deaf /\ up' = up \ {c}
  /\ UNCHANGED <<state, stop, listening, peers, loop, shaken, inbox, clients, tasks, work, cast>>

(* The loops that are left are cancelled where they wait: those at work go   *)
(* into their finally, those already in it fall out of its wait_closed().    *)
StopCancels ==
  /\ stop = "closing" /\ closes \cap deaf = {} /\ todo = {}
  /\ stop' = "gathering" /\ todo' = tasks /\ closes' = {}
  /\ clients' = {}
  /\ LET cut == {c \in tasks : loop[c] \in {"reading", "greeting", "answering"}}
         left == {c \in tasks : loop[c] = "leaving"} IN
       /\ loop' = [c \in Conns |-> IF c \in cut THEN "leaving"
                                   ELSE IF c \in left THEN "gone" ELSE loop[c]]
       /\ up' = up \ cut
       /\ inbox' = [c \in Conns |-> IF c \in cut THEN <<>> ELSE inbox[c]]
       /\ req' = Unread(cut)
       /\ tasks' = tasks \ left /\ shaken' = shaken \ left /\ eof' = eof \ left
  /\ UNCHANGED <<state, listening, deaf, drains, count, cast>>

StopForgets ==
  /\ stop = "gathering" /\ \A c \in todo : loop[c] = "gone"
  /\ stop' = "waiting" /\ todo' = {} /\ tasks' = {} /\ listening' = FALSE
  /\ UNCHANGED <<state, closes, peers, loop, shaken, up, inbox, clients, work, cast>>

StopEnds ==
  /\ stop = "waiting" /\ (WaitsForClients => up \cup deaf = {})
  /\ state' = "STOPPED" /\ stop' = "no"
  /\ UNCHANGED <<todo, closes, listening, peers, links, work, cast>>

-----------------------------------------------------------------------------
ClientStep(c) ==
  \/ ClientConnects(c) \/ ClientCloses(c) \/ ClientReads(c) \/ ConnectionResets(c)
  \/ \E f \in Requests \cup Other : ClientSends(c, f)

LoopDrained(c) == Greeted(c) \/ Answered(c)

LoopStep(c) ==
  \/ ReadEnd(c) \/ ReadFatal(c) \/ ReadHandshake(c) \/ LoopDrained(c) \/ ReadInvalid(c)
  \/ ReadRequest(c) \/ LoopEnds(c)

TaskStep(r) == BeginRequest(r) \/ EndRequest(r) \/ ReplyDrained(r)

CastStep(e) == CastWakes(e) \/ CastWrites(e) \/ CastRaises(e) \/ CastEnds(e)

StopStep == StopCancels \/ StopForgets \/ StopEnds \/ \E c \in Conns : StopCloses(c)

Next ==
  \/ Start \/ StopBegins \/ StopStep
  \/ \E c \in Conns : ClientStep(c) \/ LoopStep(c)
  \/ \E r \in Requests : TaskStep(r)
  \/ \E e \in Events : CastBegins(e) \/ CastStep(e)

(* The event loop runs every loop and every request's task that can go on; a *)
(* handler ends within request_timeout_sec.  A buffer that empties wakes the *)
(* loop that waits for it for good, even if it fills again before the loop   *)
(* runs.  Broadcasts and stop() may take for ever, and clients owe nothing,  *)
(* not even to read.                                                         *)
Fairness ==
  /\ \A c \in Conns : WF_vars(LoopStep(c)) /\ SF_vars(LoopDrained(c))
  /\ \A r \in Requests : WF_vars(TaskStep(r))

Spec == Init /\ [][Next]_vars /\ Fairness

-----------------------------------------------------------------------------
(* The counter the limit is checked against is exact: it never leaks when a  *)
(* handler times out, fails or outlives its client, or the server would one  *)
(* day answer nothing but SERVER_BUSY; and a task that waits for its client  *)
(* to read is still counted.                                                 *)
CountIsExact == count = Cardinality({r \in Requests : req[r] = "running"} \cup drains)

(* Whoever is listed for events has a loop that will take him off the list.  *)
Serving(c) == loop[c] \in {"reading", "answering"} /\ c \in shaken

ListedAreServed == \A c \in clients : Serving(c)

(* A client that was told its handshake is good and has not gone away is on  *)
(* the list, whatever a broadcast ran into and however far stop() has come.  *)
ServedAreListed == \A c \in up \ eof : Serving(c) => c \in clients

(* What the server counts and lists is what it serves.                       *)
BooksAreRight == CountIsExact /\ ListedAreServed /\ ServedAreListed

(* The server keeps its end of what a caller in the gateway may expect: a    *)
(* request that reaches it has one reply, handed to the transport and never  *)
(* taken back, or its connection ends and it has none.  Nobody waits for     *)
(* ever unless its own client, for ever, does not read: other clients that   *)
(* do not, handlers that hang, broadcasts that fail and stop() itself cost a *)
(* request no more than SERVER_BUSY.                                         *)
Heard(s) ==
  CASE s = "idle" -> "new"
    [] s = "replied"    -> "answered"
    [] s = "lost" -> "closed"
    [] OTHER -> "waiting"

Promise == INSTANCE RequestReply WITH
             stage <- [r \in Requests |-> Heard(req[r])],
             replied <- {r \in Requests : req[r] = "replied"}

ReadersAreAnswered ==
  \A r \in Requests :
    []<>(Home[r] \notin deaf) =>
      ((Heard(req[r]) = "waiting") ~> (Heard(req[r]) # "waiting"))

KeepsPromise == Promise!Steps /\ ReadersAreAnswered

(* docs/ipc-architecture.md, line 35: "Concurrency Guard | Bounded concurrent *)
(* tasks (default 100)".                                                     *)
ConcurrencyGuard == Cardinality({r \in Requests : req[r] = "running"}) <= MaxConcurrent

(* server.py, line 361: "Broadcast an event frame to all active connected    *)
(* clients": who was on the list when it began and still is has the event.   *)
BroadcastReachesAll ==
  [][\A e \in Events : CastRaises(e) => cast[e].rest \cap clients = {}]_vars
=============================================================================
