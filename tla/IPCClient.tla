------------------------------- MODULE IPCClient -------------------------------
(* IPCClient of the Node gateway (services/node-gateway/src/ipc/client.ts):  *)
(* one TCP connection to the Python core, the handshake, the map of pending  *)
(* requests with their timers, the heartbeat and the reconnecting.  Node     *)
(* runs one callback at a time and its promise continuations right after it, *)
(* so each callback is one step.  The gateway calls connect() once, when it  *)
(* starts, and disconnect() when it stops.                                   *)
EXTENDS Naturals, FiniteSets

CONSTANTS
  Requests,          \* calls of sendRequest
  Handshake, Ping,   \* the client's own calls, made again and again
  Ids,               \* request ids on the wire
  IdOf,              \* the id of each call; clients may give two requests the same
  Sockets, NoSocket, NoCall

Calls == Requests \cup {Handshake, Ping}

ASSUME CallsAssumption ==
  /\ Handshake \notin Requests /\ Ping \notin Requests /\ Handshake # Ping
  /\ IdOf \in [Calls -> Ids]
  /\ NoCall \notin Calls /\ NoSocket \notin Sockets

(* The documentation asks for unique ids; nothing here checks them.          *)
OwnId(c) == \A d \in Calls : IdOf[d] = IdOf[c] => d = c

VARIABLES
  state,       \* this.state
  stopping,    \* this.isIntentionallyClosed
  retryTimer,  \* this.reconnectTimer is set
  beating,     \* this.heartbeatTimer is set
  socket,      \* this.socket
  shaking,     \* the socket whose connect callback awaits performHandshake
  pending,     \* this.pendingRequests: id -> call
  armed,       \* calls whose timeout is armed
  outcome,     \* what became of each call's promise
  conn,        \* per socket: "free", "connecting", "open", or "dead": destroyed
               \* or closed by the peer, its close event still to come
  unanswered,  \* per socket: calls the peer has received and not answered
  core,        \* the peer: "down", "up", "silent" (accepts, never answers) or
               \* "incompatible" (refuses the handshake)
  replied      \* history: requests whose reply reached this process

calls == <<pending, armed, outcome>>
net == <<conn, unanswered>>
vars == <<state, stopping, retryTimer, beating, socket, shaking, calls, net, core, replied>>

TypeOK ==
  /\ state \in {"DISCONNECTED", "CONNECTING", "CONNECTED", "DEGRADED", "RECONNECTING",
                "STOPPED", "ERROR"}
  /\ stopping \in BOOLEAN /\ retryTimer \in BOOLEAN /\ beating \in BOOLEAN
  /\ socket \in Sockets \cup {NoSocket} /\ shaking \in Sockets \cup {NoSocket}
  /\ pending \in [Ids -> Calls \cup {NoCall}]
  /\ armed \subseteq Calls
  /\ outcome \in [Calls -> {"new", "waiting", "refused", "answered",
                            "timeout", "closed", "writeError"}]
  /\ \A c \in {Handshake, Ping} : outcome[c] \in {"new", "waiting"}
  /\ conn \in [Sockets -> {"free", "connecting", "open", "dead"}]
  /\ unanswered \in [Sockets -> SUBSET Calls]
  /\ core \in {"down", "up", "silent", "incompatible"}
  /\ replied \subseteq Requests

Init ==
  /\ state = "DISCONNECTED"
  /\ stopping = FALSE /\ retryTimer = FALSE /\ beating = FALSE
  /\ socket = NoSocket /\ shaking = NoSocket
  /\ pending = [i \in Ids |-> NoCall] /\ armed = {}
  /\ outcome = [c \in Calls |-> "new"]
  /\ conn = [s \in Sockets |-> "free"]
  /\ unanswered = [s \in Sockets |-> {}]
  /\ core \in {"down", "up"} /\ replied = {}

-----------------------------------------------------------------------------
(* sendRequestInternal: arm the timer, enter the map, write if there is a    *)
(* socket.  What is written to a dead socket is lost.                        *)
Register(c, s) ==
  /\ pending' = [pending EXCEPT ![IdOf[c]] = c]
  /\ armed' = armed \cup {c}
  /\ outcome' = [outcome EXCEPT ![c] = "waiting"]
  /\ unanswered' = [t \in Sockets |-> IF t = s /\ conn'[t] = "open"
                                        THEN unanswered[t] \cup {c} ELSE unanswered[t]]

(* A ping that failed is not followed by another.                            *)
Mutant_Settled(c, o) == o

(* The client's own calls are made again: their outcome is not kept.         *)
Settled(c, o) == IF c \in Requests THEN o ELSE "new"

(* The promises of the calls in S are settled with o, if they still wait.    *)
SettleAll(S, o) ==
  outcome' = [c \in Calls |-> IF c \in S /\ outcome[c] = "waiting"
                                THEN Settled(c, o) ELSE outcome[c]]

(* The entry stays in the map.                                               *)
Mutant_Drop(c, o) ==
  /\ UNCHANGED pending
  /\ armed' = armed \ {c}
  /\ SettleAll({c}, o)

(* The entry goes with the call's id, and its timer.                         *)
Drop(c, o) ==
  /\ pending' = [pending EXCEPT ![IdOf[c]] = NoCall]
  /\ armed' = armed \ {c}
  /\ SettleAll({c}, o)

(* net.createConnection, once connect() has passed its guard.                *)
OpenSocket ==
  \E s \in Sockets :
    /\ conn[s] = "free"
    /\ conn' = [conn EXCEPT ![s] = "connecting"]
    /\ socket' = s /\ state' = "CONNECTING" /\ stopping' = FALSE

Connect ==
  /\ state = "DISCONNECTED"
  /\ OpenSocket
  /\ UNCHANGED <<retryTimer, beating, shaking, calls, unanswered, core, replied>>

(* A socket that connects is taken for a connection.                         *)
Mutant_TcpConnects(s) ==
  /\ conn[s] = "connecting" /\ core # "down"
  /\ conn' = [conn EXCEPT ![s] = "open"]
  /\ Register(Handshake, socket)
  /\ shaking' = s /\ state' = "CONNECTED"
  /\ UNCHANGED <<stopping, retryTimer, beating, socket, core, replied>>

(* The connect callback: the handshake is sent, and awaited for 5 seconds.   *)
TcpConnects(s) ==
  /\ conn[s] = "connecting" /\ core # "down"
  /\ conn' = [conn EXCEPT ![s] = "open"]
  /\ Register(Handshake, socket)
  /\ shaking' = s
  /\ UNCHANGED <<state, stopping, retryTimer, beating, socket, core, replied>>

(* The core accepts, or refuses and the socket is destroyed.                 *)
HandshakeAnswered(s) ==
  /\ shaking = s /\ conn[s] = "open" /\ Handshake \in unanswered[s]
  /\ core \in {"up", "incompatible"}
  /\ Drop(Handshake, "answered")
  /\ unanswered' = [unanswered EXCEPT ![s] = @ \ {Handshake}]
  /\ shaking' = NoSocket
  /\ \/ core = "up" /\ state' = "CONNECTED" /\ beating' = TRUE /\ UNCHANGED conn
     \/ /\ core = "incompatible" /\ state' = "ERROR"
        /\ conn' = [conn EXCEPT ![s] = "dead"]
        /\ UNCHANGED beating
  /\ UNCHANGED <<stopping, retryTimer, socket, core, replied>>

(* performHandshake throws: the catch clause of the connect callback.        *)
HandshakeThrows ==
  /\ shaking' = NoSocket /\ state' = "ERROR"
  /\ conn' = [conn EXCEPT ![shaking] = "dead"]

-----------------------------------------------------------------------------
Send(r) ==
  /\ outcome[r] = "new"
  /\ \/ /\ state = "CONNECTED"
        /\ UNCHANGED conn
        /\ Register(r, socket)
     \/ /\ state # "CONNECTED"
        /\ outcome' = [outcome EXCEPT ![r] = "refused"]
        /\ UNCHANGED <<pending, armed, net>>
  /\ UNCHANGED <<state, stopping, retryTimer, beating, socket, shaking, core, replied>>

(* The interval is 10 s and a ping is given 4 s, so pings do not overlap.    *)
HeartbeatTick ==
  /\ beating /\ state = "CONNECTED" /\ outcome[Ping] # "waiting"
  /\ UNCHANGED conn
  /\ Register(Ping, socket)
  /\ UNCHANGED <<state, stopping, retryTimer, beating, socket, shaking, core, replied>>

(* handleIncomingFrame with the core's reply to c: whoever is entered under  *)
(* that id is answered; nobody entered means the reply is late.              *)
ReplyArrives(c) ==
  /\ core = "up"
  /\ \E s \in Sockets :
       /\ conn[s] = "open" /\ c \in unanswered[s] \ {Handshake}
       /\ unanswered' = [unanswered EXCEPT ![s] = @ \ {c}]
  /\ replied' = replied \cup ({c} \cap Requests)
  /\ LET entered == pending[IdOf[c]] IN
       IF entered = NoCall THEN UNCHANGED calls ELSE Drop(entered, "answered")
  /\ UNCHANGED <<state, stopping, retryTimer, beating, socket, shaking, conn, core>>

(* The timer of c fires.  A ping that times out is only logged.              *)
Timeout(c) ==
  /\ c \in armed
  /\ Drop(c, "timeout")
  /\ IF c = Handshake THEN HandshakeThrows ELSE UNCHANGED <<shaking, state, conn>>
  /\ UNCHANGED <<stopping, retryTimer, beating, socket, unanswered, core, replied>>

(* The write callback reports an error: the socket is dead and the call was  *)
(* still in its queue.                                                       *)
WriteFails(c) ==
  /\ c \in armed
  /\ \E s \in Sockets : conn[s] = "dead" /\ c \notin unanswered[s]
  /\ Drop(c, "writeError")
  /\ IF c = Handshake THEN HandshakeThrows ELSE UNCHANGED <<shaking, state, conn>>
  /\ UNCHANGED <<stopping, retryTimer, beating, socket, unanswered, core, replied>>

-----------------------------------------------------------------------------
(* The map is cleared before its promises are settled; a close during the    *)
(* handshake is left to the handshake's own error path.                      *)
Mutant_CloseHandlerClears(s) ==
  LET entered == {pending[i] : i \in Ids} \ {NoCall} IN
    /\ beating' = FALSE /\ socket' = NoSocket
    /\ pending' = [i \in Ids |-> NoCall]
    /\ armed' = armed \ entered
    /\ SettleAll(entered \cap {Handshake, Ping}, "closed")
    /\ conn' = [conn EXCEPT ![s] = "free"]
    /\ unanswered' = [unanswered EXCEPT ![s] = {}]
    /\ retryTimer' = (retryTimer \/ ~stopping)
    /\ shaking' = IF Handshake \in entered THEN NoSocket ELSE shaking
    /\ state' = CASE Handshake \in entered -> "ERROR"
                  [] Handshake \notin entered /\ stopping -> "STOPPED"
                  [] OTHER -> "RECONNECTING"
    /\ UNCHANGED <<stopping, core, replied>>

Mutant_CloseHandlerLeaves(s) ==
  LET entered == {pending[i] : i \in Ids} \ {NoCall} IN
    /\ beating' = FALSE /\ socket' = NoSocket
    /\ pending' = [i \in Ids |-> NoCall]
    /\ armed' = armed \ entered
    /\ SettleAll(entered, "closed")
    /\ conn' = [conn EXCEPT ![s] = "free"]
    /\ unanswered' = [unanswered EXCEPT ![s] = {}]
    /\ retryTimer' = (retryTimer \/ (~stopping /\ Handshake \notin entered))
    /\ shaking' = IF Handshake \in entered THEN NoSocket ELSE shaking
    /\ state' = CASE Handshake \in entered -> "ERROR"
                  [] Handshake \notin entered /\ stopping -> "STOPPED"
                  [] OTHER -> "RECONNECTING"
    /\ UNCHANGED <<stopping, core, replied>>

(* handleSocketClose: everything pending is settled, and the next attempt    *)
(* scheduled unless one is or the client is stopped.  A handshake among the  *)
(* settled calls throws when its continuation runs: the state ends in ERROR, *)
(* with the reconnect timer set all the same.                                *)
CloseHandler(s) ==
  LET entered == {pending[i] : i \in Ids} \ {NoCall} IN
    /\ beating' = FALSE /\ socket' = NoSocket
    /\ pending' = [i \in Ids |-> NoCall]
    /\ armed' = armed \ entered
    /\ SettleAll(entered, "closed")
    /\ conn' = [conn EXCEPT ![s] = "free"]
    /\ unanswered' = [unanswered EXCEPT ![s] = {}]
    /\ retryTimer' = (retryTimer \/ ~stopping)
    /\ shaking' = IF Handshake \in entered THEN NoSocket ELSE shaking
    /\ state' = CASE Handshake \in entered -> "ERROR"
                  [] Handshake \notin entered /\ stopping -> "STOPPED"
                  [] Handshake \notin entered /\ ~stopping /\ retryTimer -> "DEGRADED"
                  [] OTHER -> "RECONNECTING"
    /\ UNCHANGED <<stopping, core, replied>>

SocketCloses(s) == conn[s] = "dead" /\ CloseHandler(s)

(* The error event schedules the next attempt by itself.                     *)
Mutant_TcpFails(s) ==
  /\ conn[s] = "connecting" /\ core = "down"
  /\ conn' = [conn EXCEPT ![s] = "dead"]
  /\ retryTimer' = TRUE /\ state' = "RECONNECTING"
  /\ UNCHANGED <<stopping, beating, socket, shaking, calls, unanswered, core, replied>>

(* The error event, and the close event that follows it.                     *)
TcpFails(s) == conn[s] = "connecting" /\ core = "down" /\ CloseHandler(s)

(* Only an attempt announced as RECONNECTING is made.                        *)
Mutant_ReconnectFires ==
  /\ retryTimer
  /\ retryTimer' = FALSE
  /\ IF stopping \/ state # "RECONNECTING"
       THEN UNCHANGED <<state, stopping, socket, conn>>
       ELSE OpenSocket
  /\ UNCHANGED <<beating, shaking, calls, unanswered, core, replied>>

ReconnectFires ==
  /\ retryTimer
  /\ retryTimer' = FALSE
  /\ IF stopping \/ state \in {"CONNECTED", "CONNECTING"}
       THEN UNCHANGED <<state, stopping, socket, conn>>
       ELSE OpenSocket
  /\ UNCHANGED <<beating, shaking, calls, unanswered, core, replied>>

(* The socket is forgotten, not destroyed.                                   *)
Mutant_Disconnect ==
  /\ state # "DISCONNECTED" /\ ~stopping
  /\ stopping' = TRUE /\ retryTimer' = FALSE /\ beating' = FALSE
  /\ socket' = NoSocket /\ state' = "STOPPED"
  /\ UNCHANGED <<conn, shaking, calls, unanswered, core, replied>>

(* disconnect(): the pending calls are left to the close event.              *)
Disconnect ==
  /\ state # "DISCONNECTED" /\ ~stopping
  /\ stopping' = TRUE /\ retryTimer' = FALSE /\ beating' = FALSE
  /\ conn' = [s \in Sockets |-> IF s = socket THEN "dead" ELSE conn[s]]
  /\ socket' = NoSocket /\ state' = "STOPPED"
  /\ UNCHANGED <<shaking, calls, unanswered, core, replied>>

(* The peer: it dies with its connections, comes back, falls silent and      *)
(* speaks again.                                                             *)
CoreDies ==
  /\ core # "down" /\ core' = "down"
  /\ conn' = [s \in Sockets |-> IF conn[s] = "open" THEN "dead" ELSE conn[s]]
  /\ UNCHANGED <<state, stopping, retryTimer, beating, socket, shaking, calls,
                 unanswered, replied>>

CoreChanges ==
  /\ \/ core = "down" /\ core' \in {"up", "incompatible"}
     \/ core = "up" /\ core' = "silent"
     \/ core = "silent" /\ core' = "up"
  /\ UNCHANGED <<state, stopping, retryTimer, beating, socket, shaking, calls, net, replied>>

Next ==
  \/ Connect \/ HeartbeatTick \/ ReconnectFires \/ Disconnect \/ CoreDies \/ CoreChanges
  \/ \E s \in Sockets : TcpConnects(s) \/ TcpFails(s) \/ HandshakeAnswered(s) \/ SocketCloses(s)
  \/ \E r \in Requests : Send(r)
  \/ \E c \in Calls : ReplyArrives(c) \/ Timeout(c) \/ WriteFails(c)

(* Timers fire, the heartbeat's interval among them, a connection attempt    *)
(* succeeds or fails, a dead socket emits its close event, and a core that   *)
(* stays up answers a handshake in time if it is asked often enough.         *)
Fairness ==
  /\ WF_vars(Connect) /\ WF_vars(ReconnectFires) /\ WF_vars(HeartbeatTick)
  /\ \A c \in Calls : WF_vars(Timeout(c))
  /\ \A s \in Sockets :
       /\ WF_vars(TcpConnects(s)) /\ WF_vars(TcpFails(s)) /\ WF_vars(SocketCloses(s))
       /\ SF_vars(HandshakeAnswered(s))

Spec == Init /\ [][Next]_vars /\ Fairness

-----------------------------------------------------------------------------
(* Every caller who waits has a timer that will end the wait, nobody else    *)
(* has one or is entered, and who has an id of its own is also entered, so   *)
(* that its reply finds it.  Of two callers with the same id one is          *)
(* displaced from the map, but not from its timer.                           *)
WaitersAreEntered ==
  LET entered == {pending[i] : i \in Ids} \ {NoCall} IN
    /\ armed = {c \in Calls : outcome[c] = "waiting"}
    /\ entered \subseteq armed
    /\ {c \in armed : OwnId(c)} \subseteq entered

(* There is never a second connection to the core, whatever order close      *)
(* events, handshake timeouts and reconnect timers come in.                  *)
OneSocket == Cardinality({s \in Sockets : conn[s] # "free"}) <= 1

(* "CONNECTED", which is what the gateway's health and routing go by, means  *)
(* a socket whose handshake the core accepted, with its heartbeat on.        *)
ConnectedIsReal ==
  state = "CONNECTED" =>
    /\ socket # NoSocket /\ conn[socket] \in {"open", "dead"}
    /\ beating /\ shaking = NoSocket /\ ~stopping

(* Off the connection, something is under way that leads back to it: a timer *)
(* or an event of the old socket.                                            *)
NeverStranded ==
  ~stopping /\ state \in {"DEGRADED", "RECONNECTING", "ERROR"} =>
    retryTimer \/ \E s \in Sockets : conn[s] = "dead"

(* At every moment promises, sockets, timers and state fit together.         *)
LinkIsSound == WaitersAreEntered /\ OneSocket /\ ConnectedIsReal /\ NeverStranded

(* A core that is up for good is connected to for good.                      *)
Reconnects ==
  <>[](core = "up" /\ ~stopping) => <>[](state = "CONNECTED")

(* After disconnect() everything ends: no socket, no timer, nobody waiting.  *)
Quiet ==
  /\ \A s \in Sockets : conn[s] = "free"
  /\ ~retryTimer /\ ~beating /\ armed = {}
StopsForGood == <>stopping => <>[]Quiet

(* Left to itself, the client comes to rest, connected or stopped.           *)
ComesToRest == Reconnects /\ StopsForGood

(* The promises of requests that have an id of their own behave as           *)
(* RequestReply says, whatever ids the others have; and those too are not    *)
(* left to wait for ever.                                                    *)
OwnRequests == {r \in Requests : OwnId(r)}
Promise == INSTANCE RequestReply WITH
             Requests <- OwnRequests,
             stage <- [r \in OwnRequests |-> outcome[r]],
             replied <- replied \cap OwnRequests
EveryWaitEnds == \A r \in Requests : (outcome[r] = "waiting") ~> (outcome[r] # "waiting")
KeepsPromise == Promise!Spec /\ EveryWaitEnds

(* docs/ipc-architecture.md, line 33: the heartbeat gives "Automated         *)
(* keepalive (`system.ping`) and dead-connection detection".                 *)
DeadConnectionDetected == <>[](core = "silent") => <>[](state # "CONNECTED")
=============================================================================
