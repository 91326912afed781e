---------------------------- MODULE IPCClientProofs ----------------------------
(* The client's link to the core, for any number of requests and sockets,    *)
(* and that it implements RequestReply.                                      *)
EXTENDS IPCClient, FiniteSetTheorems, TLAPS

(* No request is named like a handshake.  Nothing is asked of the requests'  *)
(* ids among themselves, nor of the pings'.                                  *)
HandshakeIsKnown == OwnId(Handshake)

(* Waiting and armed are the same; who is entered is armed, and who is armed *)
(* and shares its id with nobody is entered.                                 *)
EntriesAreSound ==
  /\ \A c \in Calls : c \in armed <=> outcome[c] = "waiting"
  /\ \A c \in armed : OwnId(c) => pending[IdOf[c]] = c
  /\ \A i \in Ids : pending[i] # NoCall => pending[i] \in armed /\ IdOf[pending[i]] = i

(* At most one socket is not free; a reconnect is due, or the program has    *)
(* not connected yet, only when all are.                                     *)
SocketsAreSound ==
  /\ \A s, t \in Sockets : conn[s] # "free" /\ conn[t] # "free" => s = t
  /\ retryTimer \/ state = "DISCONNECTED" => \A s \in Sockets : conn[s] = "free"
  /\ socket # NoSocket => conn[socket] # "free"

(* Who shakes hands, and what the state says of the socket.                  *)
StateIsSound ==
  /\ shaking # NoSocket <=> Handshake \in armed
  /\ shaking # NoSocket => conn[shaking] \in {"open", "dead"}
  /\ \A s \in Sockets : conn[s] = "connecting" =>
       socket = s /\ state = "CONNECTING" /\ shaking = NoSocket
  /\ \A s \in Sockets : conn[s] = "open" =>
       /\ socket = s
       /\ \/ state = "CONNECTING" /\ shaking = s
          \/ state = "CONNECTED" /\ shaking = NoSocket
  /\ state = "CONNECTING" => socket # NoSocket
  /\ stopping => state \in {"STOPPED", "ERROR"}
  /\ state = "DISCONNECTED" => ~retryTimer

IInv ==
  /\ TypeOK /\ EntriesAreSound /\ SocketsAreSound /\ StateIsSound
  /\ ConnectedIsReal /\ NeverStranded

-----------------------------------------------------------------------------
(* A new call is entered, and nobody's entry is lost.                        *)
LEMMA RegisterKeeps ==
  ASSUME TypeOK, EntriesAreSound, NEW c \in Calls, NEW s,
         c \notin armed, conn' \in [Sockets -> {"free", "connecting", "open", "dead"}],
         Register(c, s)
  PROVE  /\ EntriesAreSound' /\ armed' = armed \cup {c}
         /\ pending' \in [Ids -> Calls \cup {NoCall}]
         /\ outcome' \in [Calls -> {"new", "waiting", "refused", "answered",
                                    "timeout", "closed", "writeError"}]
         /\ \A d \in {Handshake, Ping} : outcome'[d] \in {"new", "waiting"}
         /\ unanswered' \in [Sockets -> SUBSET Calls]
<1>1. IdOf[c] \in Ids /\ c # NoCall
  BY CallsAssumption
<1>2. /\ pending' \in [Ids -> Calls \cup {NoCall}]
      /\ outcome' \in [Calls -> {"new", "waiting", "refused", "answered",
                                 "timeout", "closed", "writeError"}]
      /\ \A d \in {Handshake, Ping} : outcome'[d] \in {"new", "waiting"}
  BY <1>1, CallsAssumption DEF Register, TypeOK, Calls
<1>3. unanswered' \in [Sockets -> SUBSET Calls]
  BY DEF Register, TypeOK
<1>4. /\ pending'[IdOf[c]] = c /\ \A i \in Ids \ {IdOf[c]} : pending'[i] = pending[i]
      /\ outcome'[c] = "waiting" /\ \A d \in Calls \ {c} : outcome'[d] = outcome[d]
  BY <1>1 DEF Register, TypeOK
<1>5. \A d \in armed : /\ d \in Calls /\ IdOf[d] \in Ids
                       /\ OwnId(d) => IdOf[d] # IdOf[c]
  BY CallsAssumption DEF OwnId, TypeOK
<1>6. armed' = armed \cup {c}
  BY DEF Register
<1>7. EntriesAreSound'
  BY <1>1, <1>4, <1>5, <1>6 DEF EntriesAreSound
<1> QED BY <1>2, <1>3, <1>6, <1>7

(* A call that is settled leaves the map with its timer.                     *)
LEMMA DropKeeps ==
  ASSUME TypeOK, EntriesAreSound, NEW c \in armed,
         NEW o \in {"answered", "timeout", "closed", "writeError"}, Drop(c, o)
  PROVE  /\ EntriesAreSound' /\ armed' = armed \ {c}
         /\ pending' \in [Ids -> Calls \cup {NoCall}]
         /\ outcome' \in [Calls -> {"new", "waiting", "refused", "answered",
                                    "timeout", "closed", "writeError"}]
         /\ \A d \in {Handshake, Ping} : outcome'[d] \in {"new", "waiting"}
<1>1. c \in Calls /\ IdOf[c] \in Ids
  BY CallsAssumption DEF TypeOK
<1>2. /\ pending' \in [Ids -> Calls \cup {NoCall}]
      /\ pending'[IdOf[c]] = NoCall /\ \A i \in Ids \ {IdOf[c]} : pending'[i] = pending[i]
      /\ armed' = armed \ {c}
  BY <1>1 DEF Drop, TypeOK
<1>3. outcome[c] = "waiting"
  BY <1>1 DEF EntriesAreSound
<1>4. /\ \A d \in Calls \ {c} : outcome'[d] = outcome[d]
      /\ outcome'[c] = Settled(c, o)
      /\ outcome' \in [Calls -> {"new", "waiting", "refused", "answered",
                                 "timeout", "closed", "writeError"}]
  BY <1>1, <1>3 DEF Drop, SettleAll, Settled, TypeOK
<1>5. Settled(c, o) # "waiting" /\ (c \notin Requests => Settled(c, o) = "new")
  BY DEF Settled
<1>6. \A d \in {Handshake, Ping} : outcome'[d] \in {"new", "waiting"}
  BY <1>1, <1>4, <1>5, CallsAssumption DEF TypeOK, Calls
<1>7. \A d \in armed \ {c} : /\ d \in Calls /\ IdOf[d] \in Ids
                             /\ OwnId(d) => IdOf[d] # IdOf[c]
  BY <1>1, CallsAssumption DEF OwnId, TypeOK
<1>8. EntriesAreSound'
  BY <1>1, <1>2, <1>4, <1>5, <1>7 DEF EntriesAreSound
<1> QED BY <1>2, <1>4, <1>6, <1>8

(* The map holds calls that are armed, among them all that have an id of     *)
(* their own.                                                                *)
LEMMA EnteredAreArmed ==
  ASSUME TypeOK, EntriesAreSound
  PROVE  /\ {pending[i] : i \in Ids} \ {NoCall} \subseteq armed
         /\ {c \in armed : OwnId(c)} \subseteq {pending[i] : i \in Ids} \ {NoCall}
<1>1. \A c \in armed : /\ IdOf[c] \in Ids /\ c # NoCall
                       /\ OwnId(c) => pending[IdOf[c]] = c
  BY CallsAssumption DEF TypeOK, EntriesAreSound
<1>2. \A i \in Ids : pending[i] # NoCall => pending[i] \in armed
  BY DEF EntriesAreSound
<1> QED BY <1>1, <1>2

(* The close of a socket, whatever it found in the map.                      *)
LEMMA CloseKeeps ==
  ASSUME HandshakeIsKnown, IInv, NEW s \in Sockets, conn[s] # "free", CloseHandler(s)
  PROVE  IInv'
<1> DEFINE entered == {pending[i] : i \in Ids} \ {NoCall}
<1>1. /\ entered \subseteq armed /\ armed \subseteq Calls /\ NoCall \notin Calls
      /\ Handshake \in entered <=> Handshake \in armed
      /\ \A c \in armed \ entered : ~OwnId(c)
  BY EnteredAreArmed, CallsAssumption DEF IInv, TypeOK, HandshakeIsKnown
<1>2. /\ beating' = FALSE /\ socket' = NoSocket /\ armed' = armed \ entered
      /\ pending' = [i \in Ids |-> NoCall]
      /\ conn' = [conn EXCEPT ![s] = "free"]
      /\ unanswered' = [unanswered EXCEPT ![s] = {}]
      /\ retryTimer' = (retryTimer \/ ~stopping)
      /\ shaking' = IF Handshake \in entered THEN NoSocket ELSE shaking
      /\ stopping' = stopping /\ core' = core /\ replied' = replied
      /\ SettleAll(entered, "closed")
  BY DEF CloseHandler
<1>3. /\ state' \in {"ERROR", "STOPPED", "DEGRADED", "RECONNECTING"}
      /\ stopping => state' \in {"ERROR", "STOPPED"}
  BY DEF CloseHandler
<1> HIDE DEF entered
<1>4. \A t \in Sockets : conn'[t] = "free"
  BY <1>2 DEF IInv, TypeOK, SocketsAreSound
<1>5. /\ outcome' \in [Calls -> {"new", "waiting", "refused", "answered",
                                 "timeout", "closed", "writeError"}]
      /\ \A c \in Calls : outcome'[c] = "waiting" <=> c \in armed \ entered
  BY <1>1, <1>2 DEF SettleAll, Settled, IInv, TypeOK, EntriesAreSound
<1>6. \A c \in {Handshake, Ping} : outcome'[c] \in {"new", "waiting"}
  BY <1>2, CallsAssumption DEF SettleAll, Settled, IInv, TypeOK, Calls
<1>7. shaking' = NoSocket /\ Handshake \notin armed'
  BY <1>1, <1>2 DEF IInv, StateIsSound
<1>8. TypeOK'
  BY <1>1, <1>2, <1>3, <1>5, <1>6, <1>7 DEF IInv, TypeOK
<1>9. EntriesAreSound'
  BY <1>1, <1>2, <1>5, CallsAssumption DEF EntriesAreSound
<1>10. SocketsAreSound' /\ StateIsSound' /\ ConnectedIsReal' /\ NeverStranded'
  BY <1>2, <1>3, <1>4, <1>7 DEF SocketsAreSound, StateIsSound, ConnectedIsReal,
                                NeverStranded, IInv, TypeOK
<1> QED BY <1>8, <1>9, <1>10 DEF IInv

-----------------------------------------------------------------------------
(* A new connection is attempted only where there is none.                   *)
LEMMA OpenKeeps ==
  ASSUME IInv, \A s \in Sockets : conn[s] = "free", OpenSocket,
         retryTimer' = FALSE,
         UNCHANGED <<beating, shaking, calls, unanswered, core, replied>>
  PROVE  IInv'
<1> PICK s \in Sockets :
      /\ conn' = [conn EXCEPT ![s] = "connecting"]
      /\ socket' = s /\ state' = "CONNECTING" /\ stopping' = FALSE
  BY DEF OpenSocket
<1>1. UNCHANGED <<pending, armed, outcome>>
  BY DEF calls
<1>2. conn'[s] = "connecting" /\ \A t \in Sockets \ {s} : conn'[t] = "free"
  BY DEF IInv, TypeOK
<1>3. Handshake \notin armed /\ shaking = NoSocket
  BY DEF IInv, TypeOK, StateIsSound
<1>4. TypeOK' /\ EntriesAreSound'
  BY <1>1 DEF IInv, TypeOK, EntriesAreSound
<1>5. s # NoSocket
  BY CallsAssumption
<1>6. SocketsAreSound' /\ StateIsSound' /\ ConnectedIsReal' /\ NeverStranded'
  BY <1>1, <1>2, <1>3, <1>5 DEF SocketsAreSound, StateIsSound, ConnectedIsReal, NeverStranded
<1> QED BY <1>4, <1>6 DEF IInv

(* connect() opens a socket only when none is left.                          *)
LEMMA ConnectKeeps == ASSUME IInv, Connect PROVE IInv'
<1>1. ~retryTimer /\ \A s \in Sockets : conn[s] = "free"
  BY DEF Connect, IInv, SocketsAreSound, StateIsSound
<1>2. retryTimer' = FALSE
  BY <1>1 DEF Connect, IInv, TypeOK
<1> QED BY <1>1, <1>2, OpenKeeps DEF Connect

(* The reconnect timer's callback, which connects or does nothing.           *)
LEMMA ReconnectKeeps == ASSUME IInv, ReconnectFires PROVE IInv'
<1>1. \A s \in Sockets : conn[s] = "free"
  BY DEF ReconnectFires, IInv, SocketsAreSound
<1>2. CASE stopping \/ state \in {"CONNECTED", "CONNECTING"}
  <2>1. UNCHANGED <<state, stopping, socket, conn, beating, shaking, pending, armed,
                    outcome, unanswered, core, replied>> /\ retryTimer' = FALSE
    BY <1>2 DEF ReconnectFires, calls
  <2>2. TypeOK' /\ EntriesAreSound'
    BY <2>1 DEF IInv, TypeOK, EntriesAreSound
  <2>3. SocketsAreSound' /\ ConnectedIsReal'
    BY <2>1 DEF IInv, SocketsAreSound, ConnectedIsReal
  <2>4. StateIsSound'
    BY <1>2, <2>1 DEF IInv, StateIsSound
  <2>5. NeverStranded'
    BY <1>2, <2>1 DEF IInv, NeverStranded, StateIsSound
  <2> QED BY <2>2, <2>3, <2>4, <2>5 DEF IInv
<1>3. CASE ~(stopping \/ state \in {"CONNECTED", "CONNECTING"})
  BY <1>1, <1>3, OpenKeeps DEF ReconnectFires
<1> QED BY <1>2, <1>3

(* The connect callback: no handshake waits yet, so this one is new.         *)
LEMMA TcpConnectsKeeps ==
  ASSUME IInv, NEW s \in Sockets, TcpConnects(s)
  PROVE  IInv'
<1>1. /\ conn[s] = "connecting" /\ socket = s /\ state = "CONNECTING" /\ ~retryTimer
      /\ \A t \in Sockets \ {s} : conn[t] = "free"
  BY DEF TcpConnects, IInv, SocketsAreSound, StateIsSound
<1>2. Handshake \notin armed
  BY <1>1 DEF IInv, StateIsSound
<1>3. /\ conn' \in [Sockets -> {"free", "connecting", "open", "dead"}]
      /\ conn'[s] = "open" /\ \A t \in Sockets \ {s} : conn'[t] = "free"
  BY <1>1 DEF TcpConnects, IInv, TypeOK
<1>4. Handshake \in Calls /\ Register(Handshake, socket)
  BY DEF TcpConnects, Calls
<1>5. /\ EntriesAreSound' /\ armed' = armed \cup {Handshake}
      /\ pending' \in [Ids -> Calls \cup {NoCall}]
      /\ outcome' \in [Calls -> {"new", "waiting", "refused", "answered",
                                 "timeout", "closed", "writeError"}]
      /\ \A d \in {Handshake, Ping} : outcome'[d] \in {"new", "waiting"}
      /\ unanswered' \in [Sockets -> SUBSET Calls]
  BY <1>2, <1>3, <1>4, RegisterKeeps DEF IInv
<1>6. /\ shaking' = s /\ s # NoSocket
      /\ UNCHANGED <<state, stopping, retryTimer, beating, socket, core, replied>>
  BY CallsAssumption DEF TcpConnects
<1>7. TypeOK'
  BY <1>3, <1>4, <1>5, <1>6 DEF IInv, TypeOK
<1>8. SocketsAreSound' /\ StateIsSound' /\ ConnectedIsReal' /\ NeverStranded'
  BY <1>1, <1>3, <1>5, <1>6 DEF IInv, SocketsAreSound, StateIsSound, ConnectedIsReal,
                                NeverStranded
<1> QED BY <1>5, <1>7, <1>8 DEF IInv

(* The handshake's answer, of the right version or not.                      *)
LEMMA HandshakeAnsweredKeeps ==
  ASSUME IInv, NEW s \in Sockets, HandshakeAnswered(s)
  PROVE  IInv'
<1>1. /\ shaking = s /\ s # NoSocket /\ conn[s] = "open" /\ socket = s
      /\ Handshake \in armed /\ state = "CONNECTING" /\ ~retryTimer /\ ~stopping
      /\ \A t \in Sockets \ {s} : conn[t] = "free"
  BY CallsAssumption DEF HandshakeAnswered, IInv, SocketsAreSound, StateIsSound
<1>2. /\ EntriesAreSound' /\ armed' = armed \ {Handshake}
      /\ pending' \in [Ids -> Calls \cup {NoCall}]
      /\ outcome' \in [Calls -> {"new", "waiting", "refused", "answered",
                                 "timeout", "closed", "writeError"}]
      /\ \A d \in {Handshake, Ping} : outcome'[d] \in {"new", "waiting"}
  BY <1>1, DropKeeps DEF HandshakeAnswered, IInv
<1>3. /\ shaking' = NoSocket
      /\ unanswered' \in [Sockets -> SUBSET Calls]
      /\ UNCHANGED <<stopping, retryTimer, socket, core, replied>>
  BY DEF HandshakeAnswered, IInv, TypeOK
<1>4. /\ conn' \in [Sockets -> {"free", "connecting", "open", "dead"}]
      /\ \A t \in Sockets \ {s} : conn'[t] = "free"
      /\ beating' \in BOOLEAN
      /\ \/ state' = "CONNECTED" /\ beating' = TRUE /\ conn'[s] = "open"
         \/ state' = "ERROR" /\ conn'[s] = "dead"
  BY <1>1 DEF HandshakeAnswered, IInv, TypeOK
<1>5. TypeOK'
  BY <1>2, <1>3, <1>4 DEF IInv, TypeOK
<1>6. SocketsAreSound' /\ StateIsSound' /\ ConnectedIsReal' /\ NeverStranded'
  BY <1>1, <1>2, <1>3, <1>4 DEF IInv, SocketsAreSound, StateIsSound, ConnectedIsReal,
                                NeverStranded
<1> QED BY <1>2, <1>5, <1>6 DEF IInv

(* A call made on the connection: a request or a ping.                       *)
LEMMA CallKeeps ==
  ASSUME IInv, state = "CONNECTED", NEW c \in Calls \ {Handshake},
         c \notin armed, Register(c, socket),
         UNCHANGED <<state, stopping, retryTimer, beating, socket, shaking, conn, core, replied>>
  PROVE  IInv'
<1>1. conn' \in [Sockets -> {"free", "connecting", "open", "dead"}]
  BY DEF IInv, TypeOK
<1>2. /\ EntriesAreSound' /\ armed' = armed \cup {c}
      /\ pending' \in [Ids -> Calls \cup {NoCall}]
      /\ outcome' \in [Calls -> {"new", "waiting", "refused", "answered",
                                 "timeout", "closed", "writeError"}]
      /\ \A d \in {Handshake, Ping} : outcome'[d] \in {"new", "waiting"}
      /\ unanswered' \in [Sockets -> SUBSET Calls]
  BY <1>1, RegisterKeeps DEF IInv
<1>3. TypeOK'
  BY <1>2 DEF IInv, TypeOK
<1>4. \E s \in Sockets : conn[s] \in {"open", "dead"}
  BY DEF IInv, TypeOK, ConnectedIsReal
<1>5. SocketsAreSound' /\ StateIsSound' /\ ConnectedIsReal' /\ NeverStranded'
  BY <1>2, <1>4 DEF IInv, SocketsAreSound, StateIsSound, ConnectedIsReal, NeverStranded
<1> QED BY <1>2, <1>3, <1>5 DEF IInv

(* sendRequest(): an entry and a timer of its own, or a refusal.             *)
LEMMA SendKeeps == ASSUME IInv, NEW r \in Requests, Send(r) PROVE IInv'
<1>1. r \in Calls \ {Handshake} /\ r \notin armed /\ r # Ping
  BY CallsAssumption DEF Send, IInv, EntriesAreSound, Calls
<1>2. CASE state = "CONNECTED"
  BY <1>1, <1>2, CallKeeps DEF Send
<1>3. CASE state # "CONNECTED"
  <2>1. /\ outcome' = [outcome EXCEPT ![r] = "refused"]
        /\ UNCHANGED <<pending, armed, conn, unanswered, state, stopping, retryTimer,
                       beating, socket, shaking, core, replied>>
    BY <1>3 DEF Send, net
  <2>2. TypeOK' /\ EntriesAreSound'
    BY <1>1, <2>1 DEF IInv, TypeOK, EntriesAreSound
  <2> QED BY <2>1, <2>2 DEF IInv, SocketsAreSound, StateIsSound, ConnectedIsReal, NeverStranded
<1> QED BY <1>2, <1>3

(* The heartbeat's callback, which sends a ping or nothing.                  *)
LEMMA HeartbeatKeeps == ASSUME IInv, HeartbeatTick PROVE IInv'
<1>1. Ping \in Calls \ {Handshake} /\ Ping \notin armed
  BY CallsAssumption DEF HeartbeatTick, IInv, EntriesAreSound, Calls
<1> QED BY <1>1, CallKeeps DEF HeartbeatTick

-----------------------------------------------------------------------------
(* A reply ends the wait of whoever is entered under its id, which is never  *)
(* the handshake.                                                            *)
LEMMA ReplyKeeps == ASSUME HandshakeIsKnown, IInv, NEW c \in Calls, ReplyArrives(c) PROVE IInv'
<1> PICK s \in Sockets :
      /\ conn[s] = "open" /\ c \in unanswered[s] \ {Handshake}
      /\ unanswered' = [unanswered EXCEPT ![s] = @ \ {c}]
  BY DEF ReplyArrives
<1>1. /\ unanswered' \in [Sockets -> SUBSET Calls] /\ replied' \subseteq Requests
      /\ c # Handshake /\ c # NoCall /\ IdOf[c] \in Ids
      /\ UNCHANGED <<state, stopping, retryTimer, beating, socket, shaking, conn, core>>
  BY CallsAssumption DEF ReplyArrives, IInv, TypeOK
<1>2. CASE pending[IdOf[c]] = NoCall
  <2>1. UNCHANGED <<pending, armed, outcome>>
    BY <1>2 DEF ReplyArrives, calls
  <2> QED BY <1>1, <2>1 DEF IInv, TypeOK, EntriesAreSound, SocketsAreSound, StateIsSound,
                            ConnectedIsReal, NeverStranded
<1>3. CASE pending[IdOf[c]] # NoCall
  <2> DEFINE d == pending[IdOf[c]]
  <2>1. d \in armed /\ IdOf[d] = IdOf[c] /\ Drop(d, "answered")
    BY <1>1, <1>3 DEF ReplyArrives, IInv, EntriesAreSound
  <2> HIDE DEF d
  <2>2. d # Handshake
    BY <1>1, <2>1 DEF HandshakeIsKnown, OwnId
  <2>4. /\ EntriesAreSound' /\ armed' = armed \ {d}
        /\ pending' \in [Ids -> Calls \cup {NoCall}]
        /\ outcome' \in [Calls -> {"new", "waiting", "refused", "answered",
                                   "timeout", "closed", "writeError"}]
        /\ \A e \in {Handshake, Ping} : outcome'[e] \in {"new", "waiting"}
    BY <2>1, DropKeeps DEF IInv
  <2>5. TypeOK'
    BY <1>1, <2>4 DEF IInv, TypeOK
  <2> QED BY <1>1, <2>2, <2>4, <2>5 DEF IInv, SocketsAreSound, StateIsSound, ConnectedIsReal,
                                        NeverStranded
<1> QED BY <1>2, <1>3

(* A wait that ends without a reply: if it was the handshake's, its socket   *)
(* goes with it.                                                             *)
LEMMA WaitEnds ==
  ASSUME IInv, NEW c \in armed, NEW o \in {"timeout", "writeError"},
         Drop(c, o),
         IF c = Handshake THEN HandshakeThrows ELSE UNCHANGED <<shaking, state, conn>>,
         UNCHANGED <<stopping, retryTimer, beating, socket, unanswered, core, replied>>
  PROVE  IInv'
<1>1. /\ EntriesAreSound' /\ armed' = armed \ {c}
      /\ pending' \in [Ids -> Calls \cup {NoCall}]
      /\ outcome' \in [Calls -> {"new", "waiting", "refused", "answered",
                                 "timeout", "closed", "writeError"}]
      /\ \A d \in {Handshake, Ping} : outcome'[d] \in {"new", "waiting"}
  BY DropKeeps DEF IInv
<1>2. CASE c # Handshake
  <2>1. UNCHANGED <<shaking, state, conn>>
    BY <1>2
  <2>2. TypeOK'
    BY <1>1, <2>1 DEF IInv, TypeOK
  <2> QED BY <1>1, <1>2, <2>1, <2>2 DEF IInv, SocketsAreSound, StateIsSound,
                                        ConnectedIsReal, NeverStranded
<1>3. CASE c = Handshake
  <2>1. /\ shaking' = NoSocket /\ state' = "ERROR"
        /\ conn' = [conn EXCEPT ![shaking] = "dead"]
    BY <1>3 DEF HandshakeThrows
  <2>2. /\ shaking \in Sockets /\ ~retryTimer
        /\ \A t \in Sockets \ {shaking} : conn[t] = "free"
    BY <1>3 DEF IInv, TypeOK, SocketsAreSound, StateIsSound
  <2>3. /\ conn' \in [Sockets -> {"free", "connecting", "open", "dead"}]
        /\ conn'[shaking] = "dead" /\ \A t \in Sockets \ {shaking} : conn'[t] = "free"
    BY <2>1, <2>2 DEF IInv, TypeOK
  <2>4. TypeOK'
    BY <1>1, <2>1, <2>3 DEF IInv, TypeOK
  <2>5. socket # NoSocket => socket = shaking
    BY <2>2 DEF IInv, TypeOK, SocketsAreSound
  <2>6. SocketsAreSound' /\ StateIsSound' /\ ConnectedIsReal' /\ NeverStranded'
    BY <1>1, <1>3, <2>1, <2>2, <2>3, <2>5
       DEF IInv, SocketsAreSound, StateIsSound, ConnectedIsReal, NeverStranded
  <2> QED BY <1>1, <2>4, <2>6 DEF IInv
<1> QED BY <1>2, <1>3

(* A call's timer fires, ...                                                 *)
LEMMA TimeoutKeeps == ASSUME IInv, NEW c \in Calls, Timeout(c) PROVE IInv'
BY WaitEnds DEF Timeout

(* ... or its write fails: its entry goes with it.                           *)
LEMMA WriteFailsKeeps == ASSUME IInv, NEW c \in Calls, WriteFails(c) PROVE IInv'
BY WaitEnds DEF WriteFails

(* disconnect(): whatever the socket was doing, it is dead now.              *)
LEMMA DisconnectKeeps == ASSUME IInv, Disconnect PROVE IInv'
<1>1. /\ stopping' = TRUE /\ retryTimer' = FALSE /\ beating' = FALSE
      /\ conn' = [s \in Sockets |-> IF s = socket THEN "dead" ELSE conn[s]]
      /\ socket' = NoSocket /\ state' = "STOPPED"
      /\ UNCHANGED <<shaking, pending, armed, outcome, unanswered, core, replied>>
  BY DEF Disconnect, calls
<1>2. TypeOK' /\ EntriesAreSound'
  BY <1>1 DEF IInv, TypeOK, EntriesAreSound
<1>3. \A s \in Sockets : /\ conn'[s] \in {"free", "dead"}
                         /\ conn'[s] = "free" <=> conn[s] = "free"
                         /\ conn[s] \in {"open", "dead"} => conn'[s] = "dead"
  BY <1>1, CallsAssumption DEF IInv, TypeOK, SocketsAreSound, StateIsSound
<1>4. SocketsAreSound'
  BY <1>1, <1>3 DEF IInv, SocketsAreSound
<1>5. StateIsSound' /\ ConnectedIsReal' /\ NeverStranded'
  BY <1>1, <1>3 DEF IInv, TypeOK, StateIsSound, ConnectedIsReal, NeverStranded
<1> QED BY <1>2, <1>4, <1>5 DEF IInv

(* What the peer does by itself changes nothing here.                        *)
LEMMA PeerKeeps == ASSUME IInv, CoreDies \/ CoreChanges PROVE IInv'
<1>1. CASE CoreChanges
  <2>1. /\ core' \in {"down", "up", "silent", "incompatible"}
        /\ UNCHANGED <<state, stopping, retryTimer, beating, socket, shaking, pending, armed,
                       outcome, conn, unanswered, replied>>
    BY <1>1 DEF CoreChanges, calls, net
  <2> QED BY <2>1 DEF IInv, TypeOK, EntriesAreSound, SocketsAreSound, StateIsSound,
                      ConnectedIsReal, NeverStranded
<1>2. CASE CoreDies
  <2>1. /\ core' = "down"
        /\ conn' = [s \in Sockets |-> IF conn[s] = "open" THEN "dead" ELSE conn[s]]
        /\ UNCHANGED <<state, stopping, retryTimer, beating, socket, shaking, pending, armed,
                       outcome, unanswered, replied>>
    BY <1>2 DEF CoreDies, calls
  <2>2. TypeOK' /\ EntriesAreSound'
    BY <2>1 DEF IInv, TypeOK, EntriesAreSound
  <2>3. \A s \in Sockets : /\ conn'[s] # "open"
                           /\ \A c \in {"free", "connecting"} : conn'[s] = c <=> conn[s] = c
                           /\ conn[s] \in {"open", "dead"} => conn'[s] = "dead"
    BY <2>1 DEF IInv, TypeOK
  <2>4. SocketsAreSound'
    BY <2>1, <2>3 DEF IInv, TypeOK, SocketsAreSound
  <2>5. StateIsSound' /\ ConnectedIsReal' /\ NeverStranded'
    BY <2>1, <2>3 DEF IInv, TypeOK, StateIsSound, ConnectedIsReal, NeverStranded
  <2> QED BY <2>2, <2>4, <2>5 DEF IInv
<1> QED BY <1>1, <1>2

-----------------------------------------------------------------------------
(* So the invariant holds.                                                   *)
LEMMA Invariance == HandshakeIsKnown => (Spec => []IInv)
<1> SUFFICES ASSUME HandshakeIsKnown PROVE Spec => []IInv
  OBVIOUS
<1>1. Init => IInv
  <2> SUFFICES ASSUME Init PROVE IInv
    OBVIOUS
  <2>1. TypeOK
    BY CallsAssumption DEF Init, TypeOK, Calls
  <2>2. EntriesAreSound
    BY DEF Init, EntriesAreSound
  <2> QED BY <2>1, <2>2 DEF Init, IInv, SocketsAreSound, StateIsSound, ConnectedIsReal,
                            NeverStranded
<1>2. IInv /\ [Next]_vars => IInv'
  <2> SUFFICES ASSUME IInv, [Next]_vars PROVE IInv'
    OBVIOUS
  <2>1. CASE UNCHANGED vars
    BY <2>1 DEF vars, calls, net, IInv, TypeOK, EntriesAreSound, SocketsAreSound, StateIsSound,
                ConnectedIsReal, NeverStranded
  <2>2. ASSUME NEW s \in Sockets,
               TcpConnects(s) \/ TcpFails(s) \/ HandshakeAnswered(s) \/ SocketCloses(s)
        PROVE  IInv'
    BY <2>2, TcpConnectsKeeps, HandshakeAnsweredKeeps, CloseKeeps DEF TcpFails, SocketCloses
  <2>3. ASSUME NEW c \in Calls, ReplyArrives(c) \/ Timeout(c) \/ WriteFails(c)
        PROVE  IInv'
    BY <2>3, ReplyKeeps, TimeoutKeeps, WriteFailsKeeps
  <2>4. ASSUME NEW r \in Requests, Send(r) PROVE IInv'
    BY <2>4, SendKeeps
  <2>5. CASE \/ Connect \/ HeartbeatTick \/ ReconnectFires \/ Disconnect
             \/ CoreDies \/ CoreChanges
    BY <2>5, ConnectKeeps, HeartbeatKeeps, ReconnectKeeps, DisconnectKeeps, PeerKeeps
  <2> QED BY <2>1, <2>2, <2>3, <2>4, <2>5 DEF Next
<1> QED BY <1>1, <1>2, PTL DEF Spec

(* The client's types (node-gateway/src/ipc/client.ts).                      *)
THEOREM Typing == HandshakeIsKnown => (Spec => []TypeOK)
<1>1. IInv => TypeOK
  BY DEF IInv
<1> QED BY <1>1, Invariance, PTL

(* Promises, timers, map, sockets and state fit together, however replies,   *)
(* timeouts, closes, reconnects and disconnect() interleave, and whatever    *)
(* ids the requests have.                                                    *)
THEOREM Link == HandshakeIsKnown => (Spec => []LinkIsSound)
<1>1. IInv => LinkIsSound
  <2> SUFFICES ASSUME IInv PROVE LinkIsSound
    OBVIOUS
  <2>1. WaitersAreEntered
    <3>1. armed = {c \in Calls : outcome[c] = "waiting"}
      BY DEF IInv, TypeOK, EntriesAreSound
    <3>2. /\ {pending[i] : i \in Ids} \ {NoCall} \subseteq armed
          /\ {c \in armed : OwnId(c)} \subseteq {pending[i] : i \in Ids} \ {NoCall}
      BY EnteredAreArmed DEF IInv
    <3> QED BY <3>1, <3>2 DEF WaitersAreEntered
  <2>2. OneSocket
    <3> DEFINE used == {s \in Sockets : conn[s] # "free"}
    <3>1. CASE used = {}
      BY <3>1, FS_EmptySet DEF OneSocket
    <3>2. ASSUME NEW s \in used PROVE OneSocket
      <4>1. used = {s}
        BY <3>2 DEF IInv, SocketsAreSound
      <4> QED BY <4>1, FS_Singleton DEF OneSocket
    <3> QED BY <3>1, <3>2
  <2> QED BY <2>1, <2>2 DEF IInv, LinkIsSound
<1> QED BY <1>1, Invariance, PTL

-----------------------------------------------------------------------------
(* The refinement of RequestReply.  A request the peer has received and not  *)
(* answered was made, no reply to it has come yet, and it is on one          *)
(* connection only.                                                          *)
ServedOnce ==
  /\ \A s \in Sockets : \A r \in Requests \cap unanswered[s] :
       outcome[r] # "new" /\ r \notin replied
  /\ \A s, t \in Sockets : \A r \in Requests \cap unanswered[s] \cap unanswered[t] : s = t
  /\ \A r \in replied : outcome[r] # "new"

(* The requests of RequestReply are requests, and always the same.           *)
LEMMA OwnAreRequests ==
  /\ OwnRequests \subseteq Requests /\ OwnRequests \subseteq Calls
  /\ OwnRequests' = OwnRequests
BY DEF OwnRequests, OwnId, Calls

(* A step that changes no outcome of a request is none to the callers.       *)
LEMMA NothingSeen ==
  ASSUME \A r \in OwnRequests : outcome'[r] = outcome[r],
         replied' \cap OwnRequests = replied \cap OwnRequests
  PROVE  UNCHANGED Promise!vars
<1>1. [r \in OwnRequests |-> outcome'[r]] = [r \in OwnRequests |-> outcome[r]]
  OBVIOUS
<1> QED BY <1>1, OwnAreRequests DEF Promise!vars

(* What settling a set of calls does to the requests.                        *)
LEMMA SettledSeen ==
  ASSUME NEW S, NEW o, SettleAll(S, o)
  PROVE  \A r \in Requests :
           outcome'[r] = IF r \in S /\ outcome[r] = "waiting" THEN o ELSE outcome[r]
BY DEF SettleAll, Settled, Calls

(* Only those who wait are given up, with an error.                          *)
LEMMA GivesUp ==
  ASSUME TypeOK, NEW S, NEW o \in {"timeout", "closed", "writeError"}, SettleAll(S, o),
         UNCHANGED replied
  PROVE  Promise!GiveUp
<1>1. \A r \in Requests :
           outcome'[r] = IF r \in S /\ outcome[r] = "waiting" THEN o ELSE outcome[r]
  BY SettledSeen
<1>2. \A r \in OwnRequests : outcome[r] \in Promise!Stage
  BY OwnAreRequests DEF TypeOK, Promise!Stage, Promise!Error
<1>3. \A r \in OwnRequests : outcome'[r] \in Promise!Stage
  BY <1>1, <1>2, OwnAreRequests DEF Promise!Stage, Promise!Error
<1> QED BY <1>1, <1>3, OwnAreRequests DEF Promise!GiveUp, Promise!Error

(* Giving up serves nobody twice.                                            *)
LEMMA GivesUpServed ==
  ASSUME ServedOnce, NEW S, NEW o \in {"timeout", "closed", "writeError"}, SettleAll(S, o),
         UNCHANGED replied, replied \subseteq Requests,
         \A s \in Sockets : unanswered'[s] \subseteq unanswered[s]
  PROVE  ServedOnce'
<1>1. \A r \in Requests : outcome[r] # "new" => outcome'[r] # "new"
  BY SettledSeen
<1> QED BY <1>1 DEF ServedOnce

(* Steps that leave the requests alone, and those that give some up.         *)
LEMMA UnseenServed ==
  ASSUME ServedOnce, \A r \in Requests : outcome'[r] = outcome[r], UNCHANGED replied,
         replied \subseteq Requests,
         \A s \in Sockets : unanswered'[s] \cap Requests \subseteq unanswered[s]
  PROVE  ServedOnce'
BY DEF ServedOnce

(* The client's own calls are no requests.                                   *)
LEMMA OwnCall ==
  ASSUME TypeOK, NEW c \in {Handshake, Ping}, NEW s, Register(c, s)
  PROVE /\ \A r \in Requests : outcome'[r] = outcome[r]
        /\ \A t \in Sockets : unanswered'[t] \cap Requests \subseteq unanswered[t]
BY CallsAssumption DEF Register, Calls, TypeOK

(* A request enters, and its caller waits.                                   *)
LEMMA SendSeen ==
  ASSUME TypeOK, ServedOnce, NEW r \in Requests, Send(r)
  PROVE  ServedOnce' /\ [Promise!Next]_(Promise!vars)
<1>0. /\ r \in Calls /\ Requests \subseteq Calls /\ outcome[r] = "new"
      /\ UNCHANGED replied /\ replied \subseteq Requests
  BY DEF Send, Calls, TypeOK
<1>1. CASE state = "CONNECTED"
  <2>1. outcome' = [outcome EXCEPT ![r] = "waiting"]
    BY <1>1 DEF Send, Register
  <2>2. \A t \in Sockets : unanswered'[t] = IF t = socket /\ conn'[t] = "open"
                                        THEN unanswered[t] \cup {r} ELSE unanswered[t]
    BY <1>1 DEF Send, Register
  <2>3. outcome'[r] = "waiting" /\ \A q \in Requests \ {r} : outcome'[q] = outcome[q]
    BY <1>0, <2>1 DEF TypeOK
  <2>4. ASSUME r \in OwnRequests PROVE Promise!Next
    <3>1. Promise!Ask(r)
      BY <1>0, <2>3, <2>4, OwnAreRequests DEF Promise!Ask
    <3> QED BY <2>4, <3>1 DEF Promise!Next
  <2>5. \A s \in Sockets : r \notin unanswered[s]
    BY <1>0 DEF ServedOnce
  <2>6. r \notin replied
    BY <1>0 DEF ServedOnce
  <2>7. /\ \A q \in Requests : outcome[q] # "new" => outcome'[q] # "new"
        /\ \A t \in Sockets : unanswered'[t] \subseteq unanswered[t] \cup {r}
        /\ \A t \in Sockets : r \in unanswered'[t] => t = socket
    BY <2>2, <2>3, <2>5
  <2>8. ASSUME NEW t \in Sockets, NEW q \in Requests \cap unanswered'[t]
        PROVE  /\ outcome'[q] # "new" /\ q \notin replied'
               /\ \A u \in Sockets : q \in unanswered'[u] => t = u
    <3>1. CASE q = r
      BY <1>0, <2>3, <2>6, <2>7, <2>8, <3>1
    <3>2. CASE q # r
      <4>1. q \in Requests \cap unanswered[t] /\ \A u \in Sockets : q \in unanswered'[u] => q \in unanswered[u]
        BY <2>7, <2>8, <3>2
      <4> QED BY <1>0, <2>7, <4>1 DEF ServedOnce
    <3> QED BY <3>1, <3>2
  <2>9. ServedOnce'
    BY <1>0, <2>7, <2>8 DEF ServedOnce
  <2>10. ASSUME r \notin OwnRequests PROVE UNCHANGED Promise!vars
    BY <1>0, <2>3, <2>10, OwnAreRequests, NothingSeen
  <2> QED BY <2>4, <2>9, <2>10
<1>2. CASE state # "CONNECTED"
  <2>1. outcome' = [outcome EXCEPT ![r] = "refused"] /\ UNCHANGED unanswered
    BY <1>2 DEF Send, net
  <2>3. outcome'[r] = "refused" /\ \A q \in Requests \ {r} : outcome'[q] = outcome[q]
    BY <1>0, <2>1 DEF TypeOK
  <2>4. ASSUME r \in OwnRequests PROVE Promise!Next
    <3>1. Promise!Refuse(r)
      BY <1>0, <2>3, <2>4, OwnAreRequests DEF Promise!Refuse
    <3> QED BY <2>4, <3>1 DEF Promise!Next
  <2>5. ASSUME r \notin OwnRequests PROVE UNCHANGED Promise!vars
    BY <1>0, <2>3, <2>5, OwnAreRequests, NothingSeen
  <2>7. ServedOnce'
    BY <1>0, <2>1, <2>3 DEF ServedOnce
  <2> QED BY <2>4, <2>5, <2>7
<1> QED BY <1>1, <1>2

(* A reply answers its own request, if that waits and shares its id with     *)
(* nobody, and for the first time.                                           *)
LEMMA ReplySeen ==
  ASSUME TypeOK, EntriesAreSound, ServedOnce, NEW c \in Calls, ReplyArrives(c)
  PROVE  ServedOnce' /\ [Promise!Next]_(Promise!vars)
<1> PICK s \in Sockets :
      /\ conn[s] = "open" /\ c \in unanswered[s] \ {Handshake}
      /\ unanswered' = [unanswered EXCEPT ![s] = @ \ {c}]
  BY DEF ReplyArrives
<1>1. /\ replied' = replied \cup ({c} \cap Requests) /\ replied \subseteq Requests
      /\ IdOf[c] \in Ids /\ c # NoCall
      /\ unanswered'[s] = unanswered[s] \ {c}
      /\ \A t \in Sockets \ {s} : unanswered'[t] = unanswered[t]
  BY CallsAssumption DEF ReplyArrives, TypeOK
<1>2. pending[IdOf[c]] = NoCall /\ OwnId(c) => outcome[c] # "waiting"
  BY <1>1 DEF EntriesAreSound
<1> DEFINE d == pending[IdOf[c]]
<1>3. ASSUME d # NoCall
      PROVE  /\ (OwnId(c) \/ OwnId(d)) => d = c
             /\ \A r \in Requests :
                  outcome'[r] = IF r = d /\ outcome[r] = "waiting" THEN "answered"
                                                                 ELSE outcome[r]
  <2>1. d \in Calls /\ IdOf[d] = IdOf[c]
    BY <1>1, <1>3 DEF TypeOK, EntriesAreSound
  <2>2. SettleAll({d}, "answered")
    BY <1>3 DEF ReplyArrives, Drop
  <2> HIDE DEF d
  <2>3. (OwnId(c) \/ OwnId(d)) => d = c
    BY <2>1 DEF OwnId
  <2> QED BY <2>1, <2>2, <2>3, SettledSeen
<1>4. d = NoCall => \A r \in Requests : outcome'[r] = outcome[r]
  BY DEF ReplyArrives, calls
<1> HIDE DEF d
<1>5. \A r \in OwnRequests :
        outcome'[r] = IF r = c /\ outcome[r] = "waiting" THEN "answered" ELSE outcome[r]
  <2> SUFFICES ASSUME NEW r \in OwnRequests
               PROVE  outcome'[r] = IF r = c /\ outcome[r] = "waiting" THEN "answered"
                                                                     ELSE outcome[r]
    OBVIOUS
  <2>1. r \in Requests /\ OwnId(r)
    BY DEF OwnRequests
  <2>2. CASE d = NoCall
    BY <1>2, <1>4, <2>1, <2>2 DEF d
  <2>3. CASE d # NoCall
    <3>1. r = d <=> r = c
      BY <1>3, <2>1, <2>3
    <3> QED BY <1>3, <2>1, <2>3, <3>1
  <2> QED BY <2>2, <2>3
<1>6. \A r \in Requests : outcome[r] # "new" => outcome'[r] # "new"
  BY <1>3, <1>4
<1>7. ServedOnce'
  <2>1. CASE c \in Requests
    <3>1. outcome[c] # "new" /\ c \notin replied /\ \A t \in Sockets \ {s} : c \notin unanswered[t]
      BY <2>1 DEF ServedOnce
    <3> QED BY <1>1, <1>6, <2>1, <3>1 DEF ServedOnce
  <2>2. CASE c \notin Requests
    BY <1>1, <1>6, <2>2 DEF ServedOnce
  <2> QED BY <2>1, <2>2
<1>8. CASE c \in OwnRequests
  <2>1. c \in Requests /\ outcome[c] # "new" /\ c \notin replied
    BY <1>8, OwnAreRequests DEF ServedOnce
  <2>2. Promise!Reply(c)
    BY <1>1, <1>5, <1>8, <2>1, OwnAreRequests DEF Promise!Reply
  <2> QED BY <1>7, <1>8, <2>2 DEF Promise!Next
<1>9. CASE c \notin OwnRequests
  <2>1. /\ replied' \cap OwnRequests = replied \cap OwnRequests
        /\ \A r \in OwnRequests : outcome'[r] = outcome[r]
    BY <1>1, <1>5, <1>9
  <2> QED BY <1>7, <2>1, NothingSeen
<1> QED BY <1>8, <1>9

(* Each step of the client is one of RequestReply, or none.                  *)
LEMMA StepSeen ==
  ASSUME IInv, ServedOnce, [Next]_vars
  PROVE  ServedOnce' /\ [Promise!Next]_(Promise!vars)
<1>1. TypeOK /\ EntriesAreSound /\ replied \subseteq Requests
  BY DEF IInv, TypeOK
<1>2. CASE UNCHANGED vars \/ Connect \/ ReconnectFires \/ Disconnect \/ CoreDies \/ CoreChanges
  <2>1. UNCHANGED <<outcome, unanswered, replied>>
    BY <1>2 DEF vars, calls, net, Connect, ReconnectFires, Disconnect, CoreDies, CoreChanges
  <2> QED BY <1>1, <2>1, OwnAreRequests, UnseenServed, NothingSeen
<1>3. CASE HeartbeatTick
  BY <1>1, <1>3, OwnCall, OwnAreRequests, UnseenServed, NothingSeen DEF HeartbeatTick
<1>4. ASSUME NEW s \in Sockets, TcpConnects(s)
      PROVE  ServedOnce' /\ [Promise!Next]_(Promise!vars)
  BY <1>1, <1>4, OwnCall, OwnAreRequests, UnseenServed, NothingSeen DEF TcpConnects
<1>5. ASSUME NEW s \in Sockets, HandshakeAnswered(s)
      PROVE  ServedOnce' /\ [Promise!Next]_(Promise!vars)
  <2>1. SettleAll({Handshake}, "answered") /\ UNCHANGED replied
    BY <1>5 DEF HandshakeAnswered, Drop
  <2>2. \A r \in Requests : outcome'[r] = outcome[r]
    BY <2>1, SettledSeen, CallsAssumption
  <2>3. \A t \in Sockets : unanswered'[t] \cap Requests \subseteq unanswered[t]
    BY <1>1, <1>5 DEF HandshakeAnswered, TypeOK
  <2> QED BY <1>1, <2>1, <2>2, <2>3, OwnAreRequests, UnseenServed, NothingSeen
<1>6. ASSUME NEW s \in Sockets, CloseHandler(s)
      PROVE  ServedOnce' /\ [Promise!Next]_(Promise!vars)
  <2>1. (\E S : SettleAll(S, "closed")) /\ UNCHANGED replied
    BY <1>6 DEF CloseHandler
  <2>2. \A t \in Sockets : unanswered'[t] \subseteq unanswered[t]
    BY <1>1, <1>6 DEF CloseHandler, TypeOK
  <2> QED BY <1>1, <2>1, <2>2, GivesUp, GivesUpServed DEF Promise!Next
<1>7. ASSUME NEW r \in Requests, Send(r)
      PROVE  ServedOnce' /\ [Promise!Next]_(Promise!vars)
  BY <1>1, <1>7, SendSeen
<1>8. ASSUME NEW c \in Calls, ReplyArrives(c)
      PROVE  ServedOnce' /\ [Promise!Next]_(Promise!vars)
  BY <1>1, <1>8, ReplySeen
<1>9. ASSUME NEW c \in Calls, Timeout(c) \/ WriteFails(c)
      PROVE  ServedOnce' /\ [Promise!Next]_(Promise!vars)
  <2>1. (\E o \in {"timeout", "writeError"} : SettleAll({c}, o)) /\ UNCHANGED <<replied, unanswered>>
    BY <1>9 DEF Timeout, WriteFails, Drop
  <2> QED BY <1>1, <2>1, GivesUp, GivesUpServed DEF Promise!Next
<1> QED BY <1>2, <1>3, <1>4, <1>5, <1>6, <1>7, <1>8, <1>9 DEF Next, TcpFails, SocketCloses

(* The client implements RequestReply (safety; that no caller waits for ever *)
(* is left to the runs) for the requests that share their id with no other,  *)
(* whatever ids the others have: whatever replies, timeouts, closes and reconnects   *)
(* do, a promise is settled once, with the reply to its own request if that  *)
(* comes in time and with an error otherwise, and no request is answered     *)
(* twice.                                                                    *)
THEOREM ImplementsRequestReply == HandshakeIsKnown => (Spec => Promise!Steps)
<1> SUFFICES ASSUME HandshakeIsKnown PROVE Spec => Promise!Steps
  OBVIOUS
<1>1. Init => ServedOnce /\ Promise!Init
  BY OwnAreRequests DEF Init, ServedOnce, Promise!Init
<1>2. IInv /\ ServedOnce /\ [Next]_vars => ServedOnce' /\ [Promise!Next]_(Promise!vars)
  BY StepSeen
<1> QED BY <1>1, <1>2, Invariance, PTL DEF Spec, Promise!Steps
=============================================================================
