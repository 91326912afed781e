-------------------------------- MODULE Front --------------------------------
(* A command's way from the renderer over the WebSocket (connection.ts) and  *)
(* through the gateway (gateway.ts) to the core, and its answer's way back.  *)
(* Three clocks run for one command: the renderer's 30 s, the bridge's 120 s *)
(* and the core's own.  The bridge is not modelled again: its requests move  *)
(* as RequestReply promises, which IPCClient keeps.                          *)

CONSTANTS
  Commands,
  Sockets,    \* how many WebSockets exist at a time
  NoSocket

ASSUME FrontAssumption == Sockets # {}

VARIABLES
  ws, link,   \* this.ws, and each WebSocket's readyState
  retry,      \* reconnectTimer is set
  ipcUp,      \* ipcClient.isConnected()
  cmd,        \* each command in the renderer, "pending" while in pendingRequests
  way, via,   \* how far it got outside, and the socket its answer goes to
  stage, replied  \* the promises of the bridge

RR == INSTANCE RequestReply WITH Requests <- Commands

netVars == <<ws, link, retry>>
bridgeVars == <<ipcUp, stage, replied>>
frontVars == <<netVars, cmd, way, via, bridgeVars>>

Connected == ws # NoSocket /\ link[ws] = "open"

FrontInit ==
  /\ retry = FALSE /\ ipcUp = FALSE
  /\ ws = CHOOSE s \in Sockets : TRUE
  /\ link = [s \in Sockets |-> IF s = ws THEN "connecting" ELSE "free"]
  /\ cmd = [c \in Commands |-> "new"]
  /\ way = [c \in Commands |-> "none"]
  /\ via = [c \in Commands |-> NoSocket]
  /\ RR!Init

-----------------------------------------------------------------------------
(* The renderer's requests.                                                  *)
SendRequest(c) ==
  /\ cmd[c] = "new"
  /\ IF Connected
     THEN /\ cmd' = [cmd EXCEPT ![c] = "pending"]
          /\ way' = [way EXCEPT ![c] = "sent"] /\ via' = [via EXCEPT ![c] = ws]
     ELSE cmd' = [cmd EXCEPT ![c] = "failed"] /\ UNCHANGED <<way, via>>  \* GATEWAY_OFFLINE
  /\ UNCHANGED <<netVars, bridgeVars>>

(* An answer to a request that is no longer pending is dropped.              *)
Delivered(c) ==
  /\ way[c] \in {"success", "failure"} /\ via[c] # NoSocket /\ link[via[c]] = "open"
  /\ way' = [way EXCEPT ![c] = "over"] /\ via' = [via EXCEPT ![c] = NoSocket]
  /\ cmd' = [cmd EXCEPT ![c] =
       IF @ # "pending" THEN @ ELSE IF way[c] = "success" THEN "done" ELSE "failed"]
  /\ UNCHANGED <<netVars, bridgeVars>>

RequestTimesOut(c) ==
  /\ cmd[c] = "pending" /\ cmd' = [cmd EXCEPT ![c] = "failed"]
  /\ UNCHANGED <<netVars, way, via, bridgeVars>>

-----------------------------------------------------------------------------
(* The gateway and the bridge behind it.                                     *)
AtGateway(c) == way[c] = "sent" /\ via[c] # NoSocket /\ link[via[c]] = "open"

Mutant_GatewayReceives(c) ==
  /\ AtGateway(c)
  /\ \/ ipcUp /\ RR!Ask(c) /\ way' = [way EXCEPT ![c] = "core"]
     \/ ~ipcUp /\ way' = [way EXCEPT ![c] = "success"] /\ UNCHANGED <<stage, replied>>
  /\ UNCHANGED <<netVars, ipcUp, cmd, via>>

GatewayReceives(c) ==
  /\ AtGateway(c)
  /\ \/ ipcUp /\ RR!Ask(c) /\ way' = [way EXCEPT ![c] = "core"]
     \/ /\ ~ipcUp /\ way' = [way EXCEPT ![c] = "failure"]  \* CORE_OFFLINE
        /\ UNCHANGED <<stage, replied>>
  /\ UNCHANGED <<netVars, ipcUp, cmd, via>>

Waiting == {c \in Commands : stage[c] = "waiting"}

(* Replies that come too late are dropped by the bridge (RequestReply).      *)
CoreReplies(c) ==
  /\ c \in Waiting /\ RR!Reply(c)
  /\ \E verdict \in {"success", "failure"} : way' = [way EXCEPT ![c] = verdict]
  /\ UNCHANGED <<netVars, ipcUp, cmd, via>>

GivenUp(Some, error) ==
  /\ RR!GiveUp /\ stage' = [c \in Commands |-> IF c \in Some THEN error ELSE stage[c]]
  /\ way' = [c \in Commands |-> IF c \in Some THEN "failure" ELSE way[c]]

BridgeGivesUp(c) ==
  /\ c \in Waiting /\ GivenUp({c}, "timeout")
  /\ UNCHANGED <<netVars, ipcUp, cmd, via>>

BridgeFalls ==
  /\ ipcUp /\ ipcUp' = FALSE /\ GivenUp(Waiting, "closed")
  /\ UNCHANGED <<netVars, cmd, via>>

BridgeConnects ==
  /\ ~ipcUp /\ ipcUp' = TRUE
  /\ UNCHANGED <<netVars, cmd, way, via, stage, replied>>

-----------------------------------------------------------------------------
(* The WebSocket.                                                            *)
Free == {s \in Sockets : link[s] = "free"}

Connect ==
  IF Connected
  THEN UNCHANGED <<ws, link>>
  ELSE /\ Free # {} /\ ws' = CHOOSE s \in Free : TRUE
       /\ link' = [link EXCEPT ![ws'] = "connecting"]

ReconnectDue ==
  /\ retry /\ retry' = FALSE /\ Connect
  /\ UNCHANGED <<cmd, way, via, bridgeVars>>

(* btn-diag-retry runs init() again, whatever else is under way.             *)
RetryButton == Connect /\ UNCHANGED <<retry, cmd, way, via, bridgeVars>>

Linked(s, from, to) ==
  /\ link[s] \in from /\ link' = [link EXCEPT ![s] = to]
  /\ UNCHANGED bridgeVars

SocketOpens(s) ==
  Linked(s, {"connecting"}, "open") /\ UNCHANGED <<ws, retry, cmd, way, via>>

SocketBreaks(s) ==
  Linked(s, {"open"}, "dead") /\ UNCHANGED <<ws, retry, cmd, way, via>>

(* onclose of any socket takes this.ws and every pending request with it.    *)
SocketCloses(s) ==
  /\ Linked(s, {"connecting", "dead"}, "free")
  /\ ws' = NoSocket /\ retry' = TRUE
  /\ cmd' = [c \in Commands |-> IF cmd[c] = "pending" THEN "failed" ELSE cmd[c]]
  /\ via' = [c \in Commands |-> IF via[c] = s THEN NoSocket ELSE via[c]]
  /\ way' = [c \in Commands |-> IF via[c] = s /\ c \notin Waiting THEN "over" ELSE way[c]]

FrontNext ==
  \/ \E c \in Commands :
       \/ SendRequest(c) \/ Delivered(c) \/ RequestTimesOut(c)
       \/ GatewayReceives(c) \/ CoreReplies(c) \/ BridgeGivesUp(c)
  \/ BridgeFalls \/ BridgeConnects
  \/ ReconnectDue \/ RetryButton
  \/ \E s \in Sockets : SocketOpens(s) \/ SocketBreaks(s) \/ SocketCloses(s)

-----------------------------------------------------------------------------
FrontTypeOK ==
  /\ ws \in Sockets \cup {NoSocket} /\ {retry, ipcUp} \subseteq BOOLEAN
  /\ link \in [Sockets -> {"free", "connecting", "open", "dead"}]
  /\ cmd \in [Commands -> {"new", "pending", "done", "failed"}]
  /\ way \in [Commands -> {"none", "sent", "core", "success", "failure", "over"}]
  /\ via \in [Commands -> Sockets \cup {NoSocket}]

(* gateway.ts:344, "do NOT fake agent/vision/tool execution when Python Core *)
(* is offline": what is shown as done was answered by the core, and to this  *)
(* very command, however often the bridge or the WebSocket fell on the way.  *)
DoneMeansReplied == \A c \in Commands : cmd[c] = "done" => stage[c] = "answered" /\ c \in replied
=============================================================================
