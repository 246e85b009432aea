---------------------------- MODULE ControlSocket ----------------------------
(***************************************************************************)
(* The daemon's end of /control/v1/ws: one connection with its reader, its *)
(* bounded outbound queue and its chat goroutines                          *)
(* (internal/control/ws_server.go), the chat handler behind it             *)
(* (src/ws_chat_handler.go), and the hub that polls the daemon's state and *)
(* pushes it (internal/control/ws_state_hub.go).                           *)
(*                                                                         *)
(* A frame is a pair of its type and what it is about: the number of a     *)
(* chat, or the version of the daemon's state.  down is the outbound queue *)
(* with the socket behind it, up the client's queue with the socket.  The  *)
(* goroutines of a connection that is gone can reach no client any more,   *)
(* so the model forgets them with the connection.                          *)
(***************************************************************************)
EXTENDS Integers, Sequences

CONSTANTS
  MaxChats,    \* how many chats the user submits
  QueueSize,   \* wsOutboundQueueSize
  MaxTurns     \* how many chats, state changes and turns there are in all

ASSUME SocketAssumption ==
  /\ {MaxChats, QueueSize} \subseteq Nat \ {0}
  /\ MaxTurns \in Nat

VARIABLES
  link,        \* whether the connection's socket is open
  up, down,    \* the frames on their way
  serve,       \* where WSConn.serve is
  held,        \* the state HandleSnapshotRequest has read and not sent
  chat,        \* the goroutine of each chat
  cancelled,   \* chats whose context is cancelled
  chatCancel,  \* whose cancel function WSConn.chatCancel is, or 0
  version,     \* the daemon's state
  fingerprint, \* the state StateHub last compared, or -1
  polled,      \* the state BroadcastNow is about to send, or -1
  raced,       \* a broadcast overtook a snapshot that was read before it
  turns        \* the chats, changes and turns so far

wire == <<link, up, down>>
chats == <<chat, cancelled, chatCancel>>
hub == <<version, fingerprint, polled, raced>>
socketVars == <<wire, serve, held, chats, hub, turns>>

Ids == 1..MaxChats
Versions == 0..MaxTurns

ChatStates == {"none", "started", "routed", "rerouted", "said", "ended"}

SocketInit ==
  /\ link = "down" /\ up = <<>> /\ down = <<>>
  /\ serve = "off" /\ held = 0
  /\ chat = [i \in Ids |-> "none"] /\ cancelled = {} /\ chatCancel = 0
  /\ version = 0 /\ fingerprint = 0 /\ polled = -1 /\ raced = FALSE
  /\ turns = 0

Turn ==
  /\ turns < MaxTurns
  /\ turns' = turns + 1

\* A send that waits for room instead of giving up on a slow client.
SendGrows(type, about) ==
  IF link = "down" THEN UNCHANGED <<link, down>>
  ELSE down' = Append(down, <<type, about>>) /\ UNCHANGED link

\* A full queue closes the connection and the frame is lost.
Send(type, about) ==
  \/ link = "down" /\ UNCHANGED <<link, down>>
  \/ /\ link = "up" /\ Len(down) < QueueSize
     /\ down' = Append(down, <<type, about>>) /\ UNCHANGED link
  \/ /\ link = "up" /\ Len(down) = QueueSize
     /\ link' = "down" /\ UNCHANGED down

(***************************************************************************)
(* serve: upgrade and registration, hello, the first snapshot, the reader. *)
(***************************************************************************)
Accept ==
  /\ link = "up" /\ serve = "off"
  /\ serve' = "registered"
  /\ UNCHANGED <<wire, held, chats, hub, turns>>

SendHello ==
  /\ serve = "registered"
  /\ Send("hello", 0)
  /\ serve' = "snapshot"
  /\ UNCHANGED <<up, held, chats, hub, turns>>

\* HandleSnapshotRequest reads the state and sends what it read.  ya never sends
\* snapshot.request, so it runs once, on the way to the reader.
ReadState ==
  /\ serve = "snapshot"
  /\ held' = version
  /\ serve' = "reply"
  /\ UNCHANGED <<wire, chats, hub, turns>>

SendSnapshot ==
  /\ serve = "reply"
  /\ Send("state", held)
  /\ serve' = "reading" /\ held' = 0
  /\ UNCHANGED <<up, chats, hub, turns>>

\* chat.start: refused while chatCancel is set.
StartChat(i) ==
  IF chatCancel # 0 THEN Send("error", i) /\ UNCHANGED chats
  ELSE /\ chat' = [chat EXCEPT ![i] = "started"]
       /\ chatCancel' = i
       /\ UNCHANGED <<link, down, cancelled>>

\* chat.cancel, answered with the chat's error although the chat still runs.
CancelChatAnswers ==
  /\ cancelled' = cancelled \cup ({chatCancel} \cap Ids)
  /\ chatCancel' = 0
  /\ IF chatCancel # 0 THEN Send("error", chatCancel) ELSE UNCHANGED <<link, down>>
  /\ UNCHANGED chat

\* chat.cancel.
CancelChat ==
  /\ cancelled' = cancelled \cup ({chatCancel} \cap Ids)
  /\ chatCancel' = 0
  /\ UNCHANGED <<link, down, chat>>

ReadLoop ==
  /\ serve = "reading" /\ link = "up" /\ up # <<>>
  /\ up' = Tail(up)
  /\ IF Head(up)[1] = "start" THEN StartChat(Head(up)[2]) ELSE CancelChat
  /\ UNCHANGED <<serve, held, hub, turns>>

\* The reader fails, serve returns and the hub forgets the connection.
Teardown ==
  /\ serve # "off" /\ link = "down"
  /\ serve' = "off" /\ held' = 0
  /\ chat' = [i \in Ids |-> "none"] /\ cancelled' = {} /\ chatCancel' = 0
  /\ raced' = FALSE
  /\ UNCHANGED <<wire, version, fingerprint, polled, turns>>

(***************************************************************************)
(* The goroutine of a chat: HandleChatStart, then the deferred clean-up.   *)
(***************************************************************************)
Say(i, from, to, type) ==
  /\ chat[i] \in from
  /\ Send(type, i)
  /\ chat' = [chat EXCEPT ![i] = to]
  /\ UNCHANGED <<up, serve, held, cancelled, chatCancel, hub, turns>>

\* One chat.route per target; a second target only while nothing was said.
Route(i) ==
  \/ Say(i, {"started"}, "routed", "route")
  \/ Say(i, {"routed"}, "rerouted", "route")

\* The text comes as one delta.
Delta(i) == Say(i, {"routed", "rerouted"}, "said", "delta")

\* chat.error when the context is cancelled, or when the request failed, which
\* it may before any route; chat.done otherwise.
End(i) ==
  \/ Say(i, {"started", "routed", "rerouted", "said"}, "ended", "error")
  \/ i \notin cancelled /\ Say(i, {"routed", "rerouted", "said"}, "ended", "done")

\* The deferred function cancels whatever chatCancel is by now.
CleanUp(i) ==
  /\ chat[i] = "ended"
  /\ chat' = [chat EXCEPT ![i] = "none"]
  /\ cancelled' = (cancelled \cup ({chatCancel} \cap Ids)) \ {i}
  /\ chatCancel' = 0
  /\ UNCHANGED <<wire, serve, held, hub, turns>>

(***************************************************************************)
(* The hub.                                                                *)
(***************************************************************************)
StateChanges ==
  /\ Turn
  /\ version' = version + 1
  /\ UNCHANGED <<wire, serve, held, chats, fingerprint, polled, raced>>

\* BroadcastNow up to the comparison of the fingerprints.
Poll ==
  /\ polled = -1 /\ version # fingerprint
  /\ fingerprint' = version
  /\ polled' = version
  /\ UNCHANGED <<wire, serve, held, chats, version, raced, turns>>

\* A hub that learns of a connection after its first snapshot.
BroadcastLate ==
  /\ polled # -1
  /\ polled' = -1
  /\ IF serve = "reading" THEN Send("state", polled) ELSE UNCHANGED <<link, down>>
  /\ UNCHANGED <<up, serve, held, chats, version, fingerprint, raced, turns>>

\* The rest of BroadcastNow: every connection registered by now.
Broadcast ==
  /\ polled # -1
  /\ polled' = -1
  /\ IF serve # "off" THEN Send("state", polled) ELSE UNCHANGED <<link, down>>
  /\ raced' = (serve = "reply" /\ held # polled)
  /\ UNCHANGED <<up, serve, held, chats, version, fingerprint, turns>>

(***************************************************************************)
(* Faults.                                                                 *)
(***************************************************************************)
LinkDrops ==
  /\ link = "up"
  /\ Turn
  /\ link' = "down"
  /\ UNCHANGED <<up, down, serve, held, chats, hub>>

DaemonRestarts ==
  /\ Turn
  /\ link' = "down" /\ UNCHANGED <<up, down>>
  /\ serve' = "off" /\ held' = 0
  /\ chat' = [i \in Ids |-> "none"] /\ cancelled' = {} /\ chatCancel' = 0
  /\ fingerprint' = -1 /\ polled' = -1 /\ raced' = FALSE
  /\ UNCHANGED version

Serving ==
  \/ Accept \/ SendHello \/ ReadState \/ SendSnapshot \/ ReadLoop \/ Teardown
  \/ \E i \in Ids : CleanUp(i)

SocketNext ==
  \/ Serving
  \/ \E i \in Ids : Route(i) \/ Delta(i) \/ End(i)
  \/ StateChanges \/ Poll \/ Broadcast
  \/ LinkDrops \/ DaemonRestarts
=============================================================================
