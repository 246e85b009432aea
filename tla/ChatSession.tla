----------------------------- MODULE ChatSession -----------------------------
(***************************************************************************)
(* The ya client's end of /control/v1/ws, composed with the daemon's end   *)
(* of ControlSocket: WSClient, which dials, reads, reconnects and marks a  *)
(* chat interrupted (internal/client/ws_client.go), and the chat pane of   *)
(* the terminal workspace, which submits, cancels and applies the events   *)
(* (src/client_chat_workspace.go, src/client_chat_model.go).               *)
(*                                                                         *)
(* The reader goroutine of WSClient and the workspace's Update loop run    *)
(* side by side and meet in the event channel and under WSClient.mu.  Of   *)
(* the transcript only the answer that is being written is kept, as the    *)
(* set of the chats whose text it has.  Reconnecting waits at least half a *)
(* second, so the model lets the daemon's end of a lost connection and the *)
(* Update loop finish with it first.                                       *)
(***************************************************************************)
EXTENDS ControlSocket, FiniteSets

CONSTANTS
  EventBuffer,    \* the capacity of WSClient.events
  OutboundQueue   \* wsClientOutboundQueueSize

ASSUME ClientAssumption == {EventBuffer, OutboundQueue} \subseteq Nat \ {0}

VARIABLES
  run,        \* where WSClient.run is
  first,      \* the next frame is the connection's first
  fatal,      \* the daemon's protocol version is not the client's
  activeID,   \* WSClient.activeChatID, or 0
  events,     \* the event channel
  pane,       \* what the Update loop is doing
  state,      \* chatModel.state
  last,       \* the chat submitted last
  entry,      \* the answer being written, NoEntry when streamingIndex is none
  shown,      \* the daemon state on display, or -1
  dropped,    \* an event was dropped from a full channel
  restarted   \* a conversation was left while its chat ran

reader == <<run, first, fatal, activeID>>
screen == <<pane, state, last, entry, shown, restarted>>
vars == <<socketVars, reader, events, screen, dropped>>

NoEntry == {0}

Init ==
  /\ SocketInit
  /\ run = "dial" /\ first = FALSE /\ fatal = FALSE /\ activeID = 0
  /\ events = <<>>
  /\ pane = "ready" /\ state = "idle" /\ last = 0 /\ entry = NoEntry /\ shown = -1
  /\ dropped = FALSE /\ restarted = FALSE

Closed == pane = "closing"

\* emit: an event that does not fit is dropped.
Emitted(queue, event) ==
  IF Len(queue) < EventBuffer THEN Append(queue, event) ELSE queue

\* Nobody reads the events of a client that is closed.
Emit(event) ==
  IF Closed THEN UNCHANGED <<events, dropped>>
  ELSE /\ events' = Emitted(events, event)
       /\ dropped' = (dropped \/ Len(events) = EventBuffer)

\* Two in a row.
EmitBoth(event, other) ==
  IF Closed THEN UNCHANGED <<events, dropped>>
  ELSE /\ events' = Emitted(Emitted(events, event), other)
       /\ dropped' = (dropped \/ Len(events) + 1 >= EventBuffer)

HangUp == link' = "down" /\ up' = <<>> /\ down' = <<>>

(***************************************************************************)
(* WSClient.run.                                                           *)
(***************************************************************************)
\* A dial that does not look at closed again once it is connected.
DialBlind ==
  /\ run = "dial" /\ serve = "off" /\ pane # "sending"
  /\ link' = "up" /\ up' = <<>> /\ down' = <<>>
  /\ run' = "live" /\ first' = TRUE
  /\ UNCHANGED <<serve, held, chats, hub, turns, fatal, activeID, events, screen, dropped>>

\* connectOnce: a client closed while it dialled hangs up again.
Dial ==
  /\ run = "dial" /\ serve = "off" /\ pane # "sending"
  /\ IF Closed THEN run' = "lost" /\ UNCHANGED <<wire, first>>
     ELSE /\ link' = "up" /\ up' = <<>> /\ down' = <<>>
          /\ run' = "live" /\ first' = TRUE
  /\ UNCHANGED <<serve, held, chats, hub, turns, fatal, activeID, events, screen, dropped>>

\* The daemon does not answer the dial.
DialFails ==
  /\ run = "dial" /\ Turn
  /\ run' = "lost"
  /\ UNCHANGED <<wire, serve, held, chats, hub, first, fatal, activeID, events, screen, dropped>>

\* readLoop, for the hello frame: connected, or not the client's version.
ReadHello ==
  /\ run = "live" /\ first /\ down # <<>> /\ Head(down)[1] = "hello"
  /\ down' = Tail(down) /\ first' = FALSE
  /\ \/ Emit(<<"connected", 0>>) /\ UNCHANGED <<run, fatal>>
     \/ run' = "closing" /\ fatal' = TRUE /\ UNCHANGED <<events, dropped>>
  /\ UNCHANGED <<link, up, serve, held, chats, hub, turns, activeID, screen>>

\* dispatch, the part that clearActiveChat does.
Dispatch(frame) ==
  IF frame[1] \in {"done", "error"} /\ frame[2] = activeID THEN 0 ELSE activeID

\* readLoop, for any other frame; a hello that does not come first is ignored.
ReadFrame ==
  /\ run = "live" /\ down # <<>>
  /\ ~(first /\ Head(down)[1] = "hello")
  /\ down' = Tail(down) /\ first' = FALSE
  /\ activeID' = Dispatch(Head(down))
  /\ IF Head(down)[1] = "hello" THEN UNCHANGED <<events, dropped>>
     ELSE Emit(Head(down))
  /\ UNCHANGED <<link, up, serve, held, chats, hub, turns, run, fatal, screen>>

\* The read fails; the connection and the outbound channel are closed.
ReadFails ==
  /\ run = "live" /\ link = "down"
  /\ run' = "closing" /\ first' = FALSE
  /\ HangUp
  /\ UNCHANGED <<serve, held, chats, hub, turns, fatal, activeID, events, screen, dropped>>

\* connectOnce forgets the outbound channel and returns; a version that does
\* not fit ends the client.
ConnectReturns ==
  /\ run = "closing"
  /\ HangUp
  /\ run' = IF fatal THEN "stopped" ELSE "lost"
  /\ IF fatal THEN Emit(<<"fatal", 0>>) ELSE UNCHANGED <<events, dropped>>
  /\ UNCHANGED <<serve, held, chats, hub, turns, first, fatal, activeID, screen>>

\* A lost connection that forgets its chat without a word.
InterruptSilent ==
  /\ run = "lost"
  /\ run' = "wait"
  /\ activeID' = 0
  /\ Emit(<<"disconnected", 0>>)
  /\ UNCHANGED <<socketVars, first, fatal, screen>>

\* Disconnected, then markActiveChatInterrupted.
Interrupt ==
  /\ run = "lost"
  /\ run' = "wait"
  /\ activeID' = 0
  /\ IF activeID = 0 THEN Emit(<<"disconnected", 0>>)
     ELSE EmitBoth(<<"disconnected", 0>>, <<"interrupted", activeID>>)
  /\ UNCHANGED <<socketVars, first, fatal, screen>>

\* The backoff passes; a client that was closed stops here.
Retry ==
  /\ run = "wait" /\ (pane \in {"ready", "sending"} => events = <<>>)
  /\ run' = IF Closed THEN "stopped" ELSE "dial"
  /\ UNCHANGED <<socketVars, first, fatal, activeID, events, screen, dropped>>

(***************************************************************************)
(* The workspace.                                                          *)
(***************************************************************************)
\* finishRequest.
Finished == state' = "idle" /\ entry' = NoEntry

\* canSend without the test that no chat is in flight.
CanSendAlways == TRUE
CanSend == state = "idle"

\* submitChat up to WSClient.StartChat, which notes the active chat and then
\* sends.
Submit ==
  /\ pane = "ready" /\ CanSend /\ last < MaxChats /\ Turn
  /\ pane' = "sending" /\ state' = "awaiting" /\ entry' = NoEntry
  /\ last' = last + 1 /\ activeID' = last + 1
  /\ UNCHANGED <<wire, serve, held, chats, hub, run, first, fatal, events, shown, restarted, dropped>>

Connected == run = "live"

\* WSClient.send has no connection, or its queue is full.
SendStart ==
  /\ pane = "sending" /\ run # "closing"
  /\ pane' = "ready"
  /\ IF Connected /\ Len(up) < OutboundQueue
     THEN up' = Append(up, <<"start", last>>) /\ UNCHANGED <<state, entry>>
     ELSE UNCHANGED up /\ Finished
  /\ UNCHANGED <<link, down, serve, held, chats, hub, turns, reader, events, last, shown, restarted, dropped>>

\* The c key, while a chat is in flight.
Cancel ==
  /\ pane = "ready" /\ state # "idle" /\ run # "closing"
  /\ Connected /\ Len(up) < OutboundQueue
  /\ up' = Append(up, <<"cancel", 0>>)
  /\ UNCHANGED <<link, down, serve, held, chats, hub, turns, reader, events, screen, dropped>>

\* Between close(outbound) and the lock under which connectOnce forgets the
\* channel, send finds a closed channel, and the client ends with a panic.
SendOnClosed ==
  /\ run = "closing"
  /\ pane = "sending" \/ (pane = "ready" /\ state # "idle")
  /\ pane' = "crashed" /\ run' = "stopped" /\ events' = <<>>
  /\ HangUp
  /\ UNCHANGED <<serve, held, chats, hub, turns, first, fatal, activeID, state,
                 last, entry, shown, restarted, dropped>>

\* The n key: a new conversation, also while a chat runs.
NewChat ==
  /\ pane = "ready"
  /\ Finished
  /\ restarted' = (restarted \/ state # "idle")
  /\ UNCHANGED <<socketVars, reader, events, pane, last, shown, dropped>>

\* onRoute: a second route keeps the answer that was begun.
OnRoute ==
  IF state = "streaming" /\ entry # NoEntry THEN UNCHANGED <<state, entry>>
  ELSE state' = "streaming" /\ entry' = {}

\* onDelta.
OnDelta(i) ==
  /\ entry' = (IF entry = NoEntry THEN {} ELSE entry) \cup {i}
  /\ UNCHANGED state

\* handleWSEvent.  The request an event belongs to is not looked at.
HandleWSEvent ==
  /\ pane = "ready" /\ events # <<>>
  /\ events' = Tail(events)
  /\ shown' = IF Head(events)[1] = "state" THEN Head(events)[2] ELSE shown
  /\ CASE Head(events)[1] = "route" -> OnRoute
       [] Head(events)[1] = "delta" -> OnDelta(Head(events)[2])
       [] Head(events)[1] \in {"done", "error", "interrupted"} -> Finished
       [] OTHER -> UNCHANGED <<state, entry>>
  /\ UNCHANGED <<socketVars, reader, pane, last, restarted, dropped>>

\* The q key: WSClient.Close closes the connection, if there is one, and waits
\* for run.
Quit ==
  /\ pane = "ready"
  /\ pane' = "closing" /\ events' = <<>>
  /\ IF run \in {"live", "closing"} THEN HangUp ELSE UNCHANGED wire
  /\ UNCHANGED <<serve, held, chats, hub, turns, reader, state,
                 last, entry, shown, restarted, dropped>>

CloseReturns ==
  /\ pane = "closing" /\ run = "stopped"
  /\ pane' = "gone"
  /\ UNCHANGED <<socketVars, reader, events, state, last, entry, shown, restarted, dropped>>

-----------------------------------------------------------------------------
Client ==
  \/ Dial \/ ReadHello \/ ReadFrame \/ ReadFails \/ ConnectReturns
  \/ Interrupt \/ Retry

Workspace == SendStart \/ HandleWSEvent \/ CloseReturns

Next ==
  \/ SocketNext /\ UNCHANGED <<reader, events, screen, dropped>>
  \/ Client \/ DialFails
  \/ Workspace \/ SendOnClosed
  \/ Submit \/ Cancel \/ NewChat \/ Quit

Spec == Init /\ [][Next]_vars

(***************************************************************************)
(* The goroutines of both ends are scheduled, and a chat ends: the         *)
(* upstream request behind it has timeouts.  Nothing is assumed of the     *)
(* user, of the link, of restarts, or of when the daemon's state changes.  *)
(***************************************************************************)
FairSpec ==
  /\ Spec
  /\ WF_vars(Serving /\ UNCHANGED <<reader, events, screen, dropped>>)
  /\ \A i \in Ids : WF_vars(End(i) /\ UNCHANGED <<reader, events, screen, dropped>>)
  /\ WF_vars(Client)
  /\ WF_vars(Workspace)

(***************************************************************************)
(* Properties.                                                             *)
(***************************************************************************)
\* Every variable has its type, and no queue outgrows its bound: a client that
\* does not read costs the daemon at most wsOutboundQueueSize frames.
SessionTypeOK ==
  /\ link \in {"up", "down"} /\ Len(up) <= OutboundQueue /\ Len(down) <= QueueSize
  /\ serve \in {"off", "registered", "snapshot", "reply", "reading"}
  /\ chat \in [Ids -> ChatStates] /\ cancelled \subseteq Ids
  /\ chatCancel \in Ids \cup {0} /\ activeID \in Ids \cup {0}
  /\ run \in {"dial", "live", "closing", "lost", "wait", "stopped"}
  /\ Len(events) <= EventBuffer
  /\ pane \in {"ready", "sending", "closing", "gone", "crashed"}
  /\ state \in {"idle", "awaiting", "streaming"}
  /\ entry \subseteq Ids \cup {0}
  /\ {version, held} \subseteq Versions /\ {fingerprint, polled, shown} \subseteq Versions \cup {-1}

\* What is on its way to the Update loop, in order.
Coming == events \o down

\* A chat has one terminal event and it is the last: behind the done or error
\* of a chat nothing of that chat is on its way, and its handler has returned,
\* whatever is cancelled, refused or lost (HandleChatStart, WSConn.Send).
TerminalLast ==
  \A k \in 1..Len(Coming) :
    Coming[k][1] \in {"done", "error"} =>
      LET i == Coming[k][2] IN
      /\ chat[i] \in {"none", "ended"}
      /\ \A m \in (k + 1)..Len(Coming) :
           Coming[m][1] \in {"route", "delta", "done", "error"} => Coming[m][2] # i

\* The answer being written has text of one chat, the one submitted last,
\* although no event is matched with its request, unless the user left a
\* conversation whose chat was running (onRoute, onDelta, canSend).
OwnText ==
  ~restarted /\ entry # NoEntry => entry \subseteq {last}

\* When nothing is on its way, the workspace shows the state the hub compared
\* last: registering before the first snapshot is read leaves no gap, unless a
\* broadcast overtook that snapshot (serve, BroadcastNow).
Fresh ==
  /\ link = "up" /\ serve = "reading" /\ run = "live" /\ ~fatal
  /\ down = <<>> /\ events = <<>>
  /\ polled = -1 /\ ~raced /\ ~dropped /\ fingerprint # -1
  => shown >= fingerprint

\* A submitted chat comes to an end on screen, through refusals, cancellations,
\* lost connections and restarts, unless the user leaves the conversation, an
\* event is dropped, or the client ends.
ChatReturns ==
  (state # "idle") ~>
    (state = "idle" \/ restarted \/ dropped \/ run = "stopped" \/ pane = "closing")

\* WSClient.Close returns, wherever the connect loop is when it is called.
QuitReturns == (pane = "closing") ~> (pane = "gone")
=============================================================================
