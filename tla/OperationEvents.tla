-------------------------- MODULE OperationEvents ---------------------------
(***************************************************************************)
(* The event log of the operation store (nextEventLocked,                  *)
(* appendEventLocked, persistLocked, publish and Subscribe of              *)
(* internal/operation/store.go) and the two ways a client reads it: pages  *)
(* of Events(after), and the stream of serveOperationEvents that           *)
(* subscribes, replays the log and then forwards live events               *)
(* (internal/control/operation_resources.go).                              *)
(*                                                                         *)
(* A mutation numbers, stores and persists its event under Store.mu and    *)
(* publishes it after the unlock.  Which mutations an operation may make   *)
(* is the subject of OperationStore; here any operation may make one.      *)
(***************************************************************************)
EXTENDS Naturals, Sequences

CONSTANTS
    Operation,   \* operations, each mutated by one goroutine at a time
    Client,      \* readers that keep the last sequence number they received
    MaxEvents,   \* Options.MaxEvents
    Buffer,      \* the capacity of a subscription (32 in the code)
    MaxSequence, \* bound on the numbers given out
    NoEvent      \* nothing to publish

ASSUME EventAssumption ==
    /\ MaxEvents \in Nat \ {0}
    /\ Buffer \in Nat \ {0}
    /\ MaxSequence \in Nat

VARIABLES
    up,       \* the daemon runs
    log,      \* Store.events
    next,     \* Store.nextSequence
    file,     \* operations.json: events and next_sequence
    pending,  \* the event an operation's mutation has yet to publish
    stream,   \* a client's connection: "off", "subscribed", "live"
    buffer,   \* the channel of a client's subscription
    received  \* the events a client was sent, over all its connections

eventVars == <<up, log, next, file, pending, stream, buffer, received>>

EventsInit ==
    /\ up = TRUE
    /\ log = <<>>
    /\ next = 0
    /\ file = [log |-> <<>>, next |-> 0]
    /\ pending = [o \in Operation |-> NoEvent]
    /\ stream = [c \in Client |-> "off"]
    /\ buffer = [c \in Client |-> <<>>]
    /\ received = [c \in Client |-> <<>>]

AppendEvent(events, event) ==
    LET grown == Append(events, event) IN
    IF Len(grown) > MaxEvents THEN Tail(grown) ELSE grown

\* The cursor of a client: after, or Last-Event-ID on a reconnection.
After(c) == IF received[c] = <<>> THEN 0 ELSE received[c][Len(received[c])].seq

\* What a loop over a sequence collects that tests one element after the other:
\* the elements at some positions, in their order.
Collect(events, positions) ==
    LET order == CHOOSE f \in UNION {[1 .. n -> positions] : n \in 0 .. Len(events)} :
                    /\ \A m, n \in DOMAIN f : m < n => f[m] < f[n]
                    /\ \A i \in positions : \E n \in DOMAIN f : f[n] = i
    IN  [n \in DOMAIN order |-> events[order[n]]]

Events(after) == Collect(log, {i \in DOMAIN log : log[i].seq > after})

\* persistSnapshot: an error before the rename leaves the file, one after it
\* does not; memory goes back to the checkpoint in both cases.
Write(new, ok) ==
    IF ok THEN log' = new.log /\ next' = new.next /\ file' = new
          ELSE UNCHANGED <<log, next>> /\ file' \in {file, new}

-----------------------------------------------------------------------------
(* Mutations.                                                              *)

\* Mutant: the event is handed to the subscribers although the write failed.
MutateUnpersisted(o, ok) ==
    LET event == [seq |-> next + 1, op |-> o]
        new == [log |-> AppendEvent(log, event), next |-> next + 1] IN
    /\ up /\ pending[o] = NoEvent /\ next < MaxSequence
    /\ Write(new, ok)
    /\ pending' = [pending EXCEPT ![o] = event]
    /\ UNCHANGED <<up, stream, buffer, received>>

\* Create, Transition or UpdateProgress up to the unlock.
Mutate(o, ok) ==
    LET event == [seq |-> next + 1, op |-> o]
        new == [log |-> AppendEvent(log, event), next |-> next + 1] IN
    /\ up /\ pending[o] = NoEvent /\ next < MaxSequence
    /\ Write(new, ok)
    /\ pending' = [pending EXCEPT ![o] = IF ok THEN event ELSE NoEvent]
    /\ UNCHANGED <<up, stream, buffer, received>>

\* A subscriber whose channel is full misses the event.
Publish(o) ==
    /\ pending[o] # NoEvent
    /\ buffer' = [c \in Client |->
                    IF stream[c] # "off" /\ Len(buffer[c]) < Buffer
                        THEN Append(buffer[c], pending[o]) ELSE buffer[c]]
    /\ pending' = [pending EXCEPT ![o] = NoEvent]
    /\ UNCHANGED <<up, log, next, file, stream, received>>

-----------------------------------------------------------------------------
(* Readers.                                                                *)

\* One page of GET /control/v1/operations/events.
Poll(c) ==
    /\ up /\ stream[c] = "off" /\ Events(After(c)) # <<>>
    /\ received' = [received EXCEPT ![c] = @ \o Events(After(c))]
    /\ UNCHANGED <<up, log, next, file, pending, stream, buffer>>

Subscribe(c) ==
    /\ up /\ stream[c] = "off"
    /\ stream' = [stream EXCEPT ![c] = "subscribed"]
    /\ buffer' = [buffer EXCEPT ![c] = <<>>]
    /\ UNCHANGED <<up, log, next, file, pending, received>>

Replay(c) ==
    /\ stream[c] = "subscribed"
    /\ stream' = [stream EXCEPT ![c] = "live"]
    /\ received' = [received EXCEPT ![c] = @ \o Events(After(c))]
    /\ UNCHANGED <<up, log, next, file, pending, buffer>>

\* An event at or before the cursor is dropped.
Forward(c) ==
    /\ stream[c] = "live" /\ buffer[c] # <<>>
    /\ received' = [received EXCEPT ![c] =
                        IF Head(buffer[c]).seq <= After(c) THEN @
                        ELSE Append(@, Head(buffer[c]))]
    /\ buffer' = [buffer EXCEPT ![c] = Tail(@)]
    /\ UNCHANGED <<up, log, next, file, pending, stream>>

Disconnect(c) ==
    /\ stream[c] # "off"
    /\ stream' = [stream EXCEPT ![c] = "off"]
    /\ buffer' = [buffer EXCEPT ![c] = <<>>]
    /\ UNCHANGED <<up, log, next, file, pending, received>>

-----------------------------------------------------------------------------
(* The process.                                                            *)

Halt ==
    /\ up
    /\ up' = FALSE
    /\ pending' = [o \in Operation |-> NoEvent]
    /\ stream' = [c \in Client |-> "off"]
    /\ buffer' = [c \in Client |-> <<>>]
    /\ UNCHANGED <<log, next, file, received>>

\* Mutant: numbering restarts with the retained log.
NextFromFileShort(saved) == Len(saved.log)

\* Open: the larger of next_sequence and the numbers in the file.
NextFromFile(saved) ==
    LET numbers == {saved.next} \cup {saved.log[i].seq : i \in DOMAIN saved.log} IN
    CHOOSE n \in numbers : \A m \in numbers : m <= n

\* Open, when recoverLocked has nothing to end.
Restart ==
    /\ ~up
    /\ up' = TRUE
    /\ log' = file.log
    /\ next' = NextFromFile(file)
    /\ UNCHANGED <<file, pending, stream, buffer, received>>

\* Open, when it ends operation o: the event is written, never published.
RestartRecovers(o, ok) ==
    LET n == NextFromFile(file) + 1
        new == [log |-> AppendEvent(file.log, [seq |-> n, op |-> o]), next |-> n] IN
    /\ ~up /\ n <= MaxSequence
    /\ up' = ok
    /\ Write(new, ok)
    /\ UNCHANGED <<pending, stream, buffer, received>>

-----------------------------------------------------------------------------

EventsNext ==
    \/ \E o \in Operation, ok \in BOOLEAN : Mutate(o, ok) \/ RestartRecovers(o, ok)
    \/ \E o \in Operation : Publish(o)
    \/ \E c \in Client :
        Poll(c) \/ Subscribe(c) \/ Replay(c) \/ Forward(c) \/ Disconnect(c)
    \/ Halt
    \/ Restart

EventsSpec == EventsInit /\ [][EventsNext]_eventVars

-----------------------------------------------------------------------------
(* Properties.                                                             *)

\* A sequence number names one event: two clients, before and after any
\* failed write or restart, never receive different events under it, and no
\* client receives one twice.
SequenceNamesOneEvent ==
    \A c, d \in Client : \A i \in DOMAIN received[c], j \in DOMAIN received[d] :
        received[c][i].seq = received[d][j].seq =>
            /\ received[c][i] = received[d][j]
            /\ c = d => i = j

\* A mutation is persisted before observers receive its event: what a client
\* has received is in the file, unless the file has been trimmed past it.
ReceivedIsDurable ==
    \A c \in Client : \A i \in DOMAIN received[c] :
        \/ \E j \in DOMAIN file.log : file.log[j] = received[c][i]
        \/ file.log # <<>> /\ received[c][i].seq < Head(file.log).seq
=============================================================================
