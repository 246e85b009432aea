-------------------------- MODULE ChatSessionProofs --------------------------
(***************************************************************************)
(* Proofs about ChatSession: what reaches the Update loop, for any number  *)
(* of chats, turns, lost connections and restarts, and queues of any size. *)
(***************************************************************************)
EXTENDS ChatSession, TLAPS

-----------------------------------------------------------------------------
(* Queues.                                                                 *)

Frames(q) == {q[k] : k \in DOMAIN q}

Talk(f) == f[1] \in {"route", "delta", "done", "error"}
Final(f) == f[1] \in {"done", "error"}

\* The frames of chats, and the chats a queue has nothing of.
Talks(q) == {f \in Frames(q) : Talk(f)}
Quiet(q, i) == \A f \in Talks(q) : f[2] # i

Starts(u) == {i \in Ids : <<"start", i>> \in Frames(u)}

\* Nothing of a chat comes after its end.
Sealed(q) ==
  \A k, m \in DOMAIN q : k < m /\ Final(q[k]) /\ Talk(q[m]) => q[m][2] # q[k][2]

\* Nothing of any chat comes after an interruption.
CutOff(q) ==
  \A k, m \in DOMAIN q : k < m /\ q[k][1] = "interrupted" => ~Talk(q[m])

\* A chat is started once.
Once(u) ==
  \A k, m \in DOMAIN u : k < m /\ u[k][1] = "start" => u[m] # u[k]

\* A state older than v, and one that is not.
Stale(f, v) == f[1] = "state" /\ f[2] < v
Current(f, v) == f[1] = "state" /\ f[2] >= v

Clean(q, v) == \A f \in Frames(q) : ~Stale(f, v)

\* The last state in the queue is not older than v.
Carries(q, v) ==
  \E k \in DOMAIN q :
    /\ Current(q[k], v)
    /\ \A m \in DOMAIN q : k < m => ~Stale(q[m], v)

-----------------------------------------------------------------------------
(* The inductive invariant.                                                *)

Request == ({"start"} \X Ids) \cup {<<"cancel", 0>>}

Frame ==
  ({"route", "delta", "done", "error"} \X Ids) \cup ({"state"} \X Versions)
  \cup {<<"hello", 0>>}

Event ==
  Frame \cup ({"interrupted"} \X Ids)
  \cup ({"connected", "disconnected", "fatal"} \X {0})

QueuesOK(u, d, e) ==
  /\ u \in Seq(Request) /\ Len(u) <= OutboundQueue
  /\ d \in Seq(Frame) /\ Len(d) <= QueueSize
  /\ e \in Seq(Event) /\ Len(e) <= EventBuffer

DaemonOK(l, s, c, n, cc) ==
  /\ l \in {"up", "down"}
  /\ s \in {"off", "registered", "snapshot", "reply", "reading"}
  /\ c \in [Ids -> ChatStates] /\ n \subseteq Ids /\ cc \in Ids \cup {0}

HubOK(v, fp, p, h, s, t) ==
  /\ t \in Versions /\ v \in 0..t /\ h \in Versions
  /\ fp \in -1..v /\ p \in {-1, fp} /\ s \in Versions \cup {-1}

ClientOK(r, p, st, l, a, en) ==
  /\ r \in {"dial", "live", "closing", "lost", "wait", "stopped"}
  /\ p \in {"ready", "sending", "closing", "gone", "crashed"}
  /\ st \in {"idle", "awaiting", "streaming"}
  /\ l \in 0..MaxChats /\ (p = "sending" => l # 0 /\ st = "awaiting")
  /\ a \in Ids \cup {0} /\ en \subseteq Ids \cup {0}

Typed ==
  /\ QueuesOK(up, down, events)
  /\ DaemonOK(link, serve, chat, cancelled, chatCancel)
  /\ HubOK(version, fingerprint, polled, held, shown, turns)
  /\ ClientOK(run, pane, state, last, activeID, entry)

\* What goes with where the two loops are.
Placed ==
  /\ run \in {"dial", "lost", "wait", "stopped"} =>
       link = "down" /\ up = <<>> /\ down = <<>>
  /\ pane = "closing" => link = "down" /\ events = <<>>
  /\ pane \in {"crashed", "gone"} => run = "stopped"
  /\ serve = "off" => \A i \in Ids : chat[i] = "none"
  /\ \A f \in Frames(events) : f[1] = "interrupted" => run = "wait"
  /\ CutOff(events)

Unsent == {i \in Ids : i > last \/ (i = last /\ pane = "sending")}

\* The life of a chat: unsent, started, running, over.  Nothing of it is on its
\* way before it runs, and nothing new after its end.
Life(u, e, d, c, unsent) ==
  /\ Sealed(e) /\ Sealed(d) /\ Once(u)
  /\ \A i \in unsent \cup Starts(u) : c[i] = "none" /\ Quiet(e, i) /\ Quiet(d, i)
  /\ unsent \cap Starts(u) = {}
  /\ \A f \in Talks(e) \cup Talks(d) : Final(f) => c[f[2]] \in {"none", "ended"}
  /\ \A f \in Talks(e) : Final(f) => Quiet(d, f[2])

Lives == Life(up, events, down, chat, Unsent)

\* The chat in flight, if the workspace knows of one.
Flight == IF state = "idle" \/ pane = "sending" THEN {} ELSE {last}

\* All that is on its way is of the chat in flight.
OwnOnly(coming, starts, l, c, e, flight) ==
  /\ \A f \in coming : f[2] \in flight
  /\ starts \subseteq flight
  /\ l = "up" => \A i \in Ids : c[i] \notin {"none", "ended"} => i \in flight
  /\ e = NoEntry \/ e \subseteq flight

Own ==
  ~restarted =>
    OwnOnly(Talks(events) \cup Talks(down), Starts(up), link, chat, entry, Flight)

\* What the daemon holds, what is on its way and what is shown is, taken in this
\* order, not older than v.
Follows(d, e, s, v) ==
  Carries(d, v) \/ (Clean(d, v) /\ (Carries(e, v) \/ (Clean(e, v) /\ s >= v)))

Freshness ==
  polled = -1 /\ ~raced =>
    /\ serve = "reply" => held >= fingerprint
    /\ serve = "reading" /\ link = "up" /\ run = "live" /\ ~dropped =>
         Follows(down, events, shown, fingerprint)

SessionInv == Typed /\ Placed /\ Lives /\ Own /\ Freshness

-----------------------------------------------------------------------------
(* What the operations on queues do.                                       *)

\* Append adds its frame, behind all others.
LEMMA Appends ==
  ASSUME NEW S, NEW q \in Seq(S), NEW f \in S
  PROVE  /\ Append(q, f) \in Seq(S) /\ Len(Append(q, f)) = Len(q) + 1
         /\ DOMAIN q = 1..Len(q) /\ DOMAIN Append(q, f) = 1..(Len(q) + 1)
         /\ \A k \in 1..Len(q) : Append(q, f)[k] = q[k]
         /\ Append(q, f)[Len(q) + 1] = f
         /\ Frames(Append(q, f)) = Frames(q) \cup {f}
  <1>1. /\ Append(q, f) \in Seq(S) /\ Len(Append(q, f)) = Len(q) + 1
        /\ DOMAIN q = 1..Len(q) /\ DOMAIN Append(q, f) = 1..(Len(q) + 1)
        /\ \A k \in 1..Len(q) : Append(q, f)[k] = q[k]
        /\ Append(q, f)[Len(q) + 1] = f
        /\ Len(q) \in Nat
    OBVIOUS
  <1>2. 1..(Len(q) + 1) = 1..Len(q) \cup {Len(q) + 1}
    BY <1>1
  <1> DEFINE r == Append(q, f)
  <1> HIDE DEF r
  <1>3. Frames(r) = {r[k] : k \in 1..Len(q) \cup {Len(q) + 1}}
    BY <1>1, <1>2 DEF Frames, r
  <1>4. {r[k] : k \in 1..Len(q) \cup {Len(q) + 1}} = {q[k] : k \in 1..Len(q)} \cup {f}
    BY <1>1 DEF r
  <1> QED BY <1>1, <1>3, <1>4 DEF Frames, r

\* The frames after an Append.
LEMMA AppendsFrames ==
  ASSUME NEW S, NEW q \in Seq(S), NEW f \in S
  PROVE  Frames(Append(q, f)) = Frames(q) \cup {f}
  BY Appends

\* Two queues one behind the other.
LEMMA Joins ==
  ASSUME NEW S, NEW e \in Seq(S), NEW d \in Seq(S), Sealed(e), Sealed(d),
         \A f \in Talks(e) : Final(f) => Quiet(d, f[2])
  PROVE  /\ Sealed(e \o d) /\ DOMAIN (e \o d) = 1..Len(e \o d) /\ Len(e \o d) \in Nat
         /\ \A k \in DOMAIN (e \o d) : (e \o d)[k] \in Frames(e) \cup Frames(d)
  <1> DEFINE q == e \o d
             n == Len(e)
             l == Len(d)
  <1>1. /\ n \in Nat /\ l \in Nat /\ DOMAIN e = 1..n /\ DOMAIN d = 1..l
        /\ DOMAIN q = 1..(n + l) /\ Len(q) = n + l
        /\ \A k \in 1..(n + l) : q[k] = IF k <= n THEN e[k] ELSE d[k - n]
    OBVIOUS
  <1> HIDE DEF q, n, l
  <1>2. ASSUME NEW k \in DOMAIN q
        PROVE  \/ k <= n /\ k \in DOMAIN e /\ q[k] = e[k]
               \/ ~(k <= n) /\ k - n \in DOMAIN d /\ q[k] = d[k - n]
    <2>1. k \in 1..(n + l)
      BY <1>1
    <2>2. CASE k <= n
      <3>1. k \in DOMAIN e
        BY <1>1, <2>1, <2>2
      <3> QED BY <1>1, <2>1, <2>2, <3>1
    <2>3. CASE ~(k <= n)
      <3>1. k - n \in DOMAIN d
        BY <1>1, <2>1, <2>3
      <3> QED BY <1>1, <2>1, <2>3, <3>1
    <2> QED BY <2>2, <2>3
  <1>3. ASSUME NEW k \in DOMAIN q, NEW m \in DOMAIN q, k < m, Final(q[k]), Talk(q[m])
        PROVE  q[m][2] # q[k][2]
    <2>1. CASE m <= n
      <3>1. k <= n
        BY <1>1, <1>3, <2>1
      <3>2. k \in DOMAIN e /\ m \in DOMAIN e /\ q[k] = e[k] /\ q[m] = e[m]
        BY <1>2, <2>1, <3>1
      <3> QED BY <1>3, <3>2, Zenon DEF Sealed
    <2>2. CASE ~(m <= n) /\ k <= n
      <3>1. k \in DOMAIN e /\ q[k] = e[k] /\ m - n \in DOMAIN d /\ q[m] = d[m - n]
        BY <1>2, <2>2
      <3>2. q[k] \in Talks(e) /\ q[m] \in Talks(d)
        BY <1>3, <3>1, Zenon DEF Talks, Frames, Final, Talk
      <3> QED BY <1>3, <3>2, Zenon DEF Quiet
    <2>3. CASE ~(k <= n)
      <3>1. ~(m <= n) /\ k - n < m - n
        BY <1>1, <1>3, <2>3
      <3>2. k - n \in DOMAIN d /\ m - n \in DOMAIN d /\ q[k] = d[k - n] /\ q[m] = d[m - n]
        BY <1>2, <2>3, <3>1
      <3> QED BY <1>3, <3>1, <3>2, Zenon DEF Sealed
    <2> QED BY <2>1, <2>2, <2>3
  <1>4. Sealed(q)
    BY <1>3 DEF Sealed
  <1>5. \A k \in DOMAIN q : q[k] \in Frames(e) \cup Frames(d)
    BY <1>2, Zenon DEF Frames
  <1>6. DOMAIN q = 1..Len(q) /\ Len(q) \in Nat
    BY <1>1
  <1> QED BY <1>4, <1>5, <1>6, Zenon DEF q

\* Head and Tail take the first frame off.
LEMMA Takes ==
  ASSUME NEW S, NEW q \in Seq(S), q # <<>>
  PROVE  /\ Head(q) \in S /\ Head(q) = q[1] /\ Len(q) \in Nat \ {0}
         /\ Tail(q) \in Seq(S) /\ Len(Tail(q)) = Len(q) - 1
         /\ DOMAIN q = 1..Len(q) /\ DOMAIN Tail(q) = 1..(Len(q) - 1)
         /\ \A k \in 1..(Len(q) - 1) : Tail(q)[k] = q[k + 1] /\ k + 1 \in 1..Len(q)
         /\ Frames(q) = {Head(q)} \cup Frames(Tail(q))
  <1>1. /\ Head(q) \in S /\ Head(q) = q[1] /\ Len(q) \in Nat \ {0}
        /\ Tail(q) \in Seq(S) /\ Len(Tail(q)) = Len(q) - 1
        /\ DOMAIN q = 1..Len(q) /\ DOMAIN Tail(q) = 1..(Len(q) - 1)
    OBVIOUS
  <1>2. \A k \in 1..(Len(q) - 1) : Tail(q)[k] = q[k + 1] /\ k + 1 \in 1..Len(q)
    BY <1>1
  <1> DEFINE t == Tail(q)
  <1> HIDE DEF t
  <1>3. ASSUME NEW k \in DOMAIN q
        PROVE  q[k] \in {Head(q)} \cup Frames(t)
    <2>1. CASE k = 1
      BY <1>1, <2>1
    <2>2. CASE k # 1
      <3>1. k - 1 \in 1..(Len(q) - 1) /\ (k - 1) + 1 = k
        BY <1>1, <2>2
      <3>2. t[k - 1] = q[k] /\ k - 1 \in DOMAIN t
        BY <1>1, <1>2, <3>1 DEF t
      <3> QED BY <3>2 DEF Frames
    <2> QED BY <2>1, <2>2
  <1>4. Head(q) \in Frames(q)
    BY <1>1 DEF Frames
  <1>5. Frames(t) \subseteq Frames(q)
    BY <1>1, <1>2 DEF Frames, t
  <1>6. Frames(q) \subseteq {Head(q)} \cup Frames(t)
    BY <1>3 DEF Frames
  <1> QED BY <1>1, <1>2, <1>4, <1>5, <1>6 DEF t

\* An empty queue.
LEMMA Empty ==
  /\ \A S : <<>> \in Seq(S)
  /\ Len(<<>>) = 0 /\ Frames(<<>>) = {} /\ Talks(<<>>) = {} /\ Starts(<<>>) = {}
  /\ Sealed(<<>>) /\ CutOff(<<>>) /\ Once(<<>>)
  <1>1. DOMAIN <<>> = {} /\ Len(<<>>) = 0 /\ \A S : <<>> \in Seq(S)
    OBVIOUS
  <1>2. Frames(<<>>) = {}
    BY <1>1 DEF Frames
  <1> QED BY <1>1, <1>2 DEF Talks, Starts, Sealed, CutOff, Once

\* A frame that is of no chat changes nothing for chats.
LEMMA AppendsOther ==
  ASSUME NEW S, NEW q \in Seq(S), NEW f \in S, ~Talk(f)
  PROVE  /\ Talks(Append(q, f)) = Talks(q)
         /\ Sealed(q) => Sealed(Append(q, f))
         /\ CutOff(q) => CutOff(Append(q, f))
  <1> DEFINE r == Append(q, f)
             n == Len(q)
  <1>1. /\ DOMAIN q = 1..n /\ DOMAIN r = 1..(n + 1) /\ n \in Nat
        /\ \A k \in 1..n : r[k] = q[k]
        /\ r[n + 1] = f /\ Frames(r) = Frames(q) \cup {f}
    BY Appends
  <1> HIDE DEF r, n
  <1>2. Talks(r) = Talks(q)
    BY <1>1 DEF Talks
  <1>3. \A k, m \in DOMAIN r : k < m /\ Talk(r[m]) =>
          k \in DOMAIN q /\ m \in DOMAIN q /\ r[k] = q[k] /\ r[m] = q[m]
    <2> SUFFICES ASSUME NEW k \in DOMAIN r, NEW m \in DOMAIN r, k < m, Talk(r[m])
                 PROVE  k \in DOMAIN q /\ m \in DOMAIN q /\ r[k] = q[k] /\ r[m] = q[m]
      OBVIOUS
    <2>1. m # n + 1
      BY <1>1
    <2>2. k \in 1..n /\ m \in 1..n
      BY <1>1, <2>1
    <2> QED BY <1>1, <2>2
  <1>4. Sealed(q) => Sealed(r)
    BY <1>3 DEF Sealed
  <1>5. CutOff(q) => CutOff(r)
    BY <1>3 DEF CutOff
  <1> QED BY <1>2, <1>4, <1>5 DEF r

\* A frame of a chat that is not over may be added.
LEMMA AppendsTalk ==
  ASSUME NEW S, NEW q \in Seq(S), NEW f \in S, Talk(f),
         \A g \in Talks(q) : Final(g) => g[2] # f[2]
  PROVE  /\ Talks(Append(q, f)) = Talks(q) \cup {f}
         /\ Sealed(q) => Sealed(Append(q, f))
  <1> DEFINE r == Append(q, f)
             n == Len(q)
  <1>1. /\ DOMAIN q = 1..n /\ DOMAIN r = 1..(n + 1) /\ n \in Nat
        /\ \A k \in 1..n : r[k] = q[k]
        /\ r[n + 1] = f /\ Frames(r) = Frames(q) \cup {f}
    BY Appends
  <1> HIDE DEF r, n
  <1>2. Talks(r) = Talks(q) \cup {f}
    BY <1>1 DEF Talks
  <1>3. ASSUME Sealed(q), NEW k \in DOMAIN r, NEW m \in DOMAIN r, k < m, Final(r[k]), Talk(r[m])
        PROVE  r[m][2] # r[k][2]
    <2>1. k \in DOMAIN q /\ r[k] = q[k]
      BY <1>1, <1>3
    <2>2. CASE m = n + 1
      <3>1. q[k] \in Talks(q)
        BY <1>3, <2>1 DEF Talks, Frames, Talk, Final
      <3> QED BY <1>1, <1>3, <2>1, <2>2, <3>1
    <2>3. CASE m # n + 1
      <3>1. m \in DOMAIN q /\ r[m] = q[m]
        BY <1>1, <2>3
      <3> QED BY <1>3, <2>1, <3>1 DEF Sealed
    <2> QED BY <2>2, <2>3
  <1> QED BY <1>2, <1>3 DEF r, Sealed

\* Taking a frame off leaves an order that was right, and what the frame was
\* the end of does not come again.
LEMMA TakesOrder ==
  ASSUME NEW S, NEW q \in Seq(S), q # <<>>
  PROVE  /\ Talks(Tail(q)) \subseteq Talks(q)
         /\ Talk(Head(q)) => Head(q) \in Talks(q)
         /\ Sealed(q) => Sealed(Tail(q)) /\ (Final(Head(q)) => Quiet(Tail(q), Head(q)[2]))
         /\ CutOff(q) => CutOff(Tail(q)) /\ (Head(q)[1] = "interrupted" => Talks(Tail(q)) = {})
         /\ Once(q) => Once(Tail(q)) /\ (Head(q)[1] = "start" => Head(q) \notin Frames(Tail(q)))
  <1> DEFINE t == Tail(q)
             h == Head(q)
             n == Len(q)
  <1>1. /\ h = q[1] /\ n \in Nat \ {0} /\ DOMAIN q = 1..n /\ DOMAIN t = 1..(n - 1)
        /\ \A k \in 1..(n - 1) : t[k] = q[k + 1] /\ k + 1 \in 1..n
        /\ Frames(q) = {h} \cup Frames(t)
    BY Takes
  <1> HIDE DEF t, h, n
  <1>2. \A k \in DOMAIN t : k + 1 \in DOMAIN q /\ t[k] = q[k + 1] /\ 1 < k + 1 /\ 1 \in DOMAIN q
    BY <1>1
  <1>3. \A k, m \in DOMAIN t : k < m => k + 1 < m + 1
    BY <1>1
  <1>4. Talks(t) \subseteq Talks(q) /\ (Talk(h) => h \in Talks(q))
    BY <1>1 DEF Talks
  <1>5. ASSUME Sealed(q)
        PROVE  Sealed(t) /\ (Final(h) => Quiet(t, h[2]))
    <2>1. Sealed(t)
      BY <1>2, <1>3, <1>5 DEF Sealed
    <2>2. ASSUME Final(h), NEW f \in Talks(t)
          PROVE  f[2] # h[2]
      <3>1. PICK k \in DOMAIN t : t[k] = f
        BY <2>2 DEF Talks, Frames
      <3>2. Talk(f)
        BY <2>2 DEF Talks
      <3> QED BY <1>1, <1>2, <1>5, <2>2, <3>1, <3>2, SMTT(30) DEF Sealed
    <2> QED BY <2>1, <2>2 DEF Quiet
  <1>6. ASSUME CutOff(q)
        PROVE  CutOff(t) /\ (h[1] = "interrupted" => Talks(t) = {})
    <2>1. CutOff(t)
      BY <1>2, <1>3, <1>6 DEF CutOff
    <2>2. ASSUME h[1] = "interrupted", NEW f \in Talks(t)
          PROVE  FALSE
      <3>1. PICK k \in DOMAIN t : t[k] = f
        BY <2>2 DEF Talks, Frames
      <3>2. Talk(f)
        BY <2>2 DEF Talks
      <3> QED BY <1>1, <1>2, <1>6, <2>2, <3>1, <3>2 DEF CutOff
    <2> QED BY <2>1, <2>2
  <1>7. ASSUME Once(q)
        PROVE  Once(t) /\ (h[1] = "start" => h \notin Frames(t))
    <2>1. Once(t)
      BY <1>2, <1>3, <1>7 DEF Once
    <2>2. ASSUME h[1] = "start", h \in Frames(t)
          PROVE  FALSE
      <3>1. PICK k \in DOMAIN t : t[k] = h
        BY <2>2 DEF Frames
      <3> QED BY <1>1, <1>2, <1>7, <2>2, <3>1, SMTT(30) DEF Once
    <2> QED BY <2>1, <2>2
  <1> QED BY <1>4, <1>5, <1>6, <1>7 DEF t, h

\* A frame that is not stale may be added, and a current one is what counts.
LEMMA AppendsState ==
  ASSUME NEW S, NEW q \in Seq(S), NEW f \in S, NEW v
  PROVE  /\ ~Stale(f, v) /\ Clean(q, v) => Clean(Append(q, f), v)
         /\ ~Stale(f, v) /\ Carries(q, v) => Carries(Append(q, f), v)
         /\ Current(f, v) /\ ~Stale(f, v) => Carries(Append(q, f), v)
  <1> DEFINE r == Append(q, f)
             n == Len(q)
  <1>1. /\ DOMAIN q = 1..n /\ DOMAIN r = 1..(n + 1) /\ n \in Nat
        /\ \A k \in 1..n : r[k] = q[k]
        /\ r[n + 1] = f /\ Frames(r) = Frames(q) \cup {f}
    BY Appends
  <1> HIDE DEF r, n
  <1>2. ~Stale(f, v) /\ Clean(q, v) => Clean(r, v)
    BY <1>1 DEF Clean
  <1>3. ASSUME ~Stale(f, v), Carries(q, v)
        PROVE  Carries(r, v)
    <2>1. PICK k \in DOMAIN q : Current(q[k], v) /\ \A m \in DOMAIN q : k < m => ~Stale(q[m], v)
      BY <1>3 DEF Carries
    <2>2. k \in DOMAIN r /\ r[k] = q[k]
      BY <1>1
    <2>3. ASSUME NEW m \in DOMAIN r, k < m
          PROVE  ~Stale(r[m], v)
      <3>1. (m \in DOMAIN q /\ r[m] = q[m]) \/ r[m] = f
        BY <1>1
      <3> QED BY <1>3, <2>1, <2>3, <3>1
    <2> QED BY <2>1, <2>2, <2>3 DEF Carries
  <1>4. ASSUME Current(f, v), ~Stale(f, v)
        PROVE  Carries(r, v)
    <2>1. n + 1 \in DOMAIN r /\ \A m \in DOMAIN r : ~(n + 1 < m)
      BY <1>1
    <2> QED BY <1>1, <1>4, <2>1 DEF Carries
  <1> QED BY <1>2, <1>3, <1>4 DEF r

\* Of a queue that carries a current state the rest does, or the first frame
\* was it and nothing stale is left.
LEMMA TakesState ==
  ASSUME NEW S, NEW q \in Seq(S), q # <<>>, NEW v
  PROVE  /\ Clean(q, v) => Clean(Tail(q), v) /\ ~Stale(Head(q), v)
         /\ Carries(q, v) =>
              \/ Carries(Tail(q), v)
              \/ Current(Head(q), v) /\ Clean(Tail(q), v)
  <1> DEFINE t == Tail(q)
             h == Head(q)
             n == Len(q)
  <1>1. /\ h = q[1] /\ n \in Nat \ {0} /\ DOMAIN q = 1..n /\ DOMAIN t = 1..(n - 1)
        /\ \A k \in 1..(n - 1) : t[k] = q[k + 1] /\ k + 1 \in 1..n
        /\ Frames(q) = {h} \cup Frames(t)
    BY Takes
  <1> HIDE DEF t, h, n
  <1>2. Clean(q, v) => Clean(t, v) /\ ~Stale(h, v)
    BY <1>1 DEF Clean
  <1>3. ASSUME Carries(q, v)
        PROVE  Carries(t, v) \/ (Current(h, v) /\ Clean(t, v))
    <2>1. PICK k \in DOMAIN q : Current(q[k], v) /\ \A m \in DOMAIN q : k < m => ~Stale(q[m], v)
      BY <1>3 DEF Carries
    <2>2. CASE k = 1
      <3>1. ASSUME NEW f \in Frames(t)
            PROVE  ~Stale(f, v)
        <4>1. PICK m \in DOMAIN t : t[m] = f
          BY <3>1 DEF Frames
        <4>2. m + 1 \in DOMAIN q /\ q[m + 1] = f /\ k < m + 1
          BY <1>1, <2>2, <4>1
        <4> QED BY <2>1, <4>2
      <3> QED BY <1>1, <2>1, <2>2, <3>1 DEF Clean
    <2>3. CASE k # 1
      <3>1. k - 1 \in DOMAIN t /\ (k - 1) + 1 = k
        BY <1>1, <2>3
      <3>2. t[k - 1] = q[k]
        BY <1>1, <3>1
      <3>3. ASSUME NEW m \in DOMAIN t, k - 1 < m
            PROVE  ~Stale(t[m], v)
        <4>1. m + 1 \in DOMAIN q /\ t[m] = q[m + 1] /\ k < m + 1
          BY <1>1, <3>1, <3>3
        <4> QED BY <2>1, <4>1
      <3>4. Current(t[k - 1], v)
        BY <2>1, <3>2
      <3> DEFINE j == k - 1
      <3>5. /\ j \in DOMAIN t /\ Current(t[j], v)
            /\ \A m \in DOMAIN t : j < m => ~Stale(t[m], v)
        BY <3>1, <3>3, <3>4
      <3> HIDE DEF j
      <3> QED BY <3>5 DEF Carries
    <2> QED BY <2>2, <2>3
  <1> QED BY <1>2, <1>3 DEF t, h

-----------------------------------------------------------------------------
(* What Send and Emit do.                                                  *)

\* A frame is sent, or the connection is or goes down and the queue stays.
LEMMA Sends ==
  ASSUME Typed, NEW type, NEW about, <<type, about>> \in Frame, Send(type, about)
  PROVE  /\ down' \in Seq(Frame) /\ Len(down') <= QueueSize /\ link' \in {"up", "down"}
         /\ link' = "up" => link = "up" /\ down' = Append(down, <<type, about>>)
         /\ link' = "down" => down' = down
  <1>1. /\ down \in Seq(Frame) /\ Len(down) <= QueueSize /\ link \in {"up", "down"}
        /\ Len(down) \in Nat /\ QueueSize \in Nat
    BY SocketAssumption DEF Typed, QueuesOK, DaemonOK
  <1>2. Append(down, <<type, about>>) \in Seq(Frame)
        /\ Len(Append(down, <<type, about>>)) = Len(down) + 1
    BY <1>1, Appends
  <1>3. CASE link = "down"
    BY <1>1, <1>3 DEF Send
  <1>4. CASE link = "up" /\ Len(down) < QueueSize
    <2>1. down' = Append(down, <<type, about>>) /\ link' = link
      BY <1>1, <1>4 DEF Send
    <2> QED BY <1>1, <1>2, <1>4, <2>1
  <1>5. CASE link = "up" /\ Len(down) = QueueSize
    BY <1>1, <1>5 DEF Send
  <1> QED BY <1>1, <1>3, <1>4, <1>5

\* An event is emitted or dropped; a closed client does neither.
LEMMA Emits ==
  ASSUME Typed, NEW f \in Event, Emit(f)
  PROVE  /\ events' \in Seq(Event) /\ Len(events') <= EventBuffer
         /\ events' = events \/ events' = Append(events, f)
         /\ Closed => events' = events
         /\ ~Closed /\ ~dropped' => events' = Append(events, f)
         /\ ~dropped' => ~dropped
  <1>1. /\ events \in Seq(Event) /\ Len(events) <= EventBuffer
        /\ Len(events) \in Nat /\ EventBuffer \in Nat
    BY ClientAssumption DEF Typed, QueuesOK
  <1>2. Append(events, f) \in Seq(Event) /\ Len(Append(events, f)) = Len(events) + 1
    BY <1>1, Appends
  <1>3. CASE Closed
    BY <1>1, <1>3 DEF Emit
  <1>4. CASE ~Closed /\ Len(events) < EventBuffer
    <2>1. events' = Append(events, f)
      BY <1>4 DEF Emit, Emitted
    <2>2. ~dropped' => ~dropped
      BY <1>4, Zenon DEF Emit
    <2>3. Len(Append(events, f)) <= EventBuffer
      BY <1>1, <1>2, <1>4
    <2> QED BY <1>2, <1>4, <2>1, <2>2, <2>3
  <1>5. CASE ~Closed /\ Len(events) = EventBuffer
    <2>1. events' = events
      BY <1>1, <1>5 DEF Emit, Emitted
    <2>2. dropped'
      BY <1>5, Zenon DEF Emit
    <2> QED BY <1>1, <1>5, <2>1, <2>2
  <1> QED BY <1>1, <1>3, <1>4, <1>5

\* The two events of a lost connection: both, the first, or none fits.
LEMMA EmitsBoth ==
  ASSUME Typed, NEW f \in Event, NEW g \in Event, EmitBoth(f, g)
  PROVE  /\ events' \in Seq(Event) /\ Len(events') <= EventBuffer
         /\ \/ events' = events
            \/ Append(events, f) \in Seq(Event) /\ events' = Append(events, f)
            \/ Append(events, f) \in Seq(Event) /\ events' = Append(Append(events, f), g)
         /\ Closed => events' = events
  <1>1. /\ events \in Seq(Event) /\ Len(events) <= EventBuffer
        /\ Len(events) \in Nat /\ EventBuffer \in Nat
    BY ClientAssumption DEF Typed, QueuesOK
  <1> DEFINE r == Append(events, f)
  <1>2. r \in Seq(Event) /\ Len(r) = Len(events) + 1
    BY <1>1, Appends
  <1> HIDE DEF r
  <1>3. Append(r, g) \in Seq(Event) /\ Len(Append(r, g)) = Len(r) + 1
    BY <1>2, Appends
  <1>4. CASE Closed
    BY <1>1, <1>4 DEF EmitBoth
  <1>5. CASE ~Closed
    <2>1. events' = Emitted(Emitted(events, f), g)
      BY <1>5 DEF EmitBoth
    <2>2. CASE Len(events) < EventBuffer
      <3>1. events' = Emitted(r, g)
        BY <2>1, <2>2 DEF Emitted, r
      <3>2. CASE Len(r) < EventBuffer
        <4>1. events' = Append(r, g)
          BY <3>1, <3>2 DEF Emitted
        <4> QED BY <1>1, <1>2, <1>3, <1>5, <3>2, <4>1 DEF r
      <3>3. CASE ~(Len(r) < EventBuffer)
        <4>1. events' = r
          BY <3>1, <3>3 DEF Emitted
        <4>2. Len(r) <= EventBuffer
          BY <1>1, <1>2, <2>2
        <4> QED BY <1>2, <1>5, <4>1, <4>2 DEF r
      <3> QED BY <3>2, <3>3
    <2>3. CASE Len(events) = EventBuffer
      BY <1>1, <1>5, <2>1, <2>3 DEF Emitted
    <2> QED BY <1>1, <2>2, <2>3
  <1> QED BY <1>4, <1>5

-----------------------------------------------------------------------------
(* Types.                                                                  *)

\* Empty queues, and queues one shorter.
LEMMA QueuesShrink ==
  ASSUME NEW u, NEW d, NEW e, QueuesOK(u, d, e)
  PROVE  /\ QueuesOK(<<>>, d, e) /\ QueuesOK(u, <<>>, e) /\ QueuesOK(u, d, <<>>)
         /\ u # <<>> => QueuesOK(Tail(u), d, e) /\ Head(u) \in Request
         /\ d # <<>> => QueuesOK(u, Tail(d), e) /\ Head(d) \in Frame
         /\ e # <<>> => QueuesOK(u, d, Tail(e)) /\ Head(e) \in Event
  <1>1. /\ u \in Seq(Request) /\ Len(u) <= OutboundQueue /\ OutboundQueue \in Nat
        /\ d \in Seq(Frame) /\ Len(d) <= QueueSize /\ QueueSize \in Nat
        /\ e \in Seq(Event) /\ Len(e) <= EventBuffer /\ EventBuffer \in Nat
        /\ Len(u) \in Nat /\ Len(d) \in Nat /\ Len(e) \in Nat
    BY SocketAssumption, ClientAssumption DEF QueuesOK
  <1>2. \A S : <<>> \in Seq(S) /\ Len(<<>>) = 0
    BY Empty
  <1>3. QueuesOK(<<>>, d, e) /\ QueuesOK(u, <<>>, e) /\ QueuesOK(u, d, <<>>)
    BY <1>1, <1>2 DEF QueuesOK
  <1>4. ASSUME u # <<>> PROVE QueuesOK(Tail(u), d, e) /\ Head(u) \in Request
    <2>1. Tail(u) \in Seq(Request) /\ Len(Tail(u)) = Len(u) - 1 /\ Head(u) \in Request
      BY <1>1, <1>4, Takes
    <2> QED BY <1>1, <2>1 DEF QueuesOK
  <1>5. ASSUME d # <<>> PROVE QueuesOK(u, Tail(d), e) /\ Head(d) \in Frame
    <2>1. Tail(d) \in Seq(Frame) /\ Len(Tail(d)) = Len(d) - 1 /\ Head(d) \in Frame
      BY <1>1, <1>5, Takes
    <2> QED BY <1>1, <2>1 DEF QueuesOK
  <1>6. ASSUME e # <<>> PROVE QueuesOK(u, d, Tail(e)) /\ Head(e) \in Event
    <2>1. Tail(e) \in Seq(Event) /\ Len(Tail(e)) = Len(e) - 1 /\ Head(e) \in Event
      BY <1>1, <1>6, Takes
    <2> QED BY <1>1, <2>1 DEF QueuesOK
  <1> QED BY <1>3, <1>4, <1>5, <1>6

\* The steps of the client that leave no event behind.
LEMMA TypedClient ==
  ASSUME Typed,
         \/ DialFails \/ Retry \/ ReadFails \/ Dial \/ CloseReturns \/ SendOnClosed
         \/ Submit \/ NewChat \/ Quit
  PROVE  Typed'
  <1>0. /\ QueuesOK(<<>>, <<>>, events) /\ QueuesOK(<<>>, <<>>, <<>>)
        /\ QueuesOK(up, down, events) /\ QueuesOK(up, down, <<>>)
    BY QueuesShrink, Zenon DEF Typed
  <1>1. CASE DialFails
    <2>1. HubOK(version, fingerprint, polled, held, shown, turns)'
      BY <1>1, SocketAssumption DEF DialFails, Turn, Typed, HubOK, Versions, hub, screen
    <2>2. ClientOK(run, pane, state, last, activeID, entry)'
      BY <1>1 DEF DialFails, Typed, ClientOK, screen
    <2> QED BY <1>1, <2>1, <2>2 DEF DialFails, Typed, wire, chats
  <1>2. CASE Retry
    <2>1. ClientOK(run, pane, state, last, activeID, entry)'
      BY <1>2 DEF Retry, Typed, ClientOK, screen
    <2> QED BY <1>2, <2>1 DEF Retry, Typed, socketVars, wire, chats, hub, screen
  <1>3. CASE ReadFails
    <2>1. ClientOK(run, pane, state, last, activeID, entry)'
      BY <1>3 DEF ReadFails, Typed, ClientOK, screen
    <2>2. DaemonOK(link, serve, chat, cancelled, chatCancel)'
      BY <1>3 DEF ReadFails, HangUp, Typed, DaemonOK, chats
    <2> QED BY <1>0, <1>3, <2>1, <2>2 DEF ReadFails, HangUp, Typed, hub, screen
  <1>4. CASE Dial
    <2>1. ClientOK(run, pane, state, last, activeID, entry)'
      BY <1>4 DEF Dial, Typed, ClientOK, screen
    <2>2. DaemonOK(link, serve, chat, cancelled, chatCancel)'
      BY <1>4 DEF Dial, Typed, DaemonOK, chats, wire
    <2>3. QueuesOK(up, down, events)'
      BY <1>0, <1>4 DEF Dial, wire
    <2> QED BY <1>4, <2>1, <2>2, <2>3 DEF Dial, Typed, hub, screen
  <1>5. CASE CloseReturns
    <2>1. ClientOK(run, pane, state, last, activeID, entry)'
      BY <1>5 DEF CloseReturns, Typed, ClientOK, reader
    <2> QED BY <1>5, <2>1 DEF CloseReturns, Typed, socketVars, wire, chats, hub
  <1>6. CASE SendOnClosed
    <2>1. ClientOK(run, pane, state, last, activeID, entry)'
      BY <1>6 DEF SendOnClosed, Typed, ClientOK
    <2>2. DaemonOK(link, serve, chat, cancelled, chatCancel)'
      BY <1>6 DEF SendOnClosed, HangUp, Typed, DaemonOK, chats
    <2> QED BY <1>0, <1>6, <2>1, <2>2 DEF SendOnClosed, HangUp, Typed, hub
  <1>7. CASE Submit
    <2>1. HubOK(version, fingerprint, polled, held, shown, turns)'
      BY <1>7, SocketAssumption DEF Submit, Turn, Typed, HubOK, Versions, hub
    <2>2. ClientOK(run, pane, state, last, activeID, entry)'
      BY <1>7, SocketAssumption DEF Submit, Typed, ClientOK, NoEntry, Ids
    <2> QED BY <1>7, <2>1, <2>2 DEF Submit, Typed, wire, chats
  <1>8. CASE NewChat
    <2>1. ClientOK(run, pane, state, last, activeID, entry)'
      BY <1>8 DEF NewChat, Finished, Typed, ClientOK, NoEntry, reader
    <2> QED BY <1>8, <2>1 DEF NewChat, Typed, socketVars, wire, chats, hub
  <1>9. CASE Quit
    <2>1. ClientOK(run, pane, state, last, activeID, entry)'
      BY <1>9 DEF Quit, Typed, ClientOK, reader
    <2>2. DaemonOK(link, serve, chat, cancelled, chatCancel)'
      BY <1>9 DEF Quit, HangUp, Typed, DaemonOK, chats, wire
    <2>3. QueuesOK(up, down, events)'
      BY <1>0, <1>9 DEF Quit, HangUp, wire
    <2> QED BY <1>9, <2>1, <2>2, <2>3 DEF Quit, Typed, hub
  <1> QED BY <1>1, <1>2, <1>3, <1>4, <1>5, <1>6, <1>7, <1>8, <1>9

\* The members of the frames' types.
LEMMA Members ==
  /\ <<"hello", 0>> \in Frame /\ Frame \subseteq Event
  /\ <<"connected", 0>> \in Event /\ <<"disconnected", 0>> \in Event /\ <<"fatal", 0>> \in Event
  /\ <<"cancel", 0>> \in Request
  /\ \A v \in Versions : <<"state", v>> \in Frame
  /\ \A i \in Ids : /\ <<"interrupted", i>> \in Event /\ <<"start", i>> \in Request
                    /\ <<"route", i>> \in Frame /\ <<"delta", i>> \in Frame
                    /\ <<"done", i>> \in Frame /\ <<"error", i>> \in Frame
  /\ \A f \in Event : /\ Talk(f) => f[2] \in Ids
                      /\ f[1] = "state" => f[2] \in Versions
  /\ \A f \in Frame : f[1] # "interrupted"
  /\ \A f \in Request : f[1] = "start" => f[2] \in Ids /\ f = <<"start", f[2]>>
  BY DEF Frame, Event, Request, Talk

\* The events the client makes itself, which are of no chat.
LEMMA Notices ==
  \A t \in {"connected", "disconnected", "fatal"} : <<t, 0>> \in Event /\ ~Talk(<<t, 0>>)
  BY DEF Event, Talk

\* The state frames.
LEMMA StateFrames ==
  /\ \A v \in Versions : <<"state", v>> \in Frame
  /\ \A f \in Event : f[1] = "state" => f[2] \in Versions
  BY Members, Zenon

\* The steps of the client that read, send and emit.
LEMMA TypedEvents ==
  ASSUME Typed,
         \/ ReadHello \/ ReadFrame \/ ConnectReturns \/ Interrupt
         \/ HandleWSEvent \/ SendStart \/ Cancel
  PROVE  Typed'
  <1>0. QueuesOK(up, down, events)
    BY DEF Typed
  <1>1. CASE ReadHello
    <2>1. QueuesOK(up, Tail(down), events)
      BY <1>0, <1>1, QueuesShrink DEF ReadHello
    <2>2. QueuesOK(up, down, events)'
      <3>1. CASE Emit(<<"connected", 0>>)
        BY <1>1, <2>1, <3>1, Emits, Notices DEF ReadHello, QueuesOK
      <3>2. CASE UNCHANGED events
        BY <1>1, <2>1, <3>2 DEF ReadHello
      <3> QED BY <1>1, <3>1, <3>2 DEF ReadHello
    <2>3. ClientOK(run, pane, state, last, activeID, entry)'
      BY <1>1 DEF ReadHello, Typed, ClientOK, screen
    <2> QED BY <1>1, <2>2, <2>3 DEF ReadHello, Typed, chats, hub, screen
  <1>2. CASE ReadFrame
    <2>1. QueuesOK(up, Tail(down), events) /\ Head(down) \in Frame
      BY <1>0, <1>2, QueuesShrink, Zenon DEF ReadFrame
    <2>2. QueuesOK(up, down, events)'
      <3>1. CASE Emit(Head(down))
        BY <1>2, <2>1, <3>1, Emits, Members, Zenon DEF ReadFrame, QueuesOK
      <3>2. CASE UNCHANGED events
        BY <1>2, <2>1, <3>2 DEF ReadFrame
      <3> QED BY <1>2, <3>1, <3>2 DEF ReadFrame
    <2>3. ClientOK(run, pane, state, last, activeID, entry)'
      BY <1>2 DEF ReadFrame, Dispatch, Typed, ClientOK, screen
    <2> QED BY <1>2, <2>2, <2>3 DEF ReadFrame, Typed, chats, hub, screen
  <1>3. CASE ConnectReturns
    <2>1. QueuesOK(<<>>, <<>>, events)
      BY <1>0, QueuesShrink
    <2>2. QueuesOK(up, down, events)'
      <3>1. CASE Emit(<<"fatal", 0>>)
        BY <1>3, <2>1, <3>1, Emits, Notices DEF ConnectReturns, HangUp, QueuesOK
      <3>2. CASE UNCHANGED events
        BY <1>3, <2>1, <3>2 DEF ConnectReturns, HangUp
      <3> QED BY <1>3, <3>1, <3>2 DEF ConnectReturns
    <2>3. ClientOK(run, pane, state, last, activeID, entry)'
      BY <1>3 DEF ConnectReturns, Typed, ClientOK, screen
    <2>4. DaemonOK(link, serve, chat, cancelled, chatCancel)'
      BY <1>3 DEF ConnectReturns, HangUp, Typed, DaemonOK, chats
    <2> QED BY <1>3, <2>2, <2>3, <2>4 DEF ConnectReturns, Typed, hub, screen
  <1>4. CASE Interrupt
    <2>1. QueuesOK(up, down, events)'
      <3>1. CASE Emit(<<"disconnected", 0>>)
        BY <1>0, <1>4, <3>1, Emits, Notices DEF Interrupt, QueuesOK, socketVars, wire
      <3>2. CASE activeID # 0 /\ EmitBoth(<<"disconnected", 0>>, <<"interrupted", activeID>>)
        <4>1. activeID \in Ids
          BY <3>2 DEF Typed, ClientOK
        <4> QED BY <1>0, <1>4, <3>2, <4>1, EmitsBoth, Members, Zenon DEF Interrupt, QueuesOK, socketVars, wire
      <3> QED BY <1>4, <3>1, <3>2 DEF Interrupt
    <2>2. ClientOK(run, pane, state, last, activeID, entry)'
      BY <1>4 DEF Interrupt, Typed, ClientOK, screen
    <2> QED BY <1>4, <2>1, <2>2 DEF Interrupt, Typed, socketVars, wire, chats, hub, screen
  <1>5. CASE HandleWSEvent
    <2>1. QueuesOK(up, down, Tail(events)) /\ Head(events) \in Event
      BY <1>0, <1>5, QueuesShrink DEF HandleWSEvent
    <2>2. HubOK(version, fingerprint, polled, held, shown, turns)'
      BY <1>5, <2>1, StateFrames DEF HandleWSEvent, Typed, HubOK, socketVars, hub
    <2>3. Head(events)[1] = "delta" => Head(events)[2] \in Ids
      BY <2>1, Members DEF Talk
    <2>4. state' \in {"idle", "awaiting", "streaming"} /\ entry' \subseteq Ids \cup {0}
      BY <1>5, <2>3 DEF HandleWSEvent, OnRoute, OnDelta, Finished, NoEntry, Typed, ClientOK
    <2>5. ClientOK(run, pane, state, last, activeID, entry)'
      BY <1>5, <2>4 DEF HandleWSEvent, Typed, ClientOK, reader
    <2> QED BY <1>5, <2>1, <2>2, <2>5 DEF HandleWSEvent, Typed, socketVars, wire, chats
  <1>6. CASE SendStart
    <2>1. last \in Ids
      BY <1>6, SocketAssumption DEF SendStart, Typed, ClientOK, Ids
    <2>2. QueuesOK(up, down, events)'
      <3>1. CASE Len(up) < OutboundQueue /\ up' = Append(up, <<"start", last>>)
        <4>1. Append(up, <<"start", last>>) \in Seq(Request)
              /\ Len(Append(up, <<"start", last>>)) = Len(up) + 1 /\ Len(up) \in Nat
          <5>1. <<"start", last>> \in Request
            BY <2>1, Members, Zenon
          <5>2. up \in Seq(Request)
            BY <1>0 DEF QueuesOK
          <5> QED BY <5>1, <5>2, Appends
        <4> QED BY <1>0, <1>6, <3>1, <4>1, ClientAssumption DEF SendStart, QueuesOK
      <3>2. CASE UNCHANGED up
        BY <1>0, <1>6, <3>2 DEF SendStart
      <3> QED BY <1>6, <3>1, <3>2 DEF SendStart
    <2>3. ClientOK(run, pane, state, last, activeID, entry)'
      BY <1>6 DEF SendStart, Finished, NoEntry, Typed, ClientOK, reader
    <2> QED BY <1>6, <2>2, <2>3 DEF SendStart, Typed, DaemonOK, chats, hub
  <1>7. CASE Cancel
    <2>1. QueuesOK(up, down, events)'
      <3>1. Append(up, <<"cancel", 0>>) \in Seq(Request)
            /\ Len(Append(up, <<"cancel", 0>>)) = Len(up) + 1 /\ Len(up) \in Nat
        <4>1. <<"cancel", 0>> \in Request
          BY Members
        <4>2. up \in Seq(Request)
          BY <1>0 DEF QueuesOK
        <4> QED BY <4>1, <4>2, Appends
      <3> QED BY <1>0, <1>7, <3>1, ClientAssumption DEF Cancel, QueuesOK
    <2> QED BY <1>7, <2>1 DEF Cancel, Typed, chats, hub, screen, reader
  <1> QED BY <1>1, <1>2, <1>3, <1>4, <1>5, <1>6, <1>7

\* What a frame that is sent leaves of the types.
LEMMA TypedSends ==
  ASSUME Typed, NEW type, NEW about, <<type, about>> \in Frame, Send(type, about)
  PROVE  link' \in {"up", "down"} /\ (UNCHANGED <<up, events>> => QueuesOK(up, down, events)')
  <1>1. down' \in Seq(Frame) /\ Len(down') <= QueueSize /\ link' \in {"up", "down"}
    BY Sends
  <1> QED BY <1>1 DEF Typed, QueuesOK

\* A frame of a chat is sent by its goroutine.
LEMMA TypedSay ==
  ASSUME Typed, NEW i \in Ids, NEW from, NEW to \in ChatStates, NEW type,
         <<type, i>> \in Frame, Say(i, from, to, type),
         UNCHANGED <<reader, events, screen, dropped>>
  PROVE  Typed'
  <1>1. link' \in {"up", "down"} /\ QueuesOK(up, down, events)'
    BY TypedSends DEF Say
  <1>2. DaemonOK(link, serve, chat, cancelled, chatCancel)'
    BY <1>1 DEF Say, Typed, DaemonOK
  <1> QED BY <1>1, <1>2 DEF Say, Typed, hub, reader, screen

\* The steps of the daemon.
LEMMA TypedDaemon ==
  ASSUME Typed, SocketNext, UNCHANGED <<reader, events, screen, dropped>>
  PROVE  Typed'
  <1>0. /\ QueuesOK(up, down, events) /\ DaemonOK(link, serve, chat, cancelled, chatCancel)
        /\ HubOK(version, fingerprint, polled, held, shown, turns)
        /\ ClientOK(run, pane, state, last, activeID, entry)'
        /\ MaxTurns \in Nat
    BY SocketAssumption DEF Typed, reader, screen
  <1>u. shown' = shown /\ events' = events
    BY DEF screen
  <1>1. CASE Accept
    <2>1. DaemonOK(link, serve, chat, cancelled, chatCancel)'
      BY <1>0, <1>1 DEF Accept, DaemonOK, wire, chats
    <2> QED BY <1>0, <1>u, <1>1, <2>1 DEF Accept, Typed, wire, hub
  <1>2. CASE SendHello
    <2>1. link' \in {"up", "down"} /\ QueuesOK(up, down, events)'
      BY <1>u, <1>2, TypedSends, Members DEF SendHello
    <2>2. DaemonOK(link, serve, chat, cancelled, chatCancel)'
      BY <1>0, <1>2, <2>1 DEF SendHello, DaemonOK, chats
    <2> QED BY <1>0, <1>u, <1>2, <2>1, <2>2 DEF SendHello, Typed, hub
  <1>3. CASE ReadState
    <2>1. DaemonOK(link, serve, chat, cancelled, chatCancel)'
      BY <1>0, <1>3 DEF ReadState, DaemonOK, wire, chats
    <2>2. HubOK(version, fingerprint, polled, held, shown, turns)'
      BY <1>0, <1>u, <1>3 DEF ReadState, HubOK, hub, Versions
    <2> QED BY <1>0, <1>u, <1>3, <2>1, <2>2 DEF ReadState, Typed, wire
  <1>4. CASE SendSnapshot
    <2>1. held \in Versions /\ 0 \in Versions
      BY <1>0 DEF HubOK, Versions
    <2>2. link' \in {"up", "down"} /\ QueuesOK(up, down, events)'
      BY <1>u, <1>4, <2>1, TypedSends, Members, Zenon DEF SendSnapshot
    <2>3. DaemonOK(link, serve, chat, cancelled, chatCancel)'
      BY <1>0, <1>4, <2>2 DEF SendSnapshot, DaemonOK, chats
    <2>4. HubOK(version, fingerprint, polled, held, shown, turns)'
      BY <1>0, <1>u, <1>4, <2>1 DEF SendSnapshot, HubOK, hub
    <2> QED BY <1>0, <2>2, <2>3, <2>4 DEF Typed
  <1>5. CASE ReadLoop
    <2>1. QueuesOK(Tail(up), down, events) /\ Head(up) \in Request
      BY <1>0, <1>5, QueuesShrink DEF ReadLoop
    <2>2. CASE Head(up)[1] = "start"
      <3>1. Head(up)[2] \in Ids /\ <<"error", Head(up)[2]>> \in Frame
        BY <2>1, <2>2, Members, Zenon
      <3>2. CASE chatCancel # 0
        <4>1. Send("error", Head(up)[2]) /\ UNCHANGED chats
          BY <1>5, <2>2, <3>2 DEF ReadLoop, StartChat
        <4>2. down' \in Seq(Frame) /\ Len(down') <= QueueSize /\ link' \in {"up", "down"}
          BY <3>1, <4>1, Sends
        <4>3. QueuesOK(up, down, events)'
          BY <1>u, <1>5, <2>1, <4>2 DEF ReadLoop, QueuesOK
        <4>4. DaemonOK(link, serve, chat, cancelled, chatCancel)'
          BY <1>0, <1>5, <4>1, <4>2 DEF ReadLoop, DaemonOK, chats
        <4> QED BY <1>0, <1>u, <1>5, <4>3, <4>4 DEF ReadLoop, Typed, hub
      <3>3. CASE chatCancel = 0
        <4>1. /\ chat' = [chat EXCEPT ![Head(up)[2]] = "started"]
              /\ chatCancel' = Head(up)[2] /\ UNCHANGED <<link, down, cancelled>>
          BY <1>5, <2>2, <3>3, Zenon DEF ReadLoop, StartChat
        <4>2. DaemonOK(link, serve, chat, cancelled, chatCancel)'
          BY <1>0, <1>5, <3>1, <4>1 DEF ReadLoop, DaemonOK, ChatStates
        <4> QED BY <1>0, <1>u, <1>5, <2>1, <4>1, <4>2 DEF ReadLoop, Typed, hub
      <3> QED BY <3>2, <3>3
    <2>3. CASE Head(up)[1] # "start"
      <3>1. CancelChat
        BY <1>5, <2>3 DEF ReadLoop
      <3>2. DaemonOK(link, serve, chat, cancelled, chatCancel)'
        BY <1>0, <1>5, <3>1 DEF ReadLoop, CancelChat, DaemonOK
      <3> QED BY <1>0, <1>u, <1>5, <2>1, <3>1, <3>2, Zenon DEF ReadLoop, CancelChat, Typed, hub
    <2> QED BY <2>2, <2>3
  <1>6. CASE Teardown
    <2>1. DaemonOK(link, serve, chat, cancelled, chatCancel)'
      BY <1>0, <1>6 DEF Teardown, DaemonOK, ChatStates, wire
    <2>2. HubOK(version, fingerprint, polled, held, shown, turns)'
      BY <1>0, <1>u, <1>6 DEF Teardown, HubOK, Versions
    <2> QED BY <1>0, <1>u, <1>6, <2>1, <2>2 DEF Teardown, Typed, wire
  <1>7. ASSUME NEW i \in Ids, CleanUp(i)
        PROVE  Typed'
    <2>1. DaemonOK(link, serve, chat, cancelled, chatCancel)'
      BY <1>0, <1>7 DEF CleanUp, DaemonOK, ChatStates, wire
    <2> QED BY <1>0, <1>u, <1>7, <2>1 DEF CleanUp, Typed, wire, hub
  <1>8. ASSUME NEW i \in Ids, Route(i) \/ Delta(i) \/ End(i)
        PROVE  Typed'
    <2>1. /\ <<"route", i>> \in Frame /\ <<"delta", i>> \in Frame
          /\ <<"done", i>> \in Frame /\ <<"error", i>> \in Frame
          /\ {"routed", "rerouted", "said", "ended"} \subseteq ChatStates
      BY Members, Zenon DEF ChatStates
    <2>2. CASE Route(i)
      BY <2>1, <2>2, TypedSay DEF Route
    <2>3. CASE Delta(i)
      BY <2>1, <2>3, TypedSay DEF Delta
    <2>4. CASE End(i)
      BY <2>1, <2>4, TypedSay DEF End
    <2> QED BY <1>8, <2>2, <2>3, <2>4
  <1>9. CASE StateChanges
    <2>1. HubOK(version, fingerprint, polled, held, shown, turns)'
      BY <1>0, <1>u, <1>9 DEF StateChanges, Turn, HubOK, Versions
    <2> QED BY <1>0, <1>u, <1>9, <2>1 DEF StateChanges, Typed, wire, chats
  <1>10. CASE Poll
    <2>1. HubOK(version, fingerprint, polled, held, shown, turns)'
      BY <1>0, <1>u, <1>10 DEF Poll, HubOK, Versions
    <2> QED BY <1>0, <1>u, <1>10, <2>1 DEF Poll, Typed, wire, chats
  <1>11. CASE Broadcast
    <2>1. polled \in Versions
      BY <1>0, <1>11 DEF Broadcast, HubOK, Versions
    <2>2. link' \in {"up", "down"} /\ QueuesOK(up, down, events)'
      <3>1. CASE serve # "off"
        BY <1>u, <1>11, <2>1, <3>1, TypedSends, Members, Zenon DEF Broadcast
      <3>2. CASE serve = "off"
        BY <1>0, <1>u, <1>11, <3>2 DEF Broadcast, DaemonOK
      <3> QED BY <3>1, <3>2
    <2>3. DaemonOK(link, serve, chat, cancelled, chatCancel)'
      BY <1>0, <1>11, <2>2 DEF Broadcast, DaemonOK, chats
    <2>4. HubOK(version, fingerprint, polled, held, shown, turns)'
      BY <1>0, <1>u, <1>11 DEF Broadcast, HubOK
    <2> QED BY <1>0, <2>2, <2>3, <2>4 DEF Typed
  <1>12. CASE LinkDrops
    <2>1. DaemonOK(link, serve, chat, cancelled, chatCancel)'
      BY <1>0, <1>12 DEF LinkDrops, DaemonOK, chats
    <2>2. HubOK(version, fingerprint, polled, held, shown, turns)'
      BY <1>0, <1>u, <1>12 DEF LinkDrops, Turn, HubOK, Versions, hub
    <2> QED BY <1>0, <1>u, <1>12, <2>1, <2>2 DEF LinkDrops, Typed
  <1>13. CASE DaemonRestarts
    <2>1. DaemonOK(link, serve, chat, cancelled, chatCancel)'
      BY <1>0, <1>13 DEF DaemonRestarts, DaemonOK, ChatStates
    <2>2. HubOK(version, fingerprint, polled, held, shown, turns)'
      BY <1>0, <1>u, <1>13 DEF DaemonRestarts, Turn, HubOK, Versions
    <2> QED BY <1>0, <1>u, <1>13, <2>1, <2>2 DEF DaemonRestarts, Typed
  <1> QED
    BY <1>1, <1>2, <1>3, <1>4, <1>5, <1>6, <1>7, <1>8, <1>9, <1>10, <1>11, <1>12, <1>13
       DEF SocketNext, Serving

\* Every step keeps the types.
LEMMA TypedStep == Typed /\ [Next]_vars => Typed'
  <1>1. UNCHANGED vars /\ Typed => Typed'
    BY DEF vars, socketVars, wire, chats, hub, reader, screen, Typed
  <1> QED BY <1>1, TypedClient, TypedEvents, TypedDaemon DEF Next, Client, Workspace

-----------------------------------------------------------------------------
(* Where the two loops are.                                                *)

\* No event in the queue is an interruption.
Uncut(e) == \A f \in Frames(e) : f[1] # "interrupted"

\* An event that is not an interruption keeps what is said of the queue, if it
\* is of no chat or the client is not between two connections.
LEMMA PlacedEmits ==
  ASSUME Typed, Placed, NEW f \in Event, f[1] # "interrupted", Emit(f),
         ~Talk(f) \/ run # "wait"
  PROVE  /\ CutOff(events')
         /\ Uncut(events) => Uncut(events')
         /\ pane = "closing" => events' = <<>>
  <1>1. events' = events \/ events' = Append(events, f)
    BY Emits
  <1>2. events \in Seq(Event) /\ CutOff(events)
    BY DEF Typed, QueuesOK, Placed
  <1>3. Frames(Append(events, f)) = Frames(events) \cup {f}
    BY <1>2, AppendsFrames
  <1>4. Uncut(events) => Uncut(events')
    BY <1>1, <1>3, Zenon DEF Uncut
  <1>5. pane = "closing" => events' = <<>>
    BY Emits DEF Closed, Placed
  <1>6. CASE ~Talk(f)
    BY <1>1, <1>2, <1>4, <1>5, <1>6, AppendsOther, Zenon
  <1>7. CASE run # "wait"
    <2>1. Uncut(events')
      BY <1>4, <1>7 DEF Placed, Uncut
    <2>2. CutOff(events')
      BY <2>1 DEF Uncut, CutOff, Frames
    <2> QED BY <1>4, <1>5, <2>2
  <1> QED BY <1>6, <1>7

\* The steps of the client.
LEMMA PlacedClient ==
  ASSUME Typed, Placed,
         \/ Client \/ DialFails \/ Workspace \/ SendOnClosed
         \/ Submit \/ Cancel \/ NewChat \/ Quit
  PROVE  Placed'
  <1>0. /\ run \in {"dial", "live", "closing", "lost", "wait", "stopped"}
        /\ pane \in {"ready", "sending", "closing", "gone", "crashed"}
        /\ events \in Seq(Event) /\ down \in Seq(Frame)
    BY DEF Typed, ClientOK, QueuesOK
  <1>e. Frames(<<>>) = {} /\ CutOff(<<>>)
    BY Empty
  <1>1. CASE Dial
    BY <1>1 DEF Dial, Placed, Closed, wire, chats, screen
  <1>2. CASE ReadHello
    <2>1. /\ CutOff(events') /\ Uncut(events')
          /\ pane = "closing" => events' = <<>>
      <3>1. Uncut(events)
        BY <1>2 DEF ReadHello, Placed, Uncut
      <3>2. CASE Emit(<<"connected", 0>>)
        BY <3>1, <3>2, PlacedEmits, Members DEF Talk
      <3>3. CASE UNCHANGED events
        BY <3>1, <3>3 DEF Placed
      <3> QED BY <1>2, <3>2, <3>3 DEF ReadHello
    <2>2. run' \in {"live", "closing"} /\ UNCHANGED <<link, serve, chats, pane>>
      BY <1>2 DEF ReadHello, screen
    <2> QED BY <1>2, <2>1, <2>2 DEF ReadHello, Placed, Uncut, chats
  <1>3. CASE ReadFrame
    <2>1. Head(down) \in Frame /\ Head(down)[1] # "interrupted" /\ Head(down) \in Event
      BY <1>0, <1>3, Takes, Members, Zenon DEF ReadFrame
    <2>2. /\ CutOff(events') /\ Uncut(events')
          /\ pane = "closing" => events' = <<>>
      <3>1. Uncut(events)
        BY <1>3 DEF ReadFrame, Placed, Uncut
      <3>2. CASE Emit(Head(down))
        BY <1>3, <2>1, <3>1, <3>2, PlacedEmits DEF ReadFrame
      <3>3. CASE UNCHANGED events
        BY <3>1, <3>3 DEF Placed
      <3> QED BY <1>3, <3>2, <3>3 DEF ReadFrame
    <2>3. run' = "live" /\ run = "live" /\ UNCHANGED <<link, serve, chats, pane>>
      BY <1>3 DEF ReadFrame, screen
    <2> QED BY <2>2, <2>3 DEF Placed, Uncut, chats
  <1>4. CASE ReadFails
    BY <1>0, <1>4 DEF ReadFails, HangUp, Placed, chats, screen
  <1>5. CASE ConnectReturns
    <2>1. /\ CutOff(events') /\ Uncut(events')
          /\ pane = "closing" => events' = <<>>
      <3>1. Uncut(events)
        BY <1>5 DEF ConnectReturns, Placed, Uncut
      <3>2. CASE Emit(<<"fatal", 0>>)
        BY <3>1, <3>2, PlacedEmits, Members DEF Talk
      <3>3. CASE UNCHANGED events
        BY <3>1, <3>3 DEF Placed
      <3> QED BY <1>5, <3>2, <3>3 DEF ConnectReturns
    <2>2. run = "closing" /\ HangUp /\ UNCHANGED <<serve, chats, pane>>
      BY <1>5 DEF ConnectReturns, screen
    <2> QED BY <2>1, <2>2 DEF HangUp, Placed, Uncut, chats
  <1>6. CASE Interrupt
    <2>1. Uncut(events)
      BY <1>6 DEF Interrupt, Placed, Uncut
    <2>2. /\ CutOff(events')
          /\ pane = "closing" => events' = <<>>
      <3>1. CASE Emit(<<"disconnected", 0>>)
        BY <3>1, PlacedEmits, Members DEF Talk
      <3>2. CASE activeID # 0 /\ EmitBoth(<<"disconnected", 0>>, <<"interrupted", activeID>>)
        <4> DEFINE f == <<"disconnected", 0>>
                   g == <<"interrupted", activeID>>
                   q == Append(events, f)
        <4>1. f \in Event /\ g \in Event /\ ~Talk(f) /\ ~Talk(g)
          BY <3>2, Members, Zenon DEF Typed, ClientOK, Talk
        <4>2. EmitBoth(f, g)
          BY <3>2
        <4> HIDE DEF f, g
        <4>3. /\ events' = events \/ (q \in Seq(Event) /\ (events' = q \/ events' = Append(q, g)))
              /\ Closed => events' = events
          BY <4>1, <4>2, EmitsBoth
        <4>4. CutOff(events) /\ CutOff(q)
          BY <1>0, <4>1, AppendsOther DEF Placed
        <4> HIDE DEF q
        <4>5. q \in Seq(Event) => CutOff(Append(q, g))
          BY <4>1, <4>4, AppendsOther
        <4> QED BY <4>3, <4>4, <4>5, Zenon DEF Placed, Closed
      <3> QED BY <1>6, <3>1, <3>2 DEF Interrupt
    <2>3. run = "lost" /\ run' = "wait" /\ UNCHANGED <<socketVars, pane>>
      BY <1>6 DEF Interrupt, screen
    <2> QED BY <2>2, <2>3 DEF Placed, socketVars, wire, chats
  <1>7. CASE Retry
    <2>1. events = <<>>
      BY <1>0, <1>7 DEF Retry, Placed
    <2> QED BY <1>7, <1>e, <2>1 DEF Retry, Placed, socketVars, wire, chats, screen
  <1>8. CASE DialFails
    BY <1>0, <1>8 DEF DialFails, Placed, wire, chats, screen
  <1>9. CASE SendStart
    <2>1. run # "live" => up' = up
      BY <1>9 DEF SendStart, Connected
    <2> QED BY <1>0, <1>9, <2>1 DEF SendStart, Placed, chats, reader
  <1>10. CASE HandleWSEvent
    <2>1. Frames(events') \subseteq Frames(events) /\ CutOff(events')
      BY <1>0, <1>10, Takes, TakesOrder DEF HandleWSEvent, Placed
    <2>2. pane = "ready" /\ UNCHANGED <<socketVars, run, pane>>
      BY <1>10 DEF HandleWSEvent, reader
    <2> QED BY <2>1, <2>2 DEF Placed, socketVars, wire, chats
  <1>11. CASE CloseReturns
    BY <1>11 DEF CloseReturns, Placed, socketVars, wire, chats, reader
  <1>12. CASE SendOnClosed
    BY <1>12, <1>e DEF SendOnClosed, HangUp, Placed, chats
  <1>13. CASE Submit
    BY <1>13 DEF Submit, Placed, wire, chats
  <1>14. CASE Cancel
    BY <1>14 DEF Cancel, Connected, Placed, chats, reader, screen
  <1>15. CASE NewChat
    BY <1>15 DEF NewChat, Placed, socketVars, wire, chats, reader
  <1>16. CASE Quit
    BY <1>0, <1>16, <1>e DEF Quit, HangUp, Placed, wire, chats, reader
  <1> QED
    BY <1>1, <1>2, <1>3, <1>4, <1>5, <1>6, <1>7, <1>8, <1>9, <1>10, <1>11, <1>12,
       <1>13, <1>14, <1>15, <1>16 DEF Client, Workspace

\* The daemon sends nothing on a connection that is down.
LEMMA DownStays ==
  ASSUME SocketNext, link = "down"
  PROVE  link' = "down" /\ up' = up /\ down' = down
  <1>1. \A type, about : Send(type, about) => link' = "down" /\ down' = down
    BY DEF Send
  <1>2. CASE Serving
    <2>1. CASE Accept \/ ReadLoop
      BY <2>1 DEF Accept, ReadLoop
    <2>2. CASE SendHello \/ SendSnapshot
      BY <1>1, <2>2 DEF SendHello, SendSnapshot
    <2>3. CASE ReadState \/ Teardown \/ \E i \in Ids : CleanUp(i)
      BY <2>3 DEF ReadState, Teardown, CleanUp, wire
    <2> QED BY <1>2, <2>1, <2>2, <2>3 DEF Serving
  <1>3. CASE \E i \in Ids : Route(i) \/ Delta(i) \/ End(i)
    BY <1>1, <1>3 DEF Route, Delta, End, Say
  <1>4. CASE StateChanges \/ Poll
    BY <1>4 DEF StateChanges, Poll, wire
  <1>5. CASE Broadcast
    BY <1>1, <1>5 DEF Broadcast
  <1>6. CASE LinkDrops \/ DaemonRestarts
    BY <1>6 DEF LinkDrops, DaemonRestarts
  <1> QED BY <1>2, <1>3, <1>4, <1>5, <1>6 DEF SocketNext

\* A connection that is not served has no chats.
LEMMA OffStays ==
  ASSUME Typed, Placed, SocketNext, serve' = "off", NEW i \in Ids
  PROVE  chat'[i] = "none"
  <1>1. CASE Serving
    <2>1. CASE Accept \/ SendHello \/ SendSnapshot \/ ReadState \/ ReadLoop
      BY <2>1 DEF Accept, ReadLoop, ReadState, SendHello, SendSnapshot
    <2>2. CASE Teardown
      BY <2>2 DEF Teardown
    <2>3. ASSUME NEW j \in Ids, CleanUp(j) PROVE FALSE
      BY <2>3 DEF CleanUp, Placed
    <2> QED BY <1>1, <2>1, <2>2, <2>3 DEF Serving
  <1>2. ASSUME NEW j \in Ids, Route(j) \/ Delta(j) \/ End(j) PROVE FALSE
    BY <1>2 DEF Route, Delta, End, Say, Placed
  <1>3. CASE StateChanges \/ Poll \/ Broadcast \/ LinkDrops
    BY <1>3 DEF StateChanges, Poll, Broadcast, LinkDrops, Placed, chats
  <1>4. CASE DaemonRestarts
    BY <1>4 DEF DaemonRestarts
  <1> QED BY <1>1, <1>2, <1>3, <1>4 DEF SocketNext

\* Every step keeps what is said of the two loops.
LEMMA PlacedStep == Typed /\ Placed /\ [Next]_vars => Placed'
  <1>1. ASSUME Typed, Placed, SocketNext, UNCHANGED <<reader, events, screen, dropped>>
        PROVE  Placed'
    <2>1. UNCHANGED <<run, events, pane>>
      BY <1>1 DEF reader, screen
    <2>2. link = "down" => link' = "down" /\ up' = up /\ down' = down
      BY <1>1, DownStays
    <2>3. serve' = "off" => \A i \in Ids : chat'[i] = "none"
      BY <1>1, OffStays
    <2> QED BY <1>1, <2>1, <2>2, <2>3 DEF Placed
  <1>2. UNCHANGED vars /\ Placed => Placed'
    BY DEF vars, socketVars, wire, chats, reader, screen, Placed
  <1> QED BY <1>1, <1>2, PlacedClient DEF Next

-----------------------------------------------------------------------------
(* The life of a chat.                                                     *)

\* What the invariant says of the queues as they are.
LEMMA LivesFacts ==
  ASSUME Typed, Lives
  PROVE  /\ Sealed(events) /\ Sealed(down) /\ Once(up) /\ Unsent \subseteq Ids
         /\ \A f \in Talks(events) \cup Talks(down) : f[2] \in Ids
         /\ events \in Seq(Event) /\ down \in Seq(Frame) /\ up \in Seq(Request)
  <1>1. events \in Seq(Event) /\ down \in Seq(Frame) /\ up \in Seq(Request)
    BY DEF Typed, QueuesOK
  <1>2. \A f \in Frames(events) \cup Frames(down) : f \in Event
    <2>1. \A S : \A q \in Seq(S) : Frames(q) \subseteq S
      BY DEF Frames
    <2>2. Frames(events) \subseteq Event
      BY <1>1, <2>1
    <2>3. Frames(down) \subseteq Frame
      BY <1>1, <2>1
    <2> QED BY <2>2, <2>3, Members
  <1>3. \A f \in Talks(events) \cup Talks(down) : f[2] \in Ids
    BY <1>2, Members DEF Talks
  <1> QED BY <1>1, <1>3 DEF Lives, Life, Unsent

\* Submit takes the next chat, which stays unsent.
LEMMA SubmitUnsent ==
  ASSUME Typed, Submit
  PROVE  Unsent' \subseteq Unsent
  <1>1. last \in 0..MaxChats /\ last' = last + 1
    BY Zenon DEF Typed, ClientOK, Submit
  <1>2. \A i \in Ids : i > last' \/ i = last' => i > last
    BY ONLY <1>1, SocketAssumption DEF Ids
  <1> QED BY ONLY <1>2, Zenon DEF Unsent

\* SendStart sends the chat that was submitted last, or does not.
LEMMA SendStartUnsent ==
  ASSUME Typed, SendStart
  PROVE  /\ pane = "sending" /\ pane' = "ready" /\ last' = last /\ last \in Ids
         /\ Unsent' = Unsent \ {last} /\ last \in Unsent
  <1>1. last \in 0..MaxChats /\ last # 0 /\ pane = "sending" /\ pane' = "ready" /\ last' = last
    BY Zenon DEF Typed, ClientOK, SendStart
  <1>2. last \in Ids /\ \A i \in Ids : ~(i > last /\ i = last)
    BY ONLY <1>1, SocketAssumption DEF Ids
  <1> QED BY ONLY <1>1, <1>2 DEF Unsent

\* A step with no more frames of chats than before.
LEMMA LivesLess ==
  ASSUME Typed, Lives,
         events' = events \/ events' = <<>> \/ (events # <<>> /\ events' = Tail(events))
           \/ (Talks(events') = Talks(events) /\ Sealed(events')),
         down' = down \/ down' = <<>> \/ (down # <<>> /\ down' = Tail(down))
           \/ (Talks(down') = Talks(down) /\ Sealed(down')),
         up' = up \/ up' = <<>> \/ (Starts(up') \subseteq Starts(up) /\ Once(up')),
         \A i \in Ids : chat'[i] \in {chat[i], "none"},
         Unsent' \subseteq Unsent
  PROVE  Lives'
  <1>1. /\ Sealed(events) /\ Sealed(down) /\ Once(up) /\ Unsent \subseteq Ids
        /\ \A f \in Talks(events) \cup Talks(down) : f[2] \in Ids
        /\ events \in Seq(Event) /\ down \in Seq(Frame) /\ up \in Seq(Request)
    BY LivesFacts, Zenon
  <1>e. Sealed(<<>>) /\ Talks(<<>>) = {}
    BY Empty
  <1>2. Sealed(events') /\ Talks(events') \subseteq Talks(events)
    <2>1. events # <<>> => Sealed(Tail(events)) /\ Talks(Tail(events)) \subseteq Talks(events)
      BY <1>1, TakesOrder
    <2>2. CASE events' = events \/ events' = <<>>
      BY <1>1, <1>e, <2>2, Zenon
    <2>3. CASE events # <<>> /\ events' = Tail(events)
      BY <2>1, <2>3
    <2> QED BY <2>2, <2>3
  <1>3. Sealed(down') /\ Talks(down') \subseteq Talks(down)
    <2>1. down # <<>> => Sealed(Tail(down)) /\ Talks(Tail(down)) \subseteq Talks(down)
      BY <1>1, TakesOrder
    <2>2. CASE down' = down \/ down' = <<>>
      BY <1>1, <1>e, <2>2
    <2>3. CASE down # <<>> /\ down' = Tail(down)
      BY <2>1, <2>3, Zenon
    <2> QED BY <2>2, <2>3
  <1>4. Once(up') /\ Starts(up') \subseteq Starts(up)
    BY <1>1, Empty
  <1>5. Life(up, events, down, chat, Unsent) /\ \A i \in Ids : chat'[i] \in {chat[i], "none"}
    BY DEF Lives
  <1>6. Unsent' \subseteq Unsent
    BY Zenon
  <1>7. \A i \in Unsent' \cup Starts(up') : chat'[i] = "none" /\ Quiet(events', i) /\ Quiet(down', i)
    BY ONLY <1>1, <1>2, <1>3, <1>4, <1>5, <1>6, Zenon DEF Life, Quiet, Starts
  <1>8. Unsent' \cap Starts(up') = {}
    BY ONLY <1>4, <1>5, <1>6, Zenon DEF Life
  <1>9. \A f \in Talks(events') \cup Talks(down') : Final(f) => chat'[f[2]] \in {"none", "ended"}
    BY ONLY <1>1, <1>2, <1>3, <1>5, Zenon DEF Life
  <1>10. \A f \in Talks(events') : Final(f) => Quiet(down', f[2])
    BY ONLY <1>2, <1>3, <1>5, Zenon DEF Life, Quiet
  <1>11. Life(up', events', down', chat', Unsent')
    BY ONLY <1>2, <1>3, <1>4, <1>7, <1>8, <1>9, <1>10, Zenon DEF Life
  <1> QED BY <1>11 DEF Lives
\* An event that is of no chat.
LEMMA EmitsOther ==
  ASSUME Typed, Lives, NEW f \in Event, ~Talk(f), Emit(f)
  PROVE  Talks(events') = Talks(events) /\ Sealed(events')
  <1>1. events \in Seq(Event) /\ Sealed(events)
    BY LivesFacts
  <1>2. events' = events \/ events' = Append(events, f)
    BY Emits
  <1> QED BY <1>1, <1>2, AppendsOther, ZenonT(30)

\* The end of a connection, as the client tells of it.
LEMMA InterruptTalks ==
  ASSUME Typed, Lives, Interrupt
  PROVE  Talks(events') = Talks(events) /\ Sealed(events')
  <1>1. CASE Emit(<<"disconnected", 0>>)
    BY <1>1, EmitsOther, Members DEF Talk
  <1>2. CASE activeID # 0 /\ EmitBoth(<<"disconnected", 0>>, <<"interrupted", activeID>>)
    <2> DEFINE f == <<"disconnected", 0>>
               g == <<"interrupted", activeID>>
               q == Append(events, f)
    <2>1. f \in Event /\ g \in Event /\ ~Talk(f) /\ ~Talk(g)
      BY <1>2, Members, Zenon DEF Typed, ClientOK, Talk
    <2>2. EmitBoth(f, g)
      BY <1>2
    <2> HIDE DEF f, g
    <2>3. events' = events \/ (q \in Seq(Event) /\ (events' = q \/ events' = Append(q, g)))
      BY <2>1, <2>2, EmitsBoth
    <2>4. events \in Seq(Event) /\ Sealed(events)
      BY LivesFacts
    <2>5. Sealed(q) /\ Talks(q) = Talks(events)
      BY <2>1, <2>4, AppendsOther
    <2> HIDE DEF q
    <2>6. q \in Seq(Event) => Sealed(Append(q, g)) /\ Talks(Append(q, g)) = Talks(events)
      BY <2>1, <2>5, AppendsOther
    <2> QED BY <2>3, <2>4, <2>5, <2>6, Zenon
  <1> QED BY <1>1, <1>2 DEF Interrupt

\* A frame that the client reads moves from one queue to the other.
LEMMA ReadFrameLives ==
  ASSUME Typed, Lives, ReadFrame
  PROVE  Lives'
  <1> DEFINE f == Head(down)
  <1>1. /\ Sealed(events) /\ Sealed(down) /\ Once(up) /\ Unsent \subseteq Ids
        /\ \A g \in Talks(events) \cup Talks(down) : g[2] \in Ids
        /\ events \in Seq(Event) /\ down \in Seq(Frame) /\ up \in Seq(Request)
    BY LivesFacts
  <1>2. /\ down # <<>> /\ down' = Tail(down) /\ up' = up /\ chat' = chat /\ Unsent' = Unsent
        /\ events' = events \/ Emit(f)
    BY DEF ReadFrame, chats, screen, Unsent
  <1>3. /\ Talks(down') \subseteq Talks(down) /\ Sealed(down')
        /\ Talk(f) => f \in Talks(down)
        /\ Final(f) => Quiet(down', f[2])
        /\ f \in Event
    BY <1>1, <1>2, Takes, TakesOrder, Members, Zenon
  <1> HIDE DEF f
  <1>4. CASE events' = events \/ ~Talk(f)
    <2>1. Talks(events') = Talks(events) /\ Sealed(events')
      BY <1>1, <1>2, <1>3, <1>4, EmitsOther, Zenon
    <2> QED BY <1>1, <1>2, <1>3, <2>1, LivesLess, Zenon
  <1>5. CASE Talk(f) /\ events' # events
    <2>1. events' = Append(events, f)
      BY <1>2, <1>3, <1>5, Emits
    <2>2. \A g \in Talks(events) : Final(g) => g[2] # f[2]
      BY <1>3, <1>5, Zenon DEF Lives, Life, Quiet
    <2>3. Talks(events') = Talks(events) \cup {f} /\ Sealed(events')
      BY <1>1, <1>3, <1>5, <2>1, <2>2, AppendsTalk
    <2>4. \A i \in Unsent \cup Starts(up) : chat[i] = "none" /\ Quiet(events', i) /\ Quiet(down', i)
      BY <1>3, <1>5, <2>3, Zenon DEF Lives, Life, Quiet
    <2>5. \A g \in Talks(events') \cup Talks(down') : Final(g) => chat[g[2]] \in {"none", "ended"}
      BY <1>3, <1>5, <2>3, Zenon DEF Lives, Life
    <2>6. \A g \in Talks(events') : Final(g) => Quiet(down', g[2])
      BY <1>3, <2>3 DEF Lives, Life, Quiet
    <2> QED BY <1>1, <1>2, <1>3, <2>3, <2>4, <2>5, <2>6, Zenon DEF Lives, Life
  <1> QED BY <1>4, <1>5

\* A chat that was unsent is sent, or is not.
LEMMA SendStartLives ==
  ASSUME Typed, Lives, SendStart
  PROVE  Lives'
  <1>1. /\ Sealed(events) /\ Sealed(down) /\ Once(up) /\ Unsent \subseteq Ids
        /\ \A g \in Talks(events) \cup Talks(down) : g[2] \in Ids
        /\ events \in Seq(Event) /\ down \in Seq(Frame) /\ up \in Seq(Request)
    BY LivesFacts
  <1>2. /\ pane = "sending" /\ pane' = "ready" /\ last' = last /\ last \in Ids
        /\ events' = events /\ down' = down /\ chat' = chat
    BY SendStartUnsent, Zenon DEF SendStart, chats
  <1>3. Unsent' = Unsent \ {last} /\ last \in Unsent
    BY SendStartUnsent, Zenon
  <1>4. CASE up' = up
    BY <1>1, <1>2, <1>3, <1>4, LivesLess
  <1>5. CASE up' = Append(up, <<"start", last>>)
    <2> DEFINE s == <<"start", last>>
               n == Len(up)
    <2>1. s \in Request
      BY <1>2, Members, Zenon
    <2>2. /\ DOMAIN up = 1..n /\ DOMAIN up' = 1..(n + 1) /\ n \in Nat
          /\ \A k \in 1..n : up'[k] = up[k]
          /\ up'[n + 1] = s /\ Frames(up') = Frames(up) \cup {s}
      <3>1. up' = Append(up, s)
        BY <1>5
      <3> HIDE DEF s
      <3> QED BY <1>1, <2>1, <3>1, Appends
    <2>3. Starts(up') = Starts(up) \cup {last}
      BY <1>2, <2>2 DEF Starts
    <2>4. s \notin Frames(up)
      BY <1>2, <1>3 DEF Lives, Life, Starts
    <2>5. Once(up')
      <3> SUFFICES ASSUME NEW k \in DOMAIN up', NEW m \in DOMAIN up', k < m, up'[k][1] = "start"
                   PROVE  up'[m] # up'[k]
        BY DEF Once
      <3>1. k \in DOMAIN up /\ up'[k] = up[k] /\ up[k] \in Frames(up)
        BY <2>2 DEF Frames
      <3>2. CASE m = n + 1
        BY <2>2, <2>4, <3>1, <3>2
      <3>3. CASE m # n + 1
        <4>1. m \in DOMAIN up /\ up'[m] = up[m]
          BY <2>2, <3>3
        <4> QED BY <1>1, <3>1, <4>1 DEF Once
      <3> QED BY <3>2, <3>3
    <2> QED BY <1>1, <1>2, <1>3, <2>3, <2>5, Zenon DEF Lives, Life
  <1> QED BY <1>4, <1>5 DEF SendStart

\* A request to cancel starts nothing.
LEMMA CancelLives ==
  ASSUME Typed, Lives, Cancel
  PROVE  Lives'
  <1> DEFINE s == <<"cancel", 0>>
             n == Len(up)
  <1>1. up \in Seq(Request) /\ Once(up) /\ s \in Request
    BY LivesFacts, Members
  <1>2. /\ DOMAIN up = 1..n /\ DOMAIN up' = 1..(n + 1) /\ n \in Nat
        /\ \A k \in 1..n : up'[k] = up[k]
        /\ up'[n + 1] = s /\ Frames(up') = Frames(up) \cup {s}
    <2>1. up' = Append(up, s)
      BY DEF Cancel
    <2> HIDE DEF s
    <2> QED BY <1>1, <2>1, Appends
  <1>3. Starts(up') \subseteq Starts(up)
    BY <1>2 DEF Starts
  <1>4. Once(up')
    <2> SUFFICES ASSUME NEW k \in DOMAIN up', NEW m \in DOMAIN up', k < m, up'[k][1] = "start"
                 PROVE  up'[m] # up'[k]
      BY DEF Once
    <2>1. k \in DOMAIN up /\ up'[k] = up[k]
      BY <1>2
    <2>2. CASE m = n + 1
      BY <1>2, <2>2
    <2>3. CASE m # n + 1
      <3>1. m \in DOMAIN up /\ up'[m] = up[m]
        BY <1>2, <2>3
      <3> QED BY <1>1, <2>1, <3>1 DEF Once
    <2> QED BY <2>2, <2>3
  <1>5. events' = events /\ down' = down /\ chat' = chat /\ Unsent' = Unsent
    BY DEF Cancel, chats, screen, Unsent
  <1> QED BY <1>3, <1>4, <1>5, LivesLess

\* The steps of the client.
LEMMA LivesClient ==
  ASSUME Typed, Placed, Lives,
         \/ Client \/ DialFails \/ Workspace \/ SendOnClosed
         \/ Submit \/ Cancel \/ NewChat \/ Quit
  PROVE  Lives'
  <1>1. CASE Dial
    <2>1. /\ up' = up \/ up' = <<>> 
          /\ down' = down \/ down' = <<>>
          /\ events' = events /\ chat' = chat /\ Unsent' = Unsent
      BY <1>1 DEF Dial, wire, chats, screen, Unsent
    <2> QED BY <2>1, LivesLess
  <1>2. CASE ReadHello
    <2>1. Talks(events') = Talks(events) /\ Sealed(events')
      <3>1. CASE Emit(<<"connected", 0>>)
        BY <3>1, EmitsOther, Members DEF Talk
      <3>2. CASE events' = events
        BY <3>2, LivesFacts
      <3> QED BY <1>2, <3>1, <3>2 DEF ReadHello
    <2>2. /\ down # <<>> /\ down' = Tail(down) /\ up' = up
          /\ chat' = chat /\ Unsent' = Unsent
      BY <1>2 DEF ReadHello, chats, screen, Unsent
    <2> QED BY <2>1, <2>2, LivesLess
  <1>3. CASE ReadFrame
    BY <1>3, ReadFrameLives
  <1>4. CASE ReadFails
    <2>1. /\ up' = <<>> /\ down' = <<>>
          /\ events' = events /\ chat' = chat /\ Unsent' = Unsent
      BY <1>4 DEF ReadFails, HangUp, chats, screen, Unsent
    <2> QED BY <2>1, LivesLess
  <1>5. CASE ConnectReturns
    <2>1. Talks(events') = Talks(events) /\ Sealed(events')
      <3>1. CASE Emit(<<"fatal", 0>>)
        BY <3>1, EmitsOther, Members DEF Talk
      <3>2. CASE events' = events
        BY <3>2, LivesFacts
      <3> QED BY <1>5, <3>1, <3>2 DEF ConnectReturns
    <2>2. up' = <<>> /\ down' = <<>> /\ chat' = chat /\ Unsent' = Unsent
      BY <1>5 DEF ConnectReturns, HangUp, chats, screen, Unsent
    <2> QED BY <2>1, <2>2, LivesLess
  <1>6. CASE Interrupt
    <2>1. up' = up /\ down' = down /\ chat' = chat /\ Unsent' = Unsent
      BY <1>6 DEF Interrupt, socketVars, wire, chats, screen, Unsent
    <2> QED BY <1>6, <2>1, InterruptTalks, LivesLess
  <1>7. CASE Retry \/ DialFails
    <2>1. /\ up' = up /\ down' = down /\ events' = events
          /\ chat' = chat /\ Unsent' = Unsent
      BY <1>7 DEF Retry, DialFails, socketVars, wire, chats, screen, Unsent
    <2> QED BY <2>1, LivesLess
  <1>8. CASE SendStart
    BY <1>8, SendStartLives
  <1>9. CASE HandleWSEvent
    <2>1. /\ up' = up /\ down' = down /\ events # <<>> /\ events' = Tail(events)
          /\ chat' = chat /\ Unsent' = Unsent
      BY <1>9 DEF HandleWSEvent, socketVars, wire, chats, Unsent
    <2> QED BY <2>1, LivesLess
  <1>10. CASE CloseReturns \/ NewChat
    <2>1. /\ up' = up /\ down' = down /\ events' = events
          /\ chat' = chat /\ Unsent' = Unsent
      BY <1>10 DEF CloseReturns, NewChat, socketVars, wire, chats, Unsent
    <2> QED BY <2>1, LivesLess
  <1>11. CASE SendOnClosed
    <2>1. /\ up' = <<>> /\ down' = <<>> /\ events' = <<>>
          /\ chat' = chat /\ Unsent' \subseteq Unsent
      BY <1>11 DEF SendOnClosed, HangUp, chats, Unsent
    <2> QED BY <2>1, LivesLess
  <1>12. CASE Submit
    <2>1. /\ up' = up /\ down' = down /\ events' = events /\ chat' = chat
      BY <1>12 DEF Submit, wire, chats
    <2>2. Unsent' \subseteq Unsent
      BY <1>12, SubmitUnsent, Zenon
    <2> QED BY <2>1, <2>2, LivesLess
  <1>13. CASE Cancel
    BY <1>13, CancelLives
  <1>14. CASE Quit
    <2>1. /\ up' = up \/ up' = <<>> 
          /\ down' = down \/ down' = <<>>
          /\ events' = <<>> /\ chat' = chat /\ Unsent' = Unsent
      BY <1>14 DEF Quit, HangUp, wire, chats, Unsent
    <2> QED BY <2>1, LivesLess
  <1> QED
    BY <1>1, <1>2, <1>3, <1>4, <1>5, <1>6, <1>7, <1>8, <1>9, <1>10, <1>11, <1>12,
       <1>13, <1>14 DEF Client, Workspace

\* A frame of the daemon that is of no chat.
LEMMA SendsOther ==
  ASSUME Typed, Lives, NEW type, NEW about, <<type, about>> \in Frame,
         type \in {"hello", "state"}, Send(type, about)
  PROVE  Talks(down') = Talks(down) /\ Sealed(down')
  <1> DEFINE f == <<type, about>>
  <1>1. down \in Seq(Frame) /\ Sealed(down) /\ f \in Frame /\ ~Talk(f)
    BY LivesFacts DEF Talk
  <1>2. down' = down \/ down' = Append(down, f)
    BY Sends
  <1> HIDE DEF f
  <1>3. Talks(Append(down, f)) = Talks(down) /\ Sealed(Append(down, f))
    BY <1>1, AppendsOther
  <1> QED BY <1>1, <1>2, <1>3, Zenon

\* A chat that runs says something, or says its last word and is over.
LEMMA SayLives ==
  ASSUME Typed, Lives, NEW i \in Ids, NEW from, NEW to \in ChatStates, NEW type,
         <<type, i>> \in Frame, type \in {"route", "delta", "done", "error"},
         from \cap {"none", "ended"} = {}, to # "none",
         type \in {"done", "error"} => to = "ended",
         Say(i, from, to, type), UNCHANGED <<reader, events, screen, dropped>>
  PROVE  Lives'
  <1> DEFINE f == <<type, i>>
  <1>1. /\ Sealed(events) /\ Sealed(down) /\ Once(up) /\ Unsent \subseteq Ids
        /\ \A g \in Talks(events) \cup Talks(down) : g[2] \in Ids
        /\ events \in Seq(Event) /\ down \in Seq(Frame) /\ up \in Seq(Request)
        /\ chat \in [Ids -> ChatStates]
    BY LivesFacts DEF Typed, DaemonOK
  <1>2. /\ chat[i] \notin {"none", "ended"} /\ Unsent' = Unsent /\ up' = up /\ events' = events
        /\ chat'[i] = to /\ \A j \in Ids \ {i} : chat'[j] = chat[j]
    BY <1>1 DEF Say, screen, Unsent
  <1>3. f \in Frame /\ Talk(f) /\ f[2] = i /\ (Final(f) => to = "ended")
    BY DEF Talk, Final
  <1>4. down' = down \/ down' = Append(down, f)
    BY Sends DEF Say
  <1> HIDE DEF f
  <1>5. \A g \in Talks(events) \cup Talks(down) : Final(g) => g[2] # i
    BY <1>2, Zenon DEF Lives, Life
  <1>6. Sealed(down') /\ Talks(down') \subseteq Talks(down) \cup {f}
    <2>1. Talks(Append(down, f)) = Talks(down) \cup {f} /\ Sealed(Append(down, f))
      BY <1>1, <1>3, <1>5, AppendsTalk
    <2> QED BY <1>1, <1>4, <2>1, Zenon
  <1>7. i \notin Unsent \cup Starts(up)
    BY <1>2, Zenon DEF Lives, Life
  <1>8. \A j \in Unsent \cup Starts(up) : chat'[j] = "none" /\ Quiet(events, j) /\ Quiet(down', j)
    BY <1>1, <1>2, <1>3, <1>6, <1>7, ZenonT(30) DEF Lives, Life, Quiet, Starts
  <1>9. \A g \in Talks(events) \cup Talks(down') : Final(g) => chat'[g[2]] \in {"none", "ended"}
    BY <1>1, <1>2, <1>3, <1>5, <1>6 DEF Lives, Life
  <1>10. \A g \in Talks(events) : Final(g) => Quiet(down', g[2])
    BY <1>3, <1>5, <1>6 DEF Lives, Life, Quiet
  <1>11. Unsent \cap Starts(up) = {}
    BY DEF Lives, Life
  <1>12. Life(up, events, down', chat', Unsent)
    BY ONLY <1>1, <1>6, <1>8, <1>9, <1>10, <1>11, Zenon DEF Life
  <1> QED BY <1>2, <1>12 DEF Lives

\* The daemon reads a request; a chat is started or refused.
LEMMA ReadLoopLives ==
  ASSUME Typed, Lives, ReadLoop, UNCHANGED <<reader, events, screen, dropped>>
  PROVE  Lives'
  <1> DEFINE h == Head(up)
             i == h[2]
  <1>1. /\ Sealed(events) /\ Sealed(down) /\ Once(up) /\ Unsent \subseteq Ids
        /\ \A g \in Talks(events) \cup Talks(down) : g[2] \in Ids
        /\ events \in Seq(Event) /\ down \in Seq(Frame) /\ up \in Seq(Request)
        /\ chat \in [Ids -> ChatStates]
    BY LivesFacts DEF Typed, DaemonOK
  <1>2. /\ up # <<>> /\ up' = Tail(up) /\ Unsent' = Unsent /\ events' = events
    BY DEF ReadLoop, screen, Unsent
  <1>3. /\ Once(up') /\ Frames(up) = {h} \cup Frames(up') /\ h \in Request
        /\ h[1] = "start" => h \notin Frames(up')
    BY <1>1, <1>2, Takes, TakesOrder
  <1>4. Starts(up') \subseteq Starts(up)
    BY <1>3, Zenon DEF Starts
  <1>5. CASE h[1] # "start"
    <2>1. down' = down /\ chat' = chat
      BY <1>5 DEF ReadLoop, CancelChat
    <2> QED BY <1>2, <1>3, <1>4, <2>1, LivesLess
  <1>6. CASE h[1] = "start"
    <2>1. i \in Ids /\ h = <<"start", i>> /\ <<"error", i>> \in Frame
      BY <1>3, <1>6, Members, Zenon
    <2>2. i \in Starts(up) /\ i \notin Starts(up')
      BY <1>3, <1>6, <2>1 DEF Starts
    <2>3. chat[i] = "none" /\ Quiet(events, i) /\ Quiet(down, i) /\ i \notin Unsent
      BY <2>2, Zenon DEF Lives, Life
    <2>4. CASE chatCancel # 0
      <3> DEFINE f == <<"error", i>>
      <3>1. Send("error", i) /\ chat' = chat
        BY <1>6, <2>4 DEF ReadLoop, StartChat, chats
      <3>2. down' = down \/ down' = Append(down, f)
        BY <2>1, <3>1, Sends
      <3>3. f \in Frame /\ Talk(f) /\ f[2] = i
        BY <2>1 DEF Talk
      <3> HIDE DEF f, i
      <3>4. Sealed(down') /\ Talks(down') \subseteq Talks(down) \cup {f}
        <4>1. Talks(Append(down, f)) = Talks(down) \cup {f} /\ Sealed(Append(down, f))
          BY <1>1, <2>3, <3>3, AppendsTalk DEF Quiet
        <4> QED BY <1>1, <3>2, <4>1, Zenon
      <3>5. \A j \in Unsent \cup Starts(up') : chat[j] = "none" /\ Quiet(events, j) /\ Quiet(down', j)
        BY <1>4, <2>2, <2>3, <3>3, <3>4, Zenon DEF Lives, Life, Quiet
      <3>6. \A g \in Talks(events) \cup Talks(down') : Final(g) => chat[g[2]] \in {"none", "ended"}
        BY <2>3, <3>3, <3>4, Zenon DEF Lives, Life
      <3>7. \A g \in Talks(events) : Final(g) => Quiet(down', g[2])
        BY <2>3, <3>3, <3>4, Zenon DEF Lives, Life, Quiet
      <3>8. Unsent \cap Starts(up') = {}
        BY <1>4, Zenon DEF Lives, Life
      <3> QED BY <1>1, <1>2, <1>3, <3>1, <3>4, <3>5, <3>6, <3>7, <3>8, Zenon DEF Lives, Life
    <2>5. CASE chatCancel = 0
      <3>1. chat' = [chat EXCEPT ![i] = "started"] /\ down' = down
        BY <1>6, <2>5, Zenon DEF ReadLoop, StartChat
      <3>2. chat'[i] = "started" /\ \A j \in Ids \ {i} : chat'[j] = chat[j]
        BY <1>1, <2>1, <3>1, Zenon
      <3> HIDE DEF i
      <3>3. \A j \in Unsent \cup Starts(up') : chat'[j] = "none" /\ Quiet(events, j) /\ Quiet(down, j)
        BY <1>1, <1>4, <2>2, <2>3, <3>2, Zenon DEF Lives, Life, Starts
      <3>4. \A g \in Talks(events) \cup Talks(down) : Final(g) => chat'[g[2]] \in {"none", "ended"}
        BY <1>1, <2>3, <3>2, Zenon DEF Lives, Life, Quiet
      <3>5. Unsent \cap Starts(up') = {}
        BY <1>4, Zenon DEF Lives, Life
      <3> QED BY <1>1, <1>2, <1>3, <3>1, <3>3, <3>4, <3>5, ZenonT(30) DEF Lives, Life
    <2> QED BY <2>4, <2>5
  <1> QED BY <1>5, <1>6

\* Every step keeps what is said of chats.
LEMMA LivesStep == Typed /\ Placed /\ Lives /\ [Next]_vars => Lives'
  <1>1. ASSUME Typed, Lives, SocketNext, UNCHANGED <<reader, events, screen, dropped>>
        PROVE  Lives'
    <2>0. events' = events /\ Unsent' = Unsent
      BY <1>1 DEF screen, Unsent
    <2>c. chat \in [Ids -> ChatStates] /\ held \in Versions
      BY <1>1 DEF Typed, DaemonOK, HubOK
    <2>1. CASE Accept \/ ReadState \/ StateChanges \/ Poll \/ LinkDrops
      <3>1. up' = up /\ down' = down /\ chat' = chat
        BY <2>1 DEF Accept, ReadState, StateChanges, Poll, LinkDrops, wire, chats
      <3> QED BY <1>1, <2>0, <3>1, LivesLess
    <2>2. CASE SendHello
      <3>1. Talks(down') = Talks(down) /\ Sealed(down')
        BY <1>1, <2>2, SendsOther, Members DEF SendHello
      <3>2. up' = up /\ chat' = chat
        BY <2>2 DEF SendHello, chats
      <3> QED BY <1>1, <2>0, <3>1, <3>2, LivesLess
    <2>3. CASE SendSnapshot
      <3>1. Talks(down') = Talks(down) /\ Sealed(down')
        BY <1>1, <2>c, <2>3, SendsOther, Members, Zenon DEF SendSnapshot
      <3>2. up' = up /\ chat' = chat
        BY <2>3 DEF SendSnapshot, chats
      <3> QED BY <1>1, <2>0, <3>1, <3>2, LivesLess
    <2>4. CASE ReadLoop
      BY <1>1, <2>4, ReadLoopLives
    <2>5. CASE Teardown \/ DaemonRestarts
      <3>1. up' = up /\ down' = down /\ \A i \in Ids : chat'[i] = "none"
        BY <2>5 DEF Teardown, DaemonRestarts, wire
      <3> QED BY <1>1, <2>0, <3>1, LivesLess, Zenon
    <2>6. ASSUME NEW i \in Ids, CleanUp(i)
          PROVE  Lives'
      <3>1. up' = up /\ down' = down /\ \A j \in Ids : chat'[j] \in {chat[j], "none"}
        BY <2>c, <2>6 DEF CleanUp, wire
      <3> QED BY <1>1, <2>0, <3>1, LivesLess
    <2>7. ASSUME NEW i \in Ids, Route(i) \/ Delta(i) \/ End(i)
          PROVE  Lives'
      <3>1. /\ <<"route", i>> \in Frame /\ <<"delta", i>> \in Frame
            /\ <<"done", i>> \in Frame /\ <<"error", i>> \in Frame
            /\ {"routed", "rerouted", "said", "ended"} \subseteq ChatStates
        BY Members, Zenon DEF ChatStates
      <3>2. CASE Say(i, {"started"}, "routed", "route")
        BY <1>1, <3>1, <3>2, SayLives
      <3>3. CASE Say(i, {"routed"}, "rerouted", "route")
        BY <1>1, <3>1, <3>3, SayLives
      <3>4. CASE Delta(i)
        BY <1>1, <3>1, <3>4, SayLives DEF Delta
      <3>5. CASE Say(i, {"started", "routed", "rerouted", "said"}, "ended", "error")
        BY <1>1, <3>1, <3>5, SayLives
      <3>6. CASE Say(i, {"routed", "rerouted", "said"}, "ended", "done")
        BY <1>1, <3>1, <3>6, SayLives
      <3> QED BY <2>7, <3>2, <3>3, <3>4, <3>5, <3>6 DEF Route, End
    <2>8. CASE Broadcast
      <3>1. polled \in Versions
        BY <1>1, <2>8, SocketAssumption DEF Broadcast, Typed, HubOK, Versions
      <3>2. Talks(down') = Talks(down) /\ Sealed(down')
        <4>1. CASE serve # "off"
          BY <1>1, <2>8, <3>1, <4>1, SendsOther, Members, Zenon DEF Broadcast
        <4>2. CASE serve = "off"
          BY <1>1, <2>8, <4>2, LivesFacts DEF Broadcast
        <4> QED BY <4>1, <4>2
      <3>3. up' = up /\ chat' = chat
        BY <2>8 DEF Broadcast, chats
      <3> QED BY <1>1, <2>0, <3>2, <3>3, LivesLess
    <2> QED BY <1>1, <2>1, <2>2, <2>3, <2>4, <2>5, <2>6, <2>7, <2>8 DEF SocketNext, Serving
  <1>2. UNCHANGED vars /\ Lives => Lives'
    BY DEF vars, socketVars, wire, chats, reader, screen, Lives, Unsent
  <1> QED BY <1>1, <1>2, LivesClient DEF Next

-----------------------------------------------------------------------------
(* The chat in flight.                                                     *)

\* A chat that runs on a connection that is up says something.
LEMMA SayOwn ==
  ASSUME Typed, Own, NEW i \in Ids, NEW from, NEW to \in ChatStates, NEW type,
         <<type, i>> \in Frame, type \in {"route", "delta", "done", "error"},
         from \cap {"none", "ended"} = {},
         Say(i, from, to, type), UNCHANGED <<reader, events, screen, dropped>>
  PROVE  Own'
  <1> SUFFICES ASSUME ~restarted'
               PROVE  OwnOnly(Talks(events') \cup Talks(down'), Starts(up'), link', chat', entry', Flight')
    BY DEF Own
  <1>1. /\ OwnOnly(Talks(events) \cup Talks(down), Starts(up), link, chat, entry, Flight)
        /\ Flight' = Flight /\ entry' = entry /\ events' = events /\ up' = up
    BY DEF Own, Say, screen, Flight
  <1>2. /\ chat \in [Ids -> ChatStates] /\ down \in Seq(Frame)
        /\ \A j \in Ids \ {i} : chat'[j] = chat[j]
        /\ chat[i] \notin {"none", "ended"}
    BY DEF Say, Typed, DaemonOK, QueuesOK
  <1>3. /\ link' = "up" => link = "up" /\ down' = Append(down, <<type, i>>)
        /\ link' = "down" => down' = down
        /\ link' \in {"up", "down"}
    BY Sends DEF Say
  <1>4. CASE link' = "down"
    BY <1>1, <1>3, <1>4, Zenon DEF OwnOnly
  <1>5. CASE link' = "up"
    <2>1. i \in Flight
      BY <1>1, <1>2, <1>3, <1>5, Zenon DEF OwnOnly
    <2> DEFINE f == <<type, i>>
    <2>2. f \in Frame /\ Talk(f) /\ f[2] = i /\ down' = Append(down, f)
      BY <1>3, <1>5 DEF Talk
    <2> HIDE DEF f
    <2>3. Frames(Append(down, f)) = Frames(down) \cup {f}
      BY <1>2, <2>2, AppendsFrames
    <2>4. Talks(down') \subseteq Talks(down) \cup {f}
      BY <2>2, <2>3 DEF Talks
    <2>5. \A g \in Talks(events') \cup Talks(down') : g[2] \in Flight
      BY <1>1, <2>1, <2>2, <2>4 DEF OwnOnly
    <2>6. \A j \in Ids : chat'[j] \notin {"none", "ended"} => j \in Flight
      BY <1>1, <1>2, <1>3, <1>5, <2>1, Zenon DEF OwnOnly
    <2> QED BY <1>1, <2>5, <2>6, Zenon DEF OwnOnly
  <1> QED BY <1>3, <1>4, <1>5

\* The daemon starts or refuses a chat.
LEMMA ReadLoopOwn ==
  ASSUME Typed, Own, ReadLoop, UNCHANGED <<reader, events, screen, dropped>>
  PROVE  Own'
  <1> SUFFICES ASSUME ~restarted'
               PROVE  OwnOnly(Talks(events') \cup Talks(down'), Starts(up'), link', chat', entry', Flight')
    BY DEF Own
  <1> DEFINE h == Head(up)
             i == h[2]
  <1>1. /\ OwnOnly(Talks(events) \cup Talks(down), Starts(up), link, chat, entry, Flight)
        /\ Flight' = Flight /\ entry' = entry /\ events' = events /\ up' = Tail(up)
        /\ up # <<>> /\ link = "up"
    BY DEF Own, ReadLoop, screen, Flight
  <1>2. chat \in [Ids -> ChatStates] /\ down \in Seq(Frame) /\ up \in Seq(Request)
    BY DEF Typed, DaemonOK, QueuesOK
  <1>3. Frames(up) = {h} \cup Frames(up') /\ h \in Request
    BY <1>1, <1>2, Takes
  <1>4. Starts(up') \subseteq Starts(up)
    BY <1>3 DEF Starts
  <1>5. CASE h[1] # "start"
    <2>1. down' = down /\ chat' = chat /\ link' = link
      BY <1>5 DEF ReadLoop, CancelChat
    <2> QED BY <1>1, <1>4, <2>1, Zenon DEF OwnOnly
  <1>6. CASE h[1] = "start"
    <2>1. i \in Ids /\ h = <<"start", i>> /\ <<"error", i>> \in Frame
      BY <1>3, <1>6, Members, Zenon
    <2>2. i \in Flight
      BY <1>1, <1>3, <2>1, Zenon DEF Starts, OwnOnly
    <2>3. CASE chatCancel # 0
      <3> DEFINE f == <<"error", i>>
      <3>1. Send("error", i) /\ chat' = chat
        BY <1>6, <2>3, Zenon DEF ReadLoop, StartChat, chats
      <3>2. down' = down \/ down' = Append(down, f)
        BY <2>1, <3>1, Sends
      <3>3. f \in Frame /\ f[2] = i
        BY <2>1
      <3> HIDE DEF f, i, h
      <3>4. Frames(Append(down, f)) = Frames(down) \cup {f}
        BY <1>2, <3>3, AppendsFrames
      <3>5. Talks(down') \subseteq Talks(down) \cup {f}
        BY <3>2, <3>4, Zenon DEF Talks
      <3>6. \A g \in Talks(events') \cup Talks(down') : g[2] \in Flight
        BY <1>1, <2>2, <3>3, <3>5, Zenon DEF OwnOnly
      <3> QED BY <1>1, <1>4, <3>1, <3>6, Zenon DEF OwnOnly
    <2>4. CASE chatCancel = 0
      <3>1. chat' = [chat EXCEPT ![i] = "started"] /\ down' = down /\ link' = link
        BY <1>6, <2>4, Zenon DEF ReadLoop, StartChat
      <3>2. \A j \in Ids \ {i} : chat'[j] = chat[j]
        BY <1>2, <2>1, <3>1, Zenon
      <3> HIDE DEF i, h
      <3>3. \A j \in Ids : chat'[j] \notin {"none", "ended"} => j \in Flight
        BY <1>1, <2>2, <3>2, Zenon DEF OwnOnly
      <3> QED BY <1>1, <1>4, <3>1, <3>3 DEF OwnOnly
    <2> QED BY <2>3, <2>4
  <1> QED BY <1>5, <1>6

\* The steps of the daemon.
LEMMA OwnDaemon ==
  ASSUME Typed, Lives, Own, SocketNext, UNCHANGED <<reader, events, screen, dropped>>
  PROVE  Own'
  <1>0. UNCHANGED <<restarted, entry, events, Flight>>
    BY DEF screen, Flight
  <1>c. chat \in [Ids -> ChatStates] /\ link \in {"up", "down"} /\ held \in Versions
    BY DEF Typed, DaemonOK, HubOK
  <1>1. ASSUME Talks(down') = Talks(down), up' = up, link' = "up" => link = "up",
               \A i \in Ids : chat'[i] \in {chat[i], "none"}
        PROVE  Own'
    <2> SUFFICES ASSUME ~restarted'
                 PROVE  OwnOnly(Talks(events') \cup Talks(down'), Starts(up'), link', chat', entry', Flight')
      BY DEF Own
    <2>1. OwnOnly(Talks(events) \cup Talks(down), Starts(up), link, chat, entry, Flight)
      BY <1>0 DEF Own
    <2>2. /\ Talks(events') = Talks(events) /\ Starts(up') = Starts(up)
          /\ Flight' = Flight /\ entry' = entry
      BY <1>0, <1>1
    <2> QED BY ONLY <1>1, <2>1, <2>2, Zenon DEF OwnOnly
  <1>2. CASE Accept \/ ReadState \/ StateChanges \/ Poll \/ LinkDrops
    <2>1. up' = up /\ down' = down /\ chat' = chat /\ (link' = "up" => link = "up")
      BY <1>2 DEF Accept, ReadState, StateChanges, Poll, LinkDrops, wire, chats
    <2> QED BY <1>1, <2>1
  <1>3. CASE SendHello
    <2>1. Talks(down') = Talks(down) /\ (link' = "up" => link = "up")
      BY <1>3, SendsOther, Sends, Members DEF SendHello
    <2>2. up' = up /\ chat' = chat
      BY <1>3 DEF SendHello, chats
    <2> QED BY <1>1, <2>1, <2>2
  <1>4. CASE SendSnapshot
    <2>1. Talks(down') = Talks(down) /\ (link' = "up" => link = "up")
      BY <1>c, <1>4, SendsOther, Sends, Members, Zenon DEF SendSnapshot
    <2>2. up' = up /\ chat' = chat
      BY <1>4 DEF SendSnapshot, chats
    <2> QED BY <1>1, <2>1, <2>2
  <1>5. CASE ReadLoop
    BY <1>5, ReadLoopOwn
  <1>6. CASE Teardown \/ DaemonRestarts
    <2>1. /\ up' = up /\ down' = down /\ \A i \in Ids : chat'[i] = "none"
          /\ link' = "up" => link = "up"
      BY <1>6 DEF Teardown, DaemonRestarts, wire
    <2> QED BY <1>1, <2>1
  <1>7. ASSUME NEW i \in Ids, CleanUp(i)
        PROVE  Own'
    <2>1. /\ up' = up /\ down' = down /\ \A j \in Ids : chat'[j] \in {chat[j], "none"}
          /\ link' = link
      BY <1>c, <1>7 DEF CleanUp, wire
    <2> QED BY <1>1, <2>1
  <1>8. ASSUME NEW i \in Ids, Route(i) \/ Delta(i) \/ End(i)
        PROVE  Own'
    <2>1. /\ <<"route", i>> \in Frame /\ <<"delta", i>> \in Frame
          /\ <<"done", i>> \in Frame /\ <<"error", i>> \in Frame
          /\ {"routed", "rerouted", "said", "ended"} \subseteq ChatStates
      BY Members, Zenon DEF ChatStates
    <2>2. CASE Say(i, {"started"}, "routed", "route")
      BY <2>1, <2>2, SayOwn
    <2>3. CASE Say(i, {"routed"}, "rerouted", "route")
      BY <2>1, <2>3, SayOwn
    <2>4. CASE Delta(i)
      BY <2>1, <2>4, SayOwn DEF Delta
    <2>5. CASE Say(i, {"started", "routed", "rerouted", "said"}, "ended", "error")
      BY <2>1, <2>5, SayOwn
    <2>6. CASE Say(i, {"routed", "rerouted", "said"}, "ended", "done")
      BY <2>1, <2>6, SayOwn
    <2> QED BY <1>8, <2>2, <2>3, <2>4, <2>5, <2>6 DEF Route, End
  <1>9. CASE Broadcast
    <2>1. polled \in Versions
      BY <1>9, SocketAssumption DEF Broadcast, Typed, HubOK, Versions
    <2>2. Talks(down') = Talks(down) /\ (link' = "up" => link = "up")
      <3>1. CASE serve # "off"
        BY <1>9, <2>1, <3>1, SendsOther, Sends, Members, Zenon DEF Broadcast
      <3>2. CASE serve = "off"
        BY <1>9, <3>2 DEF Broadcast
      <3> QED BY <3>1, <3>2
    <2>3. up' = up /\ chat' = chat
      BY <1>9 DEF Broadcast, chats
    <2> QED BY <1>1, <2>2, <2>3
  <1> QED BY <1>2, <1>3, <1>4, <1>5, <1>6, <1>7, <1>8, <1>9 DEF SocketNext, Serving

\* The workspace applies an event.  The end of the chat in flight leaves nothing
\* on its way: what is left would have been behind it.
LEMMA HandleWSEventOwn ==
  ASSUME Typed, Placed, Lives, Own, HandleWSEvent
  PROVE  Own'
  <1> SUFFICES ASSUME ~restarted'
               PROVE  OwnOnly(Talks(events') \cup Talks(down'), Starts(up'), link', chat', entry', Flight')
    BY DEF Own
  <1> DEFINE f == Head(events)
  <1>1. /\ OwnOnly(Talks(events) \cup Talks(down), Starts(up), link, chat, entry, Flight)
        /\ pane = "ready" /\ pane' = "ready" /\ last' = last /\ events # <<>> /\ events' = Tail(events)
        /\ down' = down /\ up' = up /\ link' = link /\ chat' = chat
    BY DEF Own, HandleWSEvent, socketVars, wire, chats
  <1>2. events \in Seq(Event) /\ Sealed(events) /\ CutOff(events)
    BY LivesFacts DEF Placed
  <1>3. /\ Talks(events') \subseteq Talks(events)
        /\ Talk(f) => f \in Talks(events)
        /\ Final(f) => Quiet(events', f[2])
        /\ f[1] = "interrupted" => Talks(events') = {}
        /\ f \in Frames(events)
    <2>1. Frames(events) = {f} \cup Frames(Tail(events))
      BY <1>1, <1>2, Takes
    <2> QED BY <1>1, <1>2, <2>1, TakesOrder, Zenon
  <1> HIDE DEF f
  <1>4. ASSUME Talk(f)
        PROVE  f[2] = last /\ Flight = {last} /\ state # "idle"
    BY <1>1, <1>3, <1>4, Zenon DEF OwnOnly, Flight
  <1>5. CASE f[1] = "route"
    <2>1. Talk(f)
      BY <1>5 DEF Talk
    <2>2. OnRoute
      BY <1>5 DEF HandleWSEvent, f
    <2>3. state' # "idle" /\ (entry' = entry \/ entry' = {})
      BY <1>4, <2>1, <2>2 DEF OnRoute
    <2>4. Flight' = Flight
      BY <1>1, <1>4, <2>1, <2>3, Zenon DEF Flight
    <2> QED BY <1>1, <1>3, <2>3, <2>4 DEF OwnOnly
  <1>6. CASE f[1] = "delta"
    <2>1. Talk(f)
      BY <1>6 DEF Talk
    <2>2. OnDelta(f[2])
      BY <1>6 DEF HandleWSEvent, f
    <2>3. Flight' = Flight
      BY <1>1, <2>2 DEF OnDelta, Flight
    <2>4. entry' \subseteq Flight
      BY <1>1, <1>4, <2>1, <2>2 DEF OnDelta, OwnOnly
    <2> QED BY <1>1, <1>3, <2>3, <2>4 DEF OwnOnly
  <1>7. CASE f[1] \in {"done", "error", "interrupted"}
    <2>1. Finished
      BY <1>7 DEF HandleWSEvent, f
    <2>2. CASE Final(f)
      <3>1. Talk(f)
        BY <2>2 DEF Talk, Final
      <3>2. f[2] = last /\ Flight = {last} /\ f \in Talks(events)
        BY <1>3, <1>4, <3>1
      <3>3. Quiet(events', last) /\ Quiet(down, last) /\ chat[last] \in {"none", "ended"}
        BY <1>3, <2>2, <3>2 DEF Lives, Life
      <3>4. Talks(events') \cup Talks(down') = {}
        BY <1>1, <1>3, <3>2, <3>3 DEF OwnOnly, Quiet
      <3>5. Starts(up) = {}
        BY <1>1, <3>2, Zenon DEF OwnOnly, Lives, Life, Quiet
      <3>6. \A i \in Ids : chat[i] \notin {"none", "ended"} => link # "up"
        BY <1>1, <3>2, <3>3, Zenon DEF OwnOnly
      <3> QED BY <1>1, <2>1, <3>4, <3>5, <3>6 DEF Finished, OwnOnly
    <2>3. CASE ~Final(f)
      <3>1. f[1] = "interrupted"
        BY <1>7, <2>3 DEF Final
      <3>2. run = "wait" /\ Talks(events') = {}
        BY <1>3, <3>1 DEF Placed
      <3>3. link = "down" /\ Talks(down) = {} /\ Starts(up) = {}
        BY <3>2, Empty DEF Placed
      <3> QED BY <1>1, <2>1, <3>2, <3>3, Zenon DEF Finished, OwnOnly
    <2> QED BY <2>2, <2>3
  <1>8. CASE f[1] \notin {"route", "delta", "done", "error", "interrupted"}
    <2>1. state' = state /\ entry' = entry
      BY <1>8 DEF HandleWSEvent, f
    <2>2. Flight' = Flight
      BY <1>1, <2>1 DEF Flight
    <2> QED BY <1>1, <1>3, <2>1, <2>2 DEF OwnOnly
  <1> QED BY <1>5, <1>6, <1>7, <1>8

\* The steps of the client.
LEMMA OwnClient ==
  ASSUME Typed, Placed, Lives, Own,
         \/ Client \/ DialFails \/ Workspace \/ SendOnClosed
         \/ Submit \/ Cancel \/ NewChat \/ Quit
  PROVE  Own'
  <1>e. Talks(<<>>) = {} /\ Starts(<<>>) = {}
    BY Empty
  <1>1. ASSUME ~restarted' => ~restarted,
               Talks(events') \cup Talks(down') \subseteq Talks(events) \cup Talks(down),
               Starts(up') \subseteq Starts(up), Flight \subseteq Flight',
               link' = "up" => link = "up" \/ \A i \in Ids : chat'[i] = "none",
               chat' = chat, entry' \in {entry, NoEntry}
        PROVE  Own'
    <2> SUFFICES ASSUME ~restarted'
                 PROVE  OwnOnly(Talks(events') \cup Talks(down'), Starts(up'), link', chat', entry', Flight')
      BY DEF Own
    <2>1. OwnOnly(Talks(events) \cup Talks(down), Starts(up), link, chat, entry, Flight)
      BY <1>1 DEF Own
    <2> QED BY ONLY <1>1, <2>1, Zenon DEF OwnOnly
  <1>2. CASE Dial
    <2>1. /\ up' = up \/ up' = <<>>
          /\ down' = down \/ down' = <<>>
          /\ UNCHANGED <<events, chat, entry, restarted, Flight>> /\ serve = "off"
      BY <1>2 DEF Dial, wire, chats, screen, Flight
    <2>2. \A i \in Ids : chat'[i] = "none"
      BY <2>1 DEF Placed
    <2> QED BY <1>1, <1>e, <2>1, <2>2
  <1>3. CASE ReadHello
    <2>1. Talks(events') = Talks(events)
      BY <1>3, EmitsOther, Notices DEF ReadHello
    <2>2. Talks(down') \subseteq Talks(down)
      BY <1>3, LivesFacts, TakesOrder, Zenon DEF ReadHello
    <2>3. UNCHANGED <<up, link, chat, entry, restarted, Flight>>
      BY <1>3 DEF ReadHello, chats, screen, Flight
    <2> QED BY <1>1, <2>1, <2>2, <2>3
  <1>4. CASE ReadFrame
    <2> DEFINE f == Head(down)
    <2>1. /\ events \in Seq(Event) /\ down \in Seq(Frame) /\ down # <<>> /\ down' = Tail(down)
          /\ events' = events \/ Emit(f)
      BY <1>4, LivesFacts DEF ReadFrame
    <2>2. f \in Event /\ Talks(down') \subseteq Talks(down) /\ (Talk(f) => f \in Talks(down))
      BY <2>1, Takes, TakesOrder, Members, Zenon
    <2> HIDE DEF f
    <2>3. events' = events \/ Frames(events') = Frames(events) \cup {f}
      <3>1. events' = events \/ events' = Append(events, f)
        BY <2>1, <2>2, Emits
      <3>2. Frames(Append(events, f)) = Frames(events) \cup {f}
        BY <2>1, <2>2, AppendsFrames
      <3> QED BY <3>1, <3>2, Zenon
    <2>4. Talks(events') \cup Talks(down') \subseteq Talks(events) \cup Talks(down)
      BY <2>2, <2>3 DEF Talks
    <2>5. UNCHANGED <<up, link, chat, entry, restarted, Flight>>
      BY <1>4 DEF ReadFrame, chats, screen, Flight
    <2> QED BY <1>1, <2>4, <2>5
  <1>5. CASE ReadFails
    <2>1. /\ up' = <<>> /\ down' = <<>> /\ link' = "down"
          /\ UNCHANGED <<events, chat, entry, restarted, Flight>>
      BY <1>5 DEF ReadFails, HangUp, chats, screen, Flight
    <2> QED BY <1>1, <1>e, <2>1
  <1>6. CASE ConnectReturns
    <2>1. Talks(events') = Talks(events)
      BY <1>6, EmitsOther, Notices DEF ConnectReturns
    <2>2. /\ up' = <<>> /\ down' = <<>> /\ link' = "down"
          /\ UNCHANGED <<chat, entry, restarted, Flight>>
      BY <1>6 DEF ConnectReturns, HangUp, chats, screen, Flight
    <2> QED BY <1>1, <1>e, <2>1, <2>2
  <1>7. CASE Interrupt
    <2>1. UNCHANGED <<up, down, link, chat, entry, restarted, Flight>>
      BY <1>7 DEF Interrupt, socketVars, wire, chats, screen, Flight
    <2> QED BY <1>1, <1>7, <2>1, InterruptTalks
  <1>8. CASE Retry \/ DialFails
    <2>1. UNCHANGED <<up, down, events, link, chat, entry, restarted, Flight>>
      BY <1>8, Zenon DEF Retry, DialFails, socketVars, wire, chats, screen, Flight
    <2> QED BY <1>1, <2>1
  <1>9. CASE SendStart
    <2>1. /\ UNCHANGED <<down, events, link, chat, restarted, last>>
          /\ pane = "sending" /\ pane' = "ready" /\ last \in Ids
      BY <1>9, SendStartUnsent DEF SendStart, chats
    <2>2. Flight = {}
      BY <2>1 DEF Flight
    <2>3. CASE up' = up /\ Finished
      BY <1>1, <2>1, <2>2, <2>3 DEF Finished
    <2>4. CASE up' = Append(up, <<"start", last>>) /\ UNCHANGED <<state, entry>>
      <3> SUFFICES ASSUME ~restarted'
                   PROVE  OwnOnly(Talks(events') \cup Talks(down'), Starts(up'), link', chat', entry', Flight')
        BY DEF Own
      <3> DEFINE s == <<"start", last>>
      <3>1. OwnOnly(Talks(events) \cup Talks(down), Starts(up), link, chat, entry, {})
        BY <2>1, <2>2 DEF Own
      <3>2. s \in Request /\ up \in Seq(Request) /\ up' = Append(up, s)
        BY <2>1, <2>4, Members, LivesFacts, Zenon
      <3>3. Frames(up') = Frames(up) \cup {s}
        <4> HIDE DEF s
        <4> QED BY <3>2, AppendsFrames
      <3>4. Starts(up') \subseteq Starts(up) \cup {last}
        BY <3>3 DEF Starts
      <3>5. Flight' = {last}
        BY <2>1, <2>4 DEF Flight, Typed, ClientOK
      <3> QED BY <2>1, <2>4, <3>1, <3>4, <3>5, Zenon DEF OwnOnly
    <2> QED BY <1>9, <2>3, <2>4 DEF SendStart
  <1>10. CASE HandleWSEvent
    BY <1>10, HandleWSEventOwn
  <1>11. CASE CloseReturns
    <2>1. UNCHANGED <<up, down, events, link, chat, entry, restarted, Flight>>
      BY <1>11 DEF CloseReturns, socketVars, wire, chats, Flight
    <2> QED BY <1>1, <2>1
  <1>12. CASE SendOnClosed
    <2>1. /\ up' = <<>> /\ down' = <<>> /\ events' = <<>> /\ link' = "down"
          /\ UNCHANGED <<chat, entry, restarted>> /\ Flight \subseteq Flight'
      BY <1>12 DEF SendOnClosed, HangUp, chats, Flight
    <2> QED BY <1>1, <1>e, <2>1
  <1>13. CASE Submit
    <2>1. /\ UNCHANGED <<up, down, events, link, chat, restarted>> /\ Flight = {} /\ entry' = NoEntry
      BY <1>13 DEF Submit, CanSend, wire, chats, Flight
    <2> QED BY <1>1, <2>1
  <1>14. CASE Cancel
    <2> DEFINE s == <<"cancel", 0>>
    <2>1. s \in Request /\ up \in Seq(Request) /\ up' = Append(up, s)
      BY <1>14, Members, LivesFacts, Zenon DEF Cancel
    <2>2. Frames(up') = Frames(up) \cup {s}
      <3> HIDE DEF s
      <3> QED BY <2>1, AppendsFrames
    <2>3. Starts(up') \subseteq Starts(up)
      BY <2>2 DEF Starts
    <2>4. UNCHANGED <<down, events, link, chat, entry, restarted, Flight>>
      BY <1>14 DEF Cancel, chats, screen, Flight
    <2> QED BY <1>1, <2>3, <2>4
  <1>15. CASE NewChat
    <2>1. UNCHANGED <<up, down, events, link, chat>> /\ entry' = NoEntry
      BY <1>15 DEF NewChat, Finished, socketVars, wire, chats
    <2>2. CASE state = "idle"
      <3>1. ~restarted' => ~restarted
        BY <1>15, Zenon DEF NewChat
      <3>2. Flight = {}
        BY <2>2 DEF Flight
      <3> QED BY <1>1, <2>1, <3>1, <3>2
    <2>3. CASE state # "idle"
      <3>1. restarted'
        BY <1>15, <2>3, Zenon DEF NewChat
      <3> QED BY <3>1 DEF Own
    <2> QED BY <2>2, <2>3
  <1>16. CASE Quit
    <2>1. /\ up' = up \/ up' = <<>>
          /\ down' = down \/ down' = <<>>
          /\ events' = <<>> /\ (link' = "up" => link = "up")
          /\ UNCHANGED <<chat, entry, restarted, Flight>>
      BY <1>16 DEF Quit, HangUp, wire, chats, Flight
    <2> QED BY <1>1, <1>e, <2>1
  <1> QED
    BY <1>2, <1>3, <1>4, <1>5, <1>6, <1>7, <1>8, <1>9, <1>10, <1>11, <1>12,
       <1>13, <1>14, <1>15, <1>16 DEF Client, Workspace

\* Every step keeps what is said of the chat in flight.
LEMMA OwnStep == Typed /\ Placed /\ Lives /\ Own /\ [Next]_vars => Own'
  <1>1. UNCHANGED vars /\ Own => Own'
    BY DEF vars, socketVars, wire, chats, reader, screen, Own, Flight
  <1> QED BY <1>1, OwnClient, OwnDaemon DEF Next

-----------------------------------------------------------------------------
(* The state on display.                                                   *)

\* What Follows says stays true as frames move towards the workspace, as others
\* are added, and when a current state is added.
LEMMA FollowsKeeps ==
  ASSUME NEW d \in Seq(Frame), NEW e \in Seq(Event), NEW s \in Int, NEW v \in Int
  PROVE  /\ \A f \in Frame : Follows(d, e, s, v) /\ f[1] # "state" => Follows(Append(d, f), e, s, v)
         /\ \A f \in Event : Follows(d, e, s, v) /\ f[1] # "state" => Follows(d, Append(e, f), s, v)
         /\ \A f \in Frame : f[1] = "state" /\ f[2] >= v => Follows(Append(d, f), e, s, v)
  <1>1. \A f : f[1] # "state" => ~Stale(f, v)
    BY DEF Stale
  <1>2. ASSUME NEW f \in Frame, Follows(d, e, s, v), f[1] # "state"
        PROVE  Follows(Append(d, f), e, s, v)
    <2>1. ~Stale(f, v)
      BY <1>2, Zenon DEF Stale
    <2>2. /\ Clean(d, v) => Clean(Append(d, f), v)
          /\ Carries(d, v) => Carries(Append(d, f), v)
      BY <2>1, AppendsState
    <2> QED BY <1>2, <2>2 DEF Follows
  <1>3. ASSUME NEW f \in Event, Follows(d, e, s, v), f[1] # "state"
        PROVE  Follows(d, Append(e, f), s, v)
    <2>1. ~Stale(f, v)
      BY <1>3 DEF Stale
    <2>2. /\ Clean(e, v) => Clean(Append(e, f), v)
          /\ Carries(e, v) => Carries(Append(e, f), v)
      BY <2>1, AppendsState
    <2> QED BY <1>3, <2>2 DEF Follows
  <1>4. ASSUME NEW f \in Frame, f[1] = "state", f[2] >= v
        PROVE  Follows(Append(d, f), e, s, v)
    <2>1. f[2] \in Versions
      BY <1>4, Members, Zenon
    <2>2. Current(f, v) /\ ~Stale(f, v)
      BY <1>4, <2>1 DEF Current, Stale, Versions
    <2>3. Carries(Append(d, f), v)
      BY <2>2, AppendsState
    <2> QED BY <2>3 DEF Follows
  <1> QED BY <1>2, <1>3, <1>4, Zenon

\* The client reads a frame: it goes to the events, or is no state.
LEMMA FollowsReads ==
  ASSUME NEW d \in Seq(Frame), NEW e \in Seq(Event), NEW s \in Int, NEW v \in Int,
         d # <<>>, Follows(d, e, s, v)
  PROVE  /\ Follows(Tail(d), Append(e, Head(d)), s, v)
         /\ Head(d)[1] # "state" => Follows(Tail(d), e, s, v)
  <1> DEFINE f == Head(d)
             t == Tail(d)
             a == Append(e, f)
  <1>1. f \in Frame /\ f \in Event
    BY Takes, Members, Zenon
  <1>2. f[1] = "state" => f[2] \in Int
    <2> HIDE DEF f
    <2>1. f[1] = "state" => f[2] \in Versions
      BY <1>1, StateFrames
    <2> QED BY <2>1, SocketAssumption DEF Versions
  <1>3. /\ Clean(d, v) => Clean(t, v) /\ ~Stale(f, v)
        /\ Carries(d, v) => Carries(t, v) \/ (Current(f, v) /\ Clean(t, v))
    BY TakesState
  <1>4. /\ ~Stale(f, v) /\ Clean(e, v) => Clean(a, v)
        /\ ~Stale(f, v) /\ Carries(e, v) => Carries(a, v)
        /\ Current(f, v) /\ ~Stale(f, v) => Carries(a, v)
    BY <1>1, AppendsState
  <1>5. /\ f[1] # "state" => ~Stale(f, v) /\ ~Current(f, v)
        /\ Current(f, v) => ~Stale(f, v)
    BY <1>2 DEF Stale, Current
  <1> HIDE DEF f, t, a
  <1>6. Follows(t, a, s, v)
    BY <1>3, <1>4, <1>5 DEF Follows
  <1>7. f[1] # "state" => Follows(t, e, s, v)
    BY <1>3, <1>5 DEF Follows
  <1> QED BY <1>6, <1>7 DEF f, t, a

\* The workspace applies an event and shows the state it has.
LEMMA FollowsShows ==
  ASSUME NEW d \in Seq(Frame), NEW e \in Seq(Event), NEW s \in Int, NEW v \in Int,
         e # <<>>, Follows(d, e, s, v), NEW s2,
         s2 = IF Head(e)[1] = "state" THEN Head(e)[2] ELSE s
  PROVE  Follows(d, Tail(e), s2, v)
  <1> DEFINE f == Head(e)
             t == Tail(e)
  <1>1. f \in Event
    BY Takes
  <1>2. f[1] = "state" => f[2] \in Int
    <2>1. f[1] = "state" => f[2] \in Versions
      BY <1>1, Members, Zenon
    <2> HIDE DEF f
    <2> QED BY <2>1, SocketAssumption DEF Versions
  <1>3. /\ Clean(e, v) => Clean(t, v) /\ ~Stale(f, v)
        /\ Carries(e, v) => Carries(t, v) \/ (Current(f, v) /\ Clean(t, v))
    BY TakesState
  <1>4. /\ Current(f, v) => s2 >= v
        /\ ~Stale(f, v) /\ s >= v => s2 >= v
    BY <1>2 DEF Current, Stale
  <1> HIDE DEF f, t
  <1>5. Follows(d, t, s2, v)
    BY <1>3, <1>4 DEF Follows
  <1> QED BY <1>5 DEF t

\* A step that leaves the hub and the snapshot alone only has to keep what
\* Follows says of a connection that is up before and after it.
LEMMA FreshKept ==
  ASSUME Freshness, UNCHANGED <<polled, raced, serve, held, fingerprint>>,
         serve = "reading" /\ link' = "up" /\ run' = "live" /\ ~dropped' =>
           /\ link = "up" /\ run = "live" /\ ~dropped
           /\ Follows(down, events, shown, fingerprint) =>
                Follows(down', events', shown', fingerprint)
  PROVE  Freshness'
  <1>1. /\ polled' = polled /\ serve' = serve /\ held' = held /\ fingerprint' = fingerprint
        /\ ~raced' => ~raced
    OBVIOUS
  <1>2. ASSUME polled' = -1, ~raced'
        PROVE  serve' = "reply" => held' >= fingerprint'
    BY <1>1, <1>2 DEF Freshness
  <1>3. ASSUME polled' = -1, ~raced', serve' = "reading", link' = "up", run' = "live", ~dropped'
        PROVE  Follows(down', events', shown', fingerprint')
    BY <1>1, <1>3 DEF Freshness
  <1> QED BY <1>2, <1>3 DEF Freshness

\* The client's reader takes a frame off the connection.
LEMMA FreshReads ==
  ASSUME Typed, Placed, Freshness, ReadHello \/ ReadFrame
  PROVE  Freshness'
  <1>1. /\ down \in Seq(Frame) /\ events \in Seq(Event) /\ shown \in Int /\ fingerprint \in Int
    BY SocketAssumption DEF Typed, QueuesOK, HubOK, Versions
  <1>2. /\ down # <<>> /\ down' = Tail(down) /\ link' = link /\ shown' = shown
        /\ UNCHANGED <<polled, raced, serve, held, fingerprint>>
        /\ run = "live"
    BY DEF ReadHello, ReadFrame, hub, screen
  <1>3. link = "up" => ~Closed
    BY DEF Placed, Closed
  <1>4. Head(down) \in Frame /\ Head(down) \in Event
    BY <1>1, <1>2, Takes, Members, Zenon
  <1>5. ASSUME link' = "up", run' = "live", ~dropped'
        PROVE  /\ ~dropped
               /\ Follows(down, events, shown, fingerprint) =>
                    Follows(down', events', shown', fingerprint)
    <2>1. CASE ReadHello
      <3>1. Emit(<<"connected", 0>>)
        BY <1>5, <2>1 DEF ReadHello
      <3>2. ~dropped /\ events' = Append(events, <<"connected", 0>>)
        BY <1>2, <1>3, <1>5, <3>1, Emits, Members, Zenon
      <3>3. ASSUME Follows(down, events, shown, fingerprint)
            PROVE  Follows(down', events', shown', fingerprint)
        <4> DEFINE t == Tail(down)
                   f == <<"connected", 0>>
        <4>1. Head(down)[1] # "state"
          BY <2>1 DEF ReadHello
        <4>2. Follows(t, events, shown, fingerprint) /\ t \in Seq(Frame)
          BY <1>1, <1>2, <3>3, <4>1, FollowsReads, Takes
        <4>3. f \in Event /\ f[1] # "state"
          BY Members
        <4> HIDE DEF t, f
        <4>4. Follows(t, Append(events, f), shown, fingerprint)
          BY <1>1, <4>2, <4>3, FollowsKeeps, Zenon
        <4> QED BY <1>2, <3>2, <4>4 DEF t, f
      <3> QED BY <3>2, <3>3
    <2>2. CASE ReadFrame
      <3>1. CASE Head(down)[1] = "hello"
        <4>1. events' = events /\ (~dropped' => ~dropped)
          BY <2>2, <3>1 DEF ReadFrame
        <4> QED BY <1>1, <1>2, <1>5, <3>1, <4>1, FollowsReads
      <3>2. CASE Head(down)[1] # "hello"
        <4>1. Emit(Head(down))
          BY <2>2, <3>2 DEF ReadFrame
        <4>2. ~dropped /\ events' = Append(events, Head(down))
          BY <1>2, <1>3, <1>4, <1>5, <4>1, Emits
        <4> QED BY <1>1, <1>2, <4>2, FollowsReads
      <3> QED BY <3>1, <3>2
    <2> QED BY <2>1, <2>2
  <1> QED BY <1>2, <1>5, FreshKept

\* The other steps of the client and the workspace.
LEMMA FreshClient ==
  ASSUME Typed, Placed, Freshness,
         Client \/ DialFails \/ Workspace \/ SendOnClosed \/ Submit \/ Cancel \/ NewChat \/ Quit
  PROVE  Freshness'
  <1>1. CASE Dial
    BY <1>1, FreshKept DEF Dial, wire, hub, Closed
  <1>2. CASE ReadHello \/ ReadFrame
    BY <1>2, FreshReads
  <1>3. CASE ReadFails \/ ConnectReturns \/ SendOnClosed
    BY <1>3, FreshKept, Zenon DEF ReadFails, ConnectReturns, SendOnClosed, HangUp, hub
  <1>4. CASE Interrupt \/ Retry \/ DialFails
    <2>1. UNCHANGED <<polled, raced, serve, held, fingerprint>> /\ run' # "live"
      BY <1>4 DEF Interrupt, Retry, DialFails, socketVars, hub
    <2> QED BY <2>1, FreshKept
  <1>5. CASE SendStart \/ Cancel \/ Submit \/ NewChat \/ CloseReturns
    <2>1. /\ UNCHANGED <<polled, raced, serve, held, fingerprint>>
          /\ UNCHANGED <<link, down, events, shown, run, dropped>>
      BY <1>5, Zenon
         DEF SendStart, Cancel, Submit, NewChat, CloseReturns, Finished, socketVars, wire, hub,
             reader, screen
    <2> QED BY <2>1, FreshKept
  <1>6. CASE HandleWSEvent
    <2>1. /\ UNCHANGED <<polled, raced, serve, held, fingerprint>>
          /\ UNCHANGED <<link, down, run, dropped>>
          /\ events # <<>> /\ events' = Tail(events)
          /\ shown' = IF Head(events)[1] = "state" THEN Head(events)[2] ELSE shown
      BY <1>6 DEF HandleWSEvent, socketVars, wire, hub, reader
    <2>2. /\ down \in Seq(Frame) /\ events \in Seq(Event) /\ shown \in Int /\ fingerprint \in Int
      BY SocketAssumption DEF Typed, QueuesOK, HubOK, Versions
    <2>3. ASSUME Follows(down, events, shown, fingerprint)
          PROVE  Follows(down', events', shown', fingerprint)
      <3>1. Follows(down, Tail(events), shown', fingerprint)
        BY <2>1, <2>2, <2>3, FollowsShows
      <3> QED BY <2>1, <3>1
    <2> QED BY <2>1, <2>3, FreshKept
  <1>7. CASE Quit
    <2>1. UNCHANGED <<polled, raced, serve, held, fingerprint>>
      BY <1>7 DEF Quit, hub
    <2>2. run' = run /\ (run = "live" => link' = "down")
      BY <1>7 DEF Quit, HangUp, reader
    <2> QED BY <2>1, <2>2, FreshKept
  <1> QED BY <1>1, <1>2, <1>3, <1>4, <1>5, <1>6, <1>7 DEF Client, Workspace

\* A frame that is no state is sent.
LEMMA FreshSends ==
  ASSUME Typed, Freshness, NEW type, NEW about, <<type, about>> \in Frame, type # "state",
         Send(type, about), UNCHANGED <<polled, raced, serve, held, fingerprint>>,
         UNCHANGED <<reader, events, screen, dropped>>
  PROVE  Freshness'
  <1>1. /\ down \in Seq(Frame) /\ events \in Seq(Event) /\ shown \in Int /\ fingerprint \in Int
    BY SocketAssumption DEF Typed, QueuesOK, HubOK, Versions
  <1>2. link' = "up" => link = "up" /\ down' = Append(down, <<type, about>>)
    BY Sends
  <1>3. run' = run /\ events' = events /\ shown' = shown /\ (~dropped' => ~dropped)
    BY DEF reader, screen
  <1> DEFINE f == <<type, about>>
  <1>4. f \in Frame /\ f[1] # "state"
    OBVIOUS
  <1> HIDE DEF f
  <1>5. Follows(down, events, shown, fingerprint) =>
          Follows(Append(down, f), events, shown, fingerprint)
    BY <1>1, <1>4, FollowsKeeps, Zenon
  <1> QED BY <1>2, <1>3, <1>5, FreshKept, Zenon DEF f

\* The steps of the daemon.
LEMMA FreshDaemon ==
  ASSUME Typed, Freshness, SocketNext, UNCHANGED <<reader, events, screen, dropped>>
  PROVE  Freshness'
  <1>0. /\ down \in Seq(Frame) /\ events \in Seq(Event) /\ shown \in Int /\ fingerprint \in Int
        /\ version \in Nat /\ held \in Versions /\ fingerprint <= version
        /\ polled \in {-1, fingerprint} /\ MaxTurns \in Nat
    BY SocketAssumption DEF Typed, QueuesOK, HubOK, Versions
  <1>u. run' = run /\ events' = events /\ shown' = shown /\ (~dropped' => ~dropped)
    BY DEF reader, screen
  <1>1. CASE Accept
    BY <1>1 DEF Accept, Freshness
  <1>2. CASE SendHello
    BY <1>2 DEF SendHello, Freshness
  <1>3. CASE ReadState
    <2>1. serve' = "reply" /\ held' = version /\ fingerprint' = fingerprint
      BY <1>3 DEF ReadState, hub
    <2> QED BY <1>0, <2>1 DEF Freshness
  <1>4. CASE SendSnapshot
    <2>1. /\ serve = "reply" /\ serve' = "reading" /\ Send("state", held)
          /\ fingerprint' = fingerprint /\ polled' = polled /\ (~raced' => ~raced)
      BY <1>4 DEF SendSnapshot, hub
    <2> DEFINE f == <<"state", held>>
    <2>2. f \in Frame /\ f[1] = "state" /\ f[2] = held
      BY <1>0, StateFrames
    <2>3. link' = "up" => down' = Append(down, f)
      BY <2>1, <2>2, Sends
    <2> HIDE DEF f
    <2>4. ASSUME polled' = -1, ~raced', link' = "up"
          PROVE  Follows(down', events', shown', fingerprint')
      <3>1. held >= fingerprint
        BY <2>1, <2>4 DEF Freshness
      <3>2. Follows(Append(down, f), events, shown, fingerprint)
        BY <1>0, <2>2, <3>1, FollowsKeeps, Zenon
      <3> QED BY <1>u, <2>1, <2>3, <2>4, <3>2, Zenon
    <2> QED BY <2>1, <2>4 DEF Freshness
  <1>5. CASE ReadLoop
    <2>1. UNCHANGED <<polled, raced, serve, held, fingerprint>>
      BY <1>5 DEF ReadLoop, hub
    <2>2. CASE Head(up)[1] = "start" /\ chatCancel # 0
      <3>1. Send("error", Head(up)[2])
        BY <1>5, <2>2 DEF ReadLoop, StartChat
      <3>2. Head(up) \in Request
        BY <1>5, QueuesShrink, Zenon DEF ReadLoop, Typed
      <3>3. <<"error", Head(up)[2]>> \in Frame
        BY <2>2, <3>2, Members, Zenon
      <3> QED BY <2>1, <3>1, <3>3, FreshSends
    <2>3. CASE ~(Head(up)[1] = "start" /\ chatCancel # 0)
      <3>1. link' = link /\ down' = down
        BY <1>5, <2>3 DEF ReadLoop, StartChat, CancelChat
      <3> QED BY <1>u, <2>1, <3>1, FreshKept
    <2> QED BY <2>2, <2>3
  <1>6. CASE Teardown
    BY <1>6 DEF Teardown, Freshness
  <1>7. ASSUME NEW i \in Ids, CleanUp(i)
        PROVE  Freshness'
    <2>1. UNCHANGED <<polled, raced, serve, held, fingerprint>> /\ link' = link /\ down' = down
      BY <1>7 DEF CleanUp, wire, hub
    <2> QED BY <1>u, <2>1, FreshKept
  <1>8. ASSUME NEW i \in Ids, Route(i) \/ Delta(i) \/ End(i)
        PROVE  Freshness'
    <2>1. PICK type \in {"route", "delta", "done", "error"} : Send(type, i)
      BY <1>8 DEF Route, Delta, End, Say
    <2>2. UNCHANGED <<polled, raced, serve, held, fingerprint>>
      BY <1>8 DEF Route, Delta, End, Say, hub
    <2>3. <<type, i>> \in Frame /\ type # "state"
      BY Members, Zenon
    <2> QED BY <2>1, <2>2, <2>3, FreshSends
  <1>9. CASE StateChanges
    <2>1. UNCHANGED <<polled, raced, serve, held, fingerprint>> /\ link' = link /\ down' = down
      BY <1>9 DEF StateChanges, wire
    <2> QED BY <1>u, <2>1, FreshKept
  <1>10. CASE Poll
    <2>1. polled' # -1
      BY <1>0, <1>10 DEF Poll
    <2> QED BY <2>1 DEF Freshness
  <1>11. CASE Broadcast
    <2>1. /\ polled = fingerprint /\ polled \in Versions
          /\ serve' = serve /\ held' = held /\ fingerprint' = fingerprint
      BY <1>0, <1>11 DEF Broadcast, Typed, HubOK, Versions
    <2>2. ASSUME ~raced', serve = "reply"
          PROVE  held = polled
      BY <1>11, <2>2, Zenon DEF Broadcast
    <2>3. ASSUME serve = "reading", link' = "up"
          PROVE  Follows(down', events', shown', fingerprint')
      <3> DEFINE f == <<"state", polled>>
      <3>1. f \in Frame /\ f[1] = "state" /\ f[2] = polled
        BY <2>1, StateFrames
      <3>2. Send("state", polled)
        BY <1>11, <2>3 DEF Broadcast
      <3>3. down' = Append(down, f)
        BY <2>3, <3>1, <3>2, Sends
      <3> HIDE DEF f
      <3>4. f[2] >= fingerprint
        BY <1>0, <2>1, <3>1
      <3>5. Follows(Append(down, f), events, shown, fingerprint)
        BY <1>0, <3>1, <3>4, FollowsKeeps, Zenon
      <3> QED BY <1>u, <2>1, <3>3, <3>5
    <2> QED BY <1>0, <2>1, <2>2, <2>3 DEF Freshness, Versions
  <1>12. CASE LinkDrops
    <2>1. UNCHANGED <<polled, raced, serve, held, fingerprint>> /\ link' = "down"
      BY <1>12 DEF LinkDrops, hub
    <2> QED BY <2>1, FreshKept
  <1>13. CASE DaemonRestarts
    BY <1>13 DEF DaemonRestarts, Freshness
  <1> QED
    BY <1>1, <1>2, <1>3, <1>4, <1>5, <1>6, <1>7, <1>8, <1>9, <1>10, <1>11, <1>12, <1>13
       DEF SocketNext, Serving

\* Every step keeps what is said of the state on display.
LEMMA FreshStep == Typed /\ Placed /\ Freshness /\ [Next]_vars => Freshness'
  <1>1. UNCHANGED vars /\ Freshness => Freshness'
    BY FreshKept DEF vars, socketVars, wire, hub, reader, screen
  <1> QED BY <1>1, FreshClient, FreshDaemon DEF Next

-----------------------------------------------------------------------------
(* The theorems.                                                           *)

\* The invariant holds at the start.
LEMMA SessionInit == Init => SessionInv
  <1> SUFFICES ASSUME Init
               PROVE  SessionInv
    OBVIOUS
  <1> USE SocketAssumption, ClientAssumption
  <1>1. QueuesOK(up, down, events)
    BY Empty DEF Init, SocketInit, QueuesOK
  <1>2. DaemonOK(link, serve, chat, cancelled, chatCancel)
    BY DEF Init, SocketInit, DaemonOK, ChatStates
  <1>3. HubOK(version, fingerprint, polled, held, shown, turns)
    BY DEF Init, SocketInit, HubOK, Versions
  <1>4. ClientOK(run, pane, state, last, activeID, entry)
    BY DEF Init, ClientOK, NoEntry
  <1>5. Placed
    BY Empty DEF Init, SocketInit, Placed
  <1>6. Lives
    BY Empty DEF Init, SocketInit, Lives, Life, Quiet, Unsent
  <1>7. Own
    BY Empty DEF Init, SocketInit, Own, OwnOnly
  <1>8. Freshness
    BY DEF Init, SocketInit, Freshness
  <1> QED BY <1>1, <1>2, <1>3, <1>4, <1>5, <1>6, <1>7, <1>8 DEF SessionInv, Typed

\* The inductive invariant of a session holds throughout.
THEOREM SessionInvariant == Spec => []SessionInv
  <1>1. SessionInv /\ [Next]_vars => SessionInv'
    BY TypedStep, PlacedStep, LivesStep, OwnStep, FreshStep DEF SessionInv
  <1> QED BY <1>1, SessionInit, PTL DEF Spec

\* Every variable keeps its type and no queue outgrows its bound, whatever the
\* sizes of the queues and the number of chats (WSConn.Send, WSClient.emit).
THEOREM SessionTyped == Spec => []SessionTypeOK
  <1>1. SessionInv => SessionTypeOK
    <2> SUFFICES ASSUME SessionInv
                 PROVE  SessionTypeOK
      OBVIOUS
    <2>1. /\ QueuesOK(up, down, events) /\ DaemonOK(link, serve, chat, cancelled, chatCancel)
          /\ HubOK(version, fingerprint, polled, held, shown, turns)
          /\ ClientOK(run, pane, state, last, activeID, entry)
      BY DEF SessionInv, Typed
    <2>2. {version, held} \subseteq Versions /\ {fingerprint, polled, shown} \subseteq Versions \cup {-1}
      BY <2>1, SocketAssumption DEF HubOK, Versions
    <2> QED BY <2>1, <2>2 DEF SessionTypeOK, QueuesOK, DaemonOK, ClientOK
  <1> QED BY <1>1, SessionInvariant, PTL

\* A later place of a queue is one of its places.
LEMMA LaterPlace ==
  ASSUME NEW n \in Nat, NEW k \in 1..n, NEW m \in (k + 1)..n
  PROVE  m \in 1..n /\ k < m
  OBVIOUS

\* A chat has one terminal event and it is the last, for any number of chats,
\* cancellations, refusals, lost connections and restarts (HandleChatStart,
\* WSConn.Send, WSClient.emit).
THEOREM TerminalEventIsLast == Spec => []TerminalLast
  <1>1. SessionInv => TerminalLast
    <2> SUFFICES ASSUME SessionInv
                 PROVE  TerminalLast
      OBVIOUS
    <2>1. Life(up, events, down, chat, Unsent)
      BY DEF SessionInv, Lives
    <2>2. events \in Seq(Event) /\ down \in Seq(Event)
      <3>1. events \in Seq(Event) /\ down \in Seq(Frame) /\ Frame \subseteq Event
        BY Members DEF SessionInv, Typed, QueuesOK
      <3> QED BY <3>1
    <2>3. Sealed(events) /\ Sealed(down) /\ \A f \in Talks(events) : Final(f) => Quiet(down, f[2])
      BY <2>1, Zenon DEF Life
    <2>4. /\ Sealed(Coming) /\ DOMAIN Coming = 1..Len(Coming) /\ Len(Coming) \in Nat
          /\ \A k \in DOMAIN Coming : Coming[k] \in Frames(events) \cup Frames(down)
      BY <2>2, <2>3, Joins, Zenon DEF Coming
    <2> HIDE DEF Coming
    <2> SUFFICES ASSUME NEW k \in 1..Len(Coming), Coming[k][1] \in {"done", "error"}
                 PROVE  /\ chat[Coming[k][2]] \in {"none", "ended"}
                        /\ \A m \in (k + 1)..Len(Coming) :
                             Coming[m][1] \in {"route", "delta", "done", "error"} =>
                               Coming[m][2] # Coming[k][2]
      BY Zenon DEF TerminalLast
    <2>5. Final(Coming[k]) /\ Talk(Coming[k])
      BY DEF Final, Talk
    <2>6. chat[Coming[k][2]] \in {"none", "ended"}
      <3>1. Coming[k] \in Talks(events) \cup Talks(down)
        BY <2>4, <2>5, Zenon DEF Talks
      <3> QED BY <2>1, <2>5, <3>1, Zenon DEF Life
    <2>7. ASSUME NEW m \in (k + 1)..Len(Coming), Talk(Coming[m])
          PROVE  Coming[m][2] # Coming[k][2]
      <3>1. m \in 1..Len(Coming) /\ k < m
        BY <2>4, LaterPlace, Zenon
      <3> QED BY <2>4, <2>5, <2>7, <3>1, Zenon DEF Sealed
    <2> QED BY <2>6, <2>7, Zenon DEF Talk
  <1> QED BY <1>1, SessionInvariant, PTL

\* The answer being written has text of the chat submitted last only, although
\* no event is matched with its request, unless the user left a conversation
\* whose chat was running (onRoute, onDelta, canSend).
THEOREM AnswerIsOwn == Spec => []OwnText
  <1>1. SessionInv => OwnText
    BY DEF SessionInv, Own, OwnOnly, Flight, OwnText
  <1> QED BY <1>1, SessionInvariant, PTL

\* When nothing is on its way the workspace shows the state the hub compared
\* last, unless a broadcast overtook the first snapshot (serve, BroadcastNow).
THEOREM ShownIsFresh == Spec => []Fresh
  <1>1. SessionInv => Fresh
    <2> SUFFICES ASSUME SessionInv, link = "up", serve = "reading", run = "live",
                        down = <<>>, events = <<>>, polled = -1, ~raced, ~dropped
                 PROVE  shown >= fingerprint
      BY DEF Fresh
    <2>1. Follows(<<>>, <<>>, shown, fingerprint)
      BY DEF SessionInv, Freshness
    <2>2. ~Carries(<<>>, fingerprint)
      BY DEF Carries
    <2> QED BY <2>1, <2>2 DEF Follows
  <1> QED BY <1>1, SessionInvariant, PTL

-----------------------------------------------------------------------------
(* A chat runs once.                                                       *)

\* The chats whose request was read, was lost with its connection, or could not
\* be sent.
Spent == {i \in Ids : i \notin Unsent \cup Starts(up)}

\* A chat that is spent stays so, and does not run again after it is over:
\* no prompt goes to a provider twice, although connections are lost and made
\* again between its submission and its answer (WSClient.StartChat, connectOnce,
\* readLoop of WSConn).
RunsOnce == [][\A i \in Spent : i \in Spent' /\ (chat[i] = "none" => chat'[i] = "none")]_vars

\* Fewer requests, or the one that was unsent.
LEMMA SpentKept ==
  ASSUME NEW i \in Spent,
         Unsent' \subseteq Unsent,
         up' = up \/ up' = <<>> \/ Starts(up') \subseteq Starts(up) \cup Unsent
  PROVE  i \in Spent'
  BY Empty DEF Spent

\* The steps of the client.
LEMMA SpentClient ==
  ASSUME Typed, Lives, NEW i \in Spent,
         \/ Client \/ DialFails \/ Workspace \/ SendOnClosed
         \/ Submit \/ Cancel \/ NewChat \/ Quit
  PROVE  i \in Spent' /\ chat' = chat
  <1>0. up \in Seq(Request)
    BY LivesFacts
  <1>1. ASSUME NEW s \in Request, up' = Append(up, s)
        PROVE  Starts(up') \subseteq Starts(up) \cup {j \in Ids : s = <<"start", j>>}
    <2>1. Frames(up') = Frames(up) \cup {s}
      BY <1>0, <1>1, AppendsFrames
    <2> QED BY <2>1, Zenon DEF Starts
  <1>2. CASE \/ Dial \/ ReadHello \/ ReadFrame \/ ReadFails \/ ConnectReturns \/ Interrupt
             \/ Retry \/ DialFails
    <2>1. (up' = up \/ up' = <<>>) /\ chat' = chat /\ Unsent' = Unsent
      <3>1. CASE Dial \/ ReadHello \/ ReadFrame
        BY <3>1 DEF Dial, ReadHello, ReadFrame, wire, chats, screen, Unsent
      <3>2. CASE ReadFails \/ ConnectReturns
        BY <3>2 DEF ReadFails, ConnectReturns, HangUp, chats, screen, Unsent
      <3>3. CASE Interrupt \/ Retry \/ DialFails
        BY <3>3 DEF Interrupt, Retry, DialFails, socketVars, wire, chats, screen, Unsent
      <3> QED BY <1>2, <3>1, <3>2, <3>3
    <2> QED BY <2>1, SpentKept
  <1>3. CASE HandleWSEvent \/ CloseReturns \/ NewChat \/ Quit
    <2>1. (up' = up \/ up' = <<>>) /\ chat' = chat /\ Unsent' = Unsent
      BY <1>3 DEF HandleWSEvent, CloseReturns, NewChat, Quit, HangUp, socketVars, wire, chats, Unsent
    <2> QED BY <2>1, SpentKept
  <1>4. CASE SendOnClosed
    <2>1. up' = <<>> /\ chat' = chat /\ Unsent' \subseteq Unsent
      BY <1>4 DEF SendOnClosed, HangUp, chats, Unsent
    <2> QED BY <2>1, SpentKept
  <1>5. CASE Submit
    <2>1. up' = up /\ chat' = chat
      BY <1>5 DEF Submit, wire, chats
    <2>2. Unsent' \subseteq Unsent
      BY <1>5, SubmitUnsent, Zenon
    <2> QED BY <2>1, <2>2, SpentKept
  <1>6. CASE SendStart
    <2>1. chat' = chat /\ (up' = up \/ up' = Append(up, <<"start", last>>))
      BY <1>6 DEF SendStart, chats
    <2>2. Unsent' \subseteq Unsent /\ last \in Unsent /\ last \in Ids
      BY <1>6, SendStartUnsent, Zenon
    <2>3. <<"start", last>> \in Request /\ \A j \in Ids : <<"start", last>> = <<"start", j>> => j = last
      BY ONLY <2>2 DEF Request
    <2>4. up' = up \/ Starts(up') \subseteq Starts(up) \cup {last}
      BY <1>1, <2>1, <2>3
    <2> QED BY <2>1, <2>2, <2>4, SpentKept
  <1>7. CASE Cancel
    <2>1. up' = Append(up, <<"cancel", 0>>) /\ chat' = chat /\ Unsent' = Unsent
      BY <1>7 DEF Cancel, chats, screen, Unsent
    <2>2. <<"cancel", 0>> \in Request /\ \A j \in Ids : <<"cancel", 0>> # <<"start", j>>
      BY DEF Request
    <2>3. Starts(up') \subseteq Starts(up)
      BY <1>1, <2>1, <2>2
    <2> QED BY <2>1, <2>3, SpentKept
  <1> QED BY <1>2, <1>3, <1>4, <1>5, <1>6, <1>7 DEF Client, Workspace

\* The steps of the daemon.
LEMMA SpentDaemon ==
  ASSUME Typed, Lives, NEW i \in Spent, SocketNext, UNCHANGED <<reader, events, screen, dropped>>
  PROVE  i \in Spent' /\ (chat[i] = "none" => chat'[i] = "none")
  <1>0. chat \in [Ids -> ChatStates] /\ i \in Ids /\ Unsent' = Unsent /\ up \in Seq(Request)
    BY LivesFacts DEF Typed, DaemonOK, screen, Unsent, Spent
  <1>1. CASE Accept \/ SendHello \/ ReadState \/ SendSnapshot \/ StateChanges \/ Poll \/ Broadcast \/ LinkDrops
    <2>1. up' = up /\ chat' = chat
      BY <1>1 DEF Accept, SendHello, ReadState, SendSnapshot, StateChanges, Poll, Broadcast, LinkDrops,
                  wire, chats
    <2> QED BY <1>0, <2>1, SpentKept
  <1>2. CASE ReadLoop
    <2> DEFINE h == Head(up)
    <2>1. up # <<>> /\ up' = Tail(up)
      BY <1>2 DEF ReadLoop
    <2>2. Frames(up) = {h} \cup Frames(up') /\ h \in Request
      BY <1>0, <2>1, Takes
    <2>3. Starts(up') \subseteq Starts(up)
      BY <2>2, Zenon DEF Starts
    <2>4. h[1] = "start" => h[2] \in Starts(up)
      BY <2>2, Members, Zenon DEF Starts
    <2>5. \/ chat' = chat
          \/ h[1] = "start" /\ chat' = [chat EXCEPT ![h[2]] = "started"]
      BY <1>2, Zenon DEF ReadLoop, StartChat, CancelChat, chats
    <2> HIDE DEF h
    <2>6. i \notin Starts(up)
      BY DEF Spent
    <2>7. chat'[i] = chat[i]
      BY <1>0, <2>4, <2>5, <2>6
    <2> QED BY <1>0, <2>3, <2>7, SpentKept, Zenon
  <1>3. CASE Teardown \/ DaemonRestarts
    <2>1. up' = up /\ chat'[i] = "none"
      BY <1>0, <1>3 DEF Teardown, DaemonRestarts, wire
    <2> QED BY <1>0, <2>1, SpentKept
  <1>4. ASSUME NEW j \in Ids, CleanUp(j)
        PROVE  i \in Spent' /\ (chat[i] = "none" => chat'[i] = "none")
    <2>1. up' = up /\ chat' = [chat EXCEPT ![j] = "none"]
      BY <1>4 DEF CleanUp, wire
    <2>2. chat[i] = "none" => chat'[i] = "none"
      BY <1>0, <2>1
    <2> QED BY <1>0, <2>1, <2>2, SpentKept
  <1>5. ASSUME NEW j \in Ids, Route(j) \/ Delta(j) \/ End(j)
        PROVE  i \in Spent' /\ (chat[i] = "none" => chat'[i] = "none")
    <2>1. up' = up /\ chat[j] # "none" /\ \E to : chat' = [chat EXCEPT ![j] = to]
      BY <1>5 DEF Route, Delta, End, Say
    <2>2. chat[i] = "none" => chat'[i] = "none"
      BY <1>0, <2>1
    <2> QED BY <1>0, <2>1, <2>2, SpentKept
  <1> QED BY <1>1, <1>2, <1>3, <1>4, <1>5 DEF SocketNext, Serving

\* No chat runs twice, for any number of chats, lost connections and restarts of
\* the daemon (WSClient.StartChat, connectOnce, WSConn.startChat).
THEOREM ChatRunsOnce == Spec => RunsOnce
  <1>1. SessionInv /\ [Next]_vars =>
          [\A i \in Spent : i \in Spent' /\ (chat[i] = "none" => chat'[i] = "none")]_vars
    BY SpentClient, SpentDaemon DEF SessionInv, Next
  <1> QED BY <1>1, SessionInvariant, PTL DEF Spec, RunsOnce
=============================================================================
