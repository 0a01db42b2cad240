---------------------------- MODULE SecureChannel ----------------------------
(***************************************************************************)
(* The encrypted connection of a paired app: requests and virtual sockets  *)
(* multiplexed over one channel (crates/secure/src/outbound.rs, lib.rs,    *)
(* wire.rs, client.rs, crates/hub/src/secure/mod.rs: serve and dispatch,   *)
(* packages/desktop/src-tauri/src/secure.rs: the socket commands).         *)
(*                                                                         *)
(* The way up is modelled record by record: the writer's choice of the     *)
(* next fragment, the assembly at the hub.  The way down uses the same     *)
(* writer; of it the model keeps what the way up establishes, the order    *)
(* of the messages of one key, and the one reader all streams share.       *)
(* Records are not lost or changed: a bad one ends the connection.         *)
(***************************************************************************)
EXTENDS Naturals, Sequences, SequencesExt, FiniteSets

CONSTANTS
  Sockets, Requests, NoBulk,
  Fragments,      \* bound: records of the longest message
  Window,         \* waiting: messages the writer looks at (64)
  QueueCap, DownCap,   \* messages the app and the hub hold before a sender waits
  SocketCap,      \* messages of one socket held at either end (32)
  UrgentStreak,   \* 8
  MaxAssemblies,  \* 8
  Modulus         \* bound: frames are numbered 0..Modulus-1

VARIABLES
  link,                          \* "up" or "down"
  js, entry, chan, pending,      \* the app: its sockets, Inner's two maps
  sent,                          \* the last frame written
  queue, bulk, streak,           \* the app's writer
  wire, assemblies,              \* records under way; Channel.pending
  sockets, inbox, pump, task,    \* the hub: its sockets, their tasks, requests
  got,                           \* the last frame handed on
  down                           \* the way down

app == <<js, entry, chan, pending, sent>>
up == <<queue, bulk, streak, wire>>
hub == <<sockets, inbox, pump, task, got>>
channelVars == <<link, app, up, assemblies, hub, down>>

-----------------------------------------------------------------------------
Keys == Sockets \union Requests
Frames == 0..Modulus - 1
After(n) == (n + 1) % Modulus

Request == [kind : {"open", "text", "close"}, key : Sockets, n : Frames, size : 1..Fragments]
           \union [kind : {"http"}, key : Requests, n : {0}, size : 1..Fragments]
Response == [kind : {"opened", "text", "closed", "error"}, key : Sockets]
            \union [kind : {"http", "error"}, key : Requests]

ASSUME ChannelAssumption ==
  /\ Sockets \intersect Requests = {}
  /\ NoBulk \notin [message : Request, next : 2..Fragments]
  /\ {Fragments, Window, QueueCap, DownCap, SocketCap, MaxAssemblies, Modulus} \subseteq Nat \ {0}
  /\ UrgentStreak \in Nat

ChannelTypeOK ==
  /\ link \in {"up", "down"}
  /\ js \in [Sockets -> {"new", "opening", "open", "closed"}]
  /\ entry \subseteq Sockets
  /\ chan \in [Sockets -> Seq(Response)]
  /\ \A s \in Sockets : Len(chan[s]) <= SocketCap /\ Len(inbox[s]) <= SocketCap
  /\ pending \subseteq Requests
  /\ {sent, got} \subseteq [Sockets -> Frames]
  /\ queue \in Seq(Request) /\ Len(queue) <= QueueCap
  /\ bulk \in {NoBulk} \union [message : Request, next : 2..Fragments]
  /\ streak \in 0..UrgentStreak
  /\ wire \in Seq([message : Request, part : 1..Fragments]) /\ Len(wire) <= 1
  /\ assemblies \subseteq [message : Request, next : 2..Fragments]
  /\ sockets \subseteq Sockets
  /\ inbox \in [Sockets -> Seq(Frames)]
  /\ pump \in [Sockets -> {"none", "connecting", "open", "sending", "closing"}]
  /\ task \in [Requests -> {"none", "running", "answering"}]
  /\ down \in Seq(Response) /\ Len(down) <= DownCap

ChannelInit ==
  /\ link = "up"
  /\ js = [s \in Sockets |-> "new"] /\ entry = {}
  /\ chan = [s \in Sockets |-> <<>>] /\ inbox = chan
  /\ pending = {} /\ task = [r \in Requests |-> "none"]
  /\ sent = [s \in Sockets |-> 0] /\ got = sent
  /\ queue = <<>> /\ bulk = NoBulk /\ streak = 0 /\ wire = <<>> /\ assemblies = {}
  /\ sockets = {} /\ pump = [s \in Sockets |-> "none"]
  /\ down = <<>>

\* Nothing of the same key waits before the i-th message.
FirstOfKey(seq, i) == \A j \in 1..i - 1 : seq[j].key # seq[i].key

-----------------------------------------------------------------------------
(* The app.                                                                *)

\* Sender::send, which waits for room.
Send(kind, k, n, size) ==
  /\ link = "up" /\ Len(queue) < QueueCap
  /\ queue' = Append(queue, [kind |-> kind, key |-> k, n |-> n, size |-> size])

\* Client::open_socket.
Open(s) ==
  /\ js[s] = "new"
  /\ js' = [js EXCEPT ![s] = "opening"]
  /\ entry' = entry \union {s}
  /\ Send("open", s, 0, 1)
  /\ UNCHANGED <<link, chan, pending, sent, bulk, streak, wire, assemblies, hub, down>>

\* secure_socket_send, one call after the other.
Write(s) ==
  /\ js[s] = "open"
  /\ sent' = [sent EXCEPT ![s] = After(@)]
  /\ \E size \in 1..Fragments : Send("text", s, sent'[s], size)
  /\ UNCHANGED <<link, js, entry, chan, pending, bulk, streak, wire, assemblies, hub, down>>

\* SecureSocket.close.
Close(s) ==
  /\ js[s] \in {"opening", "open"}
  /\ js' = [js EXCEPT ![s] = "closed"]
  /\ UNCHANGED <<link, entry, chan, pending, sent, up, assemblies, hub, down>>

\* Client::close_socket.
CloseSocket(s) ==
  /\ js[s] = "closed" /\ s \in entry
  /\ entry' = entry \ {s}
  /\ Send("close", s, 0, 1)
  /\ UNCHANGED <<link, js, chan, pending, sent, bulk, streak, wire, assemblies, hub, down>>

\* Client::request.
Ask(r) ==
  /\ r \notin pending
  /\ pending' = pending \union {r}
  /\ \E size \in 1..Fragments : Send("http", r, 0, size)
  /\ UNCHANGED <<link, js, entry, chan, sent, bulk, streak, wire, assemblies, hub, down>>

\* What the receiver task passes on to the page.
Show(s) ==
  /\ chan[s] # <<>>
  /\ LET m == Head(chan[s])
     IN  js' = [js EXCEPT ![s] =
           IF @ = "closed" \/ m.kind \in {"closed", "error"} THEN "closed" ELSE "open"]
  /\ chan' = [chan EXCEPT ![s] = Tail(@)]
  /\ UNCHANGED <<link, entry, pending, sent, up, assemblies, hub, down>>

\* The receiver is at its end.
End(s) ==
  /\ js[s] \in {"opening", "open"} /\ s \notin entry /\ chan[s] = <<>>
  /\ js' = [js EXCEPT ![s] = "closed"]
  /\ UNCHANGED <<link, entry, chan, pending, sent, up, assemblies, hub, down>>

-----------------------------------------------------------------------------
(* Writer::run.                                                            *)

Waiting == 1..(IF Len(queue) < Window THEN Len(queue) ELSE Window)

Overtakes(i) == queue[i].size = 1 /\ (bulk = NoBulk \/ bulk.message.key # queue[i].key)

Small == {i \in Waiting : Overtakes(i) /\ FirstOfKey(queue, i)}

\* Mutant: small messages always first.
UrgentAlways == TRUE
Urgent == streak < UrgentStreak

Put(m, part) ==
  /\ wire = <<>> /\ wire' = <<[message |-> m, part |-> part]>>
  /\ bulk' = IF part < m.size THEN [message |-> m, next |-> part + 1]
             ELSE IF part > 1 THEN NoBulk ELSE bulk

WriteSmall ==
  /\ Small # {} /\ Urgent
  /\ LET i == CHOOSE i \in Small : \A j \in Small : i <= j
     IN  Put(queue[i], 1) /\ queue' = RemoveAt(queue, i)
  /\ streak' = IF streak < UrgentStreak THEN streak + 1 ELSE streak

WriteBulk ==
  /\ Small = {} \/ ~Urgent
  /\ bulk # NoBulk
  /\ Put(bulk.message, bulk.next) /\ streak' = 0 /\ queue' = queue

WriteFirst ==
  /\ Small = {} \/ ~Urgent
  /\ bulk = NoBulk /\ queue # <<>>
  /\ Put(Head(queue), 1) /\ streak' = 0 /\ queue' = Tail(queue)

WriterStep ==
  /\ link = "up"
  /\ WriteSmall \/ WriteBulk \/ WriteFirst
  /\ UNCHANGED <<link, app, assemblies, hub, down>>

-----------------------------------------------------------------------------
(* The hub: decode and dispatch, which never wait.                         *)

\* What the hub's writer has or will send: keys may overtake each other.
\* out.try_send: an error there is no room for is lost.
Answer(kind, k) ==
  \E i \in 1..Len(down) + 1 :
    /\ \A j \in i..Len(down) : down[j].key # k
    /\ down' = InsertAt(down, i, [kind |-> kind, key |-> k])
TryError(k) == IF Len(down) < DownCap THEN Answer("error", k) ELSE down' = down

\* Mutant: the frame is dropped, the socket stays.
SkippedFrame(m) == UNCHANGED <<sockets, inbox>>
Backpressured(m) == sockets' = sockets \ {m.key} /\ inbox' = inbox

\* The sixteen slots and the thirty-two sockets may be taken by others.
Serve(m) ==
  \/ /\ m.kind = "http"
     /\ \/ task' = [task EXCEPT ![m.key] = "running"] /\ down' = down
        \/ task' = task /\ TryError(m.key)
     /\ UNCHANGED <<sockets, inbox, pump>>
  \/ /\ m.kind = "open"
     /\ \/ /\ sockets' = sockets \union {m.key} /\ down' = down
           /\ pump' = [pump EXCEPT ![m.key] = "connecting"]
        \/ UNCHANGED <<sockets, pump>> /\ TryError(m.key)
     /\ UNCHANGED <<task, inbox>>
  \/ /\ m.kind = "text"
     /\ IF m.key \in sockets /\ Len(inbox[m.key]) < SocketCap
        THEN inbox' = [inbox EXCEPT ![m.key] = Append(@, m.n)] /\ UNCHANGED <<sockets, down>>
        ELSE Backpressured(m) /\ TryError(m.key)
     /\ UNCHANGED <<task, pump>>
  \/ /\ m.kind = "close"
     /\ sockets' = sockets \ {m.key}
     /\ UNCHANGED <<task, inbox, pump, down>>

\* Channel::decode.
Pending(f) == [message |-> f.message, next |-> f.part]
Rest(f) == [message |-> f.message, next |-> f.part + 1]

Decodes(f) ==
  IF f.part = 1
  THEN f.message.size = 1 \/ Cardinality(assemblies) < MaxAssemblies
  ELSE Pending(f) \in assemblies

Receive ==
  /\ link = "up" /\ wire # <<>> /\ Decodes(Head(wire))
  /\ LET f == Head(wire)
         done == f.part = f.message.size
     IN  /\ assemblies' = (assemblies \ {Pending(f)}) \union IF done THEN {} ELSE {Rest(f)}
         /\ IF done THEN Serve(f.message) ELSE UNCHANGED <<sockets, inbox, pump, task, down>>
  /\ wire' = <<>>
  /\ UNCHANGED <<link, app, queue, bulk, streak, got>>

-----------------------------------------------------------------------------
(* The hub's tasks, whose sends wait for room.                             *)

Room == link = "up" /\ Len(down) < DownCap
Turn(s, step) == pump' = [pump EXCEPT ![s] = step]

Finish(r) ==
  /\ link = "up" /\ task[r] = "running"
  /\ task' = [task EXCEPT ![r] = "answering"]
  /\ UNCHANGED <<link, app, up, assemblies, sockets, inbox, pump, got, down>>

Reply(r) ==
  /\ Room /\ task[r] = "answering"
  /\ task' = [task EXCEPT ![r] = "none"]
  /\ Answer("http", r)
  /\ UNCHANGED <<link, app, up, assemblies, sockets, inbox, pump, got>>

Connect(s) ==
  /\ pump[s] = "connecting" /\ link = "up"
  /\ \/ Room /\ Answer("opened", s) /\ Turn(s, "open") /\ sockets' = sockets
     \/ TryError(s) /\ Turn(s, "closing") /\ sockets' = sockets \ {s}
  /\ UNCHANGED <<link, app, up, assemblies, inbox, task, got>>

\* The next frame goes to the terminal's own socket.
HandOn(s) ==
  /\ link = "up" /\ pump[s] = "open" /\ inbox[s] # <<>>
  /\ got' = [got EXCEPT ![s] = Head(inbox[s])]
  /\ inbox' = [inbox EXCEPT ![s] = Tail(@)]
  /\ UNCHANGED <<link, app, up, assemblies, sockets, pump, task, down>>

Produce(s) ==
  /\ link = "up" /\ pump[s] = "open"
  /\ Turn(s, "sending")
  /\ UNCHANGED <<link, app, up, assemblies, sockets, inbox, task, got, down>>

SendOut(s) ==
  /\ Room /\ pump[s] = "sending"
  /\ Answer("text", s) /\ Turn(s, "open")
  /\ UNCHANGED <<link, app, up, assemblies, sockets, inbox, task, got>>

\* The terminal's socket closes, or the app's side has.
Stop(s) ==
  /\ link = "up" /\ pump[s] = "open"
  /\ Turn(s, "closing")
  /\ sockets' = sockets \ {s}
  /\ UNCHANGED <<link, app, up, assemblies, inbox, task, got, down>>

HungUp(s) == s \notin sockets /\ inbox[s] = <<>>

Closed(s) ==
  /\ Room /\ pump[s] = "closing"
  /\ Answer("closed", s) /\ Turn(s, "none")
  /\ UNCHANGED <<link, app, up, assemblies, sockets, inbox, task, got>>

-----------------------------------------------------------------------------
(* The way down, and the app's one reader.                                 *)

\* A full socket keeps everything behind it waiting.
Dispatch ==
  /\ link = "up" /\ down # <<>>
  /\ LET m == Head(down)
     IN  IF m.key \in Requests
         THEN /\ pending' = pending \ {m.key}
              /\ UNCHANGED <<entry, chan>>
         ELSE /\ pending' = pending
              /\ IF m.key \in entry
                 THEN /\ Len(chan[m.key]) < SocketCap
                      /\ chan' = [chan EXCEPT ![m.key] = Append(@, m)]
                      /\ entry' = IF m.kind \in {"closed", "error"} THEN entry \ {m.key} ELSE entry
                 ELSE UNCHANGED <<entry, chan>>
  /\ down' = Tail(down)
  /\ UNCHANGED <<link, js, sent, up, assemblies, hub>>

-----------------------------------------------------------------------------
(* The end of the connection: fail at the app, and serve's at the hub.     *)

\* Mutant: the requests' senders are kept.
Unheard == pending
Drained == {}

Fail ==
  /\ link = "up" /\ link' = "down"
  /\ pending' = Drained /\ entry' = {}
  /\ queue' = <<>> /\ bulk' = NoBulk /\ streak' = 0 /\ wire' = <<>> /\ assemblies' = {}
  /\ sockets' = {} /\ inbox' = [s \in Sockets |-> <<>>]
  /\ pump' = [s \in Sockets |-> "none"] /\ task' = [r \in Requests |-> "none"]
  /\ down' = <<>>
  /\ UNCHANGED <<js, chan, sent, got>>

\* The network, the heartbeat's sixty seconds, a revoked device.
Lose == Fail

\* A request's forty seconds.
TimeOut(r) == r \in pending /\ Fail

-----------------------------------------------------------------------------
SocketStep(s) ==
  \/ Open(s) \/ Write(s) \/ Close(s) \/ CloseSocket(s) \/ Show(s) \/ End(s)
  \/ Connect(s) \/ HandOn(s) \/ Produce(s) \/ SendOut(s) \/ Stop(s) \/ Closed(s)

RequestStep(r) == Ask(r) \/ Finish(r) \/ Reply(r) \/ TimeOut(r)

ChannelNext ==
  \/ \E s \in Sockets : SocketStep(s)
  \/ \E r \in Requests : RequestStep(r)
  \/ WriterStep \/ Receive \/ Dispatch \/ Lose

ChannelSpec == ChannelInit /\ [][ChannelNext]_channelVars

\* Tasks and timers run; the user, the terminals and the network may do
\* nothing, but a record under way arrives or the connection is lost.
ChannelFairness ==
  /\ WF_channelVars(WriterStep) /\ WF_channelVars(Receive) /\ WF_channelVars(Dispatch)
  /\ \A r \in Requests : WF_channelVars(TimeOut(r))
  /\ \A s \in Sockets :
       /\ WF_channelVars(Show(s)) /\ WF_channelVars(End(s)) /\ WF_channelVars(CloseSocket(s))
       /\ WF_channelVars(Connect(s)) /\ SF_channelVars(HandOn(s)) /\ SF_channelVars(SendOut(s)) /\ SF_channelVars(Closed(s))
       /\ WF_channelVars(HungUp(s) /\ Stop(s))

ChannelLiveSpec == ChannelSpec /\ ChannelFairness

-----------------------------------------------------------------------------
(* What is typed reaches the terminal in order and without a gap: a paste  *)
(* of several records is not overtaken by the Enter after it, and after a  *)
(* frame that found no room nothing more of its socket is handed on.       *)
KeysInOrder ==
  [][\A s \in Sockets : link' = "up" /\ Len(inbox'[s]) < Len(inbox[s]) => got'[s] = After(got[s])]_channelVars

(* Whatever is sent, the hub can put together what it receives: the        *)
(* channel never ends over the writer's own order of records.              *)
Decodable == wire # <<>> => Decodes(Head(wire))

(* A long message moves on however busy the short ones are.                *)
BulkMoves == bulk # NoBulk ~> bulk = NoBulk

(* Every request is answered or refused, though an error may be lost and   *)
(* one slow socket hold up the reader.                                     *)
RequestsEnd == \A r \in Requests : r \in pending ~> r \notin pending
=============================================================================
