---------------------------- MODULE AttachStream ----------------------------
(***************************************************************************)
(* The path of a terminal's output: one tmux client per browser socket on  *)
(* the machine, the machine's send loop with one compressor per attach,    *)
(* the hub's routes and bounded queues, the browser's inflater (crates/hub *)
(* /src/ws.rs, attach_router.rs, crates/machine/src/hub_conn.rs, attach.rs,*)
(* packages/app/lib/attachCompression.ts).                                 *)
(*                                                                         *)
(* The hub keeps no bytes.  A socket that is too slow loses frames: a      *)
(* plain stream is thinned and tmux is asked to redraw it, a compressed    *)
(* one is reset, because its inflater cannot pass over a hole.  Terminal   *)
(* content is abstracted to whether a chunk repaints the whole screen, and *)
(* a frame remembers whether one was lost just before it (holed).          *)
(*                                                                         *)
(* The machine's event channel, its send loop, the network and the hub's   *)
(* receive loop keep the order of one attach: they are one queue, out, and *)
(* the compressor works as a frame leaves it.  What is on its way when the *)
(* machine's connection breaks is lost: what still arrived might as well   *)
(* have arrived before.  One machine; thumbnails are left out.             *)
(***************************************************************************)
EXTENDS Naturals, Sequences, FiniteSets, SequencesExt

CONSTANTS
  Attaches,    \* attach ids, one per browser socket ever opened
  Asking,      \* those whose browser asks for a compressed stream
  MaxConns,    \* bound: connections the machine opens; the last one lasts
  MaxPrints,   \* bound: chunks of ordinary output
  OutCap,      \* ATTACH_OUTPUT_QUEUE
  ResyncCap    \* room of the notice queue (resync_tx)

ASSUME AskingAssumption == Asking \subseteq Attaches
ASSUME CapsAssumption ==
  /\ {MaxConns, OutCap, ResyncCap} \subseteq Nat \ {0}
  /\ MaxPrints \in Nat

Conns == 1..MaxConns

VARIABLES
  sock,      \* the browser socket of an attach, through handle_terminal_ws
  compress,  \* it was acknowledged as compressed
  route,     \* attaches with a sender in HubRouter
  chan,      \* frames waiting for the socket
  hole,      \* a frame was dropped since the last one that entered chan
  screen,    \* what the browser shows
  mconn,     \* the machine's open connection, 0 if none
  opened,    \* connections opened so far
  conn,      \* machines[id].conn_id, 0 if the machine is not registered
  serving,   \* the hub's handler of a connection
  cmd,       \* hub to machine, on mconn
  out,       \* machine to hub, on mconn
  notices,   \* drop notices waiting for the resync task
  pending,   \* notices the resync task has taken and waits to settle
  unheard,   \* attaches whose last drop notice found the queue full
  via,       \* the connection OpenAttach went to, 0 before
  tty,       \* the attach on the machine: its handle and its tmux client
  paint,     \* attaches whose tmux client owes a full repaint
  comp,      \* attaches with a compressor in the send loop
  printed    \* chunks of ordinary output so far

browser == <<sock, compress, route, chan, hole, screen>>
links == <<mconn, opened, conn, serving>>
resync == <<notices, pending, unheard>>
machine == <<via, tty, paint, comp, printed>>
attachVars == <<browser, links, cmd, out, resync, machine>>

-----------------------------------------------------------------------------
(* Helpers.                                                                *)

\* A frame of one attach's output, as it goes over the wire.
Frames == [full : BOOLEAN, comp : BOOLEAN, holed : BOOLEAN]

\* An attach on the machine: never opened; its handle kept and its tmux
\* client alive; the handle dropped; the client gone; both gone.
Ttys == {"none", "running", "closing", "died", "gone"}

Say(op, a) == [op |-> op, a |-> a, full |-> FALSE]
Chunk(a, full) == [op |-> "output", a |-> a, full |-> full]

\* send_to_machine: to the connection that is registered now, if any; the
\* machine may have left it.
Tell(msgs) == cmd' = IF conn # 0 /\ conn = mconn THEN cmd \o msgs ELSE cmd

\* Does the socket still take what is put into its channel?
Listens(a) == a \in route /\ sock[a] \in {"asking", "open"}

\* Dropping an AttachHandle: the writer kills the tmux client.
Dropped(t) == CASE t = "running" -> "closing" [] t = "died" -> "gone" [] OTHER -> t

AttachTypeOK ==
  /\ sock \in [Attaches -> {"new", "asking", "open", "closing", "closed"}]
  /\ compress \in [Attaches -> BOOLEAN]
  /\ route \subseteq Attaches
  /\ \A a \in Attaches : chan[a] \in Seq(Frames) /\ Len(chan[a]) <= OutCap
  /\ hole \in [Attaches -> BOOLEAN]
  /\ screen \in [Attaches -> {"blank", "whole", "torn", "garbage"}]
  /\ {mconn, opened, conn} \subseteq Conns \cup {0}
  /\ serving \in [Conns -> {"no", "yes", "dropping", "over"}]
  /\ conn # 0 => serving[conn] = "yes"
  /\ notices \in Seq(Attaches) /\ Len(notices) <= ResyncCap
  /\ pending \subseteq Attaches /\ unheard \subseteq Attaches
  /\ via \in [Attaches -> Conns \cup {0}]
  /\ tty \in [Attaches -> Ttys]
  /\ paint \subseteq Attaches /\ comp \subseteq Attaches
  /\ printed \in 0..MaxPrints

AttachInit ==
  /\ sock = [a \in Attaches |-> "new"]
  /\ compress = [a \in Attaches |-> FALSE]
  /\ route = {} /\ paint = {} /\ comp = {}
  /\ cmd = <<>> /\ out = <<>>
  /\ notices = <<>> /\ pending = {} /\ unheard = {}
  /\ chan = [a \in Attaches |-> <<>>]
  /\ hole = [a \in Attaches |-> FALSE]
  /\ screen = [a \in Attaches |-> "blank"]
  /\ mconn = 0 /\ opened = 0 /\ conn = 0 /\ printed = 0
  /\ serving = [c \in Conns |-> "no"]
  /\ via = [a \in Attaches |-> 0]
  /\ tty = [a \in Attaches |-> "none"]

-----------------------------------------------------------------------------
(* The browser's socket on the hub (handle_terminal_ws).                   *)

\* HubRouter::register_with_compression and unregister.
Registered(a) == route \cup {a}
Unregistered(a) == route \ {a}

\* A socket opens: its route is registered and, when browser and machine
\* agree on it, the browser is told that its stream is compressed.
OpenSocket(a) ==
  /\ sock[a] = "new"
  /\ compress' = [compress EXCEPT ![a] = a \in Asking /\ conn # 0]
  /\ sock' = [sock EXCEPT ![a] = "asking"]
  /\ route' = Registered(a)
  /\ UNCHANGED <<chan, hole, screen, links, cmd, out, resync, machine>>

\* The machine is asked to open the attach.
RequestAttach(a) ==
  /\ sock[a] = "asking"
  /\ conn # 0
  /\ Tell(<<Say("open", a)>>)
  /\ via' = [via EXCEPT ![a] = conn]
  /\ sock' = [sock EXCEPT ![a] = "open"]
  /\ UNCHANGED <<compress, route, chan, hole, screen, links, out, resync,
                 tty, paint, comp, printed>>

\* There is no machine to ask, or the acknowledgement cannot be sent.
RefuseAttach(a) ==
  /\ sock[a] = "asking"
  /\ conn = 0 \/ compress[a]
  /\ sock' = [sock EXCEPT ![a] = "closed"]
  /\ route' = Unregistered(a)
  /\ UNCHANGED <<compress, chan, hole, screen, links, cmd, out, resync, machine>>

\* What a frame does to the screen.  An inflater that meets a plain frame or
\* a hole, and a plain reader that meets a compressed frame, show garbage.
Shown(a, f) ==
  CASE screen[a] = "garbage" \/ f.comp # compress[a] \/ (f.comp /\ f.holed) -> "garbage"
    [] f.full -> "whole"
    [] f.holed -> "torn"
    [] OTHER -> screen[a]

\* The send task writes the next frame and the browser shows it.
ReadFrame(a) ==
  /\ sock[a] = "open" /\ chan[a] # <<>>
  /\ screen' = [screen EXCEPT ![a] = Shown(a, Head(chan[a]))]
  /\ chan' = [chan EXCEPT ![a] = Tail(@)]
  /\ UNCHANGED <<sock, compress, route, hole, links, cmd, out, resync, machine>>

\* The socket ends: the browser went away, or the route is gone and the send
\* task has sent what was left.  Both tasks are aborted, and the browser no
\* longer shows this stream.
EndSocket(a) ==
  /\ sock' = [sock EXCEPT ![a] = "closing"]
  /\ chan' = [chan EXCEPT ![a] = <<>>]
  /\ hole' = [hole EXCEPT ![a] = FALSE]
  /\ screen' = [screen EXCEPT ![a] = "blank"]
  /\ unheard' = unheard \ {a}
  /\ UNCHANGED <<compress, route, links, cmd, out, notices, pending, machine>>

BrowserLeaves(a) == sock[a] = "open" /\ EndSocket(a)
SenderDropped(a) == sock[a] = "open" /\ a \notin route /\ chan[a] = <<>> /\ EndSocket(a)

\* Mutant: the machine is not told.
CleanUpQuietly(a) ==
  /\ sock[a] = "closing"
  /\ route' = route \ {a}
  /\ sock' = [sock EXCEPT ![a] = "closed"]
  /\ UNCHANGED <<compress, chan, hole, screen, links, cmd, out, resync, machine>>

\* The machine is told to close the attach and the route is removed.
CleanUp(a) ==
  /\ sock[a] = "closing"
  /\ Tell(<<Say("close", a)>>)
  /\ route' = Unregistered(a)
  /\ sock' = [sock EXCEPT ![a] = "closed"]
  /\ UNCHANGED <<compress, chan, hole, screen, links, out, resync, machine>>

-----------------------------------------------------------------------------
(* Connections of the machine.                                             *)

\* The machine connects and registers; an older connection of its own may
\* still be served.
Connect ==
  /\ mconn = 0 /\ opened < MaxConns
  /\ opened' = opened + 1
  /\ mconn' = opened' /\ conn' = opened'
  /\ serving' = [serving EXCEPT ![opened'] = "yes"]
  /\ UNCHANGED <<browser, cmd, out, resync, machine>>

\* AttachManager::close_all.
AllClosed == [a \in Attaches |-> IF tty[a] = "none" THEN "none" ELSE "gone"]

\* The machine loses its connection: every attach is closed, what its tmux
\* clients still say goes nowhere, and so does what the hub wants redrawn.
Disconnect ==
  /\ mconn \in 1..(MaxConns - 1)
  /\ mconn' = 0
  /\ tty' = AllClosed
  /\ cmd' = <<>> /\ out' = <<>> /\ comp' = {} /\ paint' = {}
  /\ notices' = <<>> /\ pending' = {}
  /\ UNCHANGED <<browser, opened, conn, serving, unheard, via, printed>>

\* The hub's handler of a connection ends: because the machine has left it,
\* or because a newer one has replaced it and closed its command channel.
EndServing(c) ==
  /\ serving[c] = "yes" /\ c # mconn
  /\ serving' = [serving EXCEPT ![c] = "dropping"]
  /\ conn' = IF conn = c THEN 0 ELSE conn
  /\ UNCHANGED <<browser, mconn, opened, cmd, out, resync, machine>>

\* Mutant: a replaced connection leaves the routes alone.
DropRoutesIfCurrent(c) ==
  /\ serving[c] = "dropping"
  /\ serving' = [serving EXCEPT ![c] = "over"]
  /\ route' = IF conn = 0 THEN {} ELSE route
  /\ UNCHANGED <<sock, compress, chan, hole, screen, mconn, opened, conn, cmd, out,
                 resync, machine>>

\* HubRouter::drop_machine, with every route the machine has at that moment.
DropRoutes(c) ==
  /\ serving[c] = "dropping"
  /\ serving' = [serving EXCEPT ![c] = "over"]
  /\ route' = {}
  /\ UNCHANGED <<sock, compress, chan, hole, screen, mconn, opened, conn, cmd, out,
                 resync, machine>>

-----------------------------------------------------------------------------
(* The machine (handle_hub_message, AttachManager, run_attach_task).       *)

Order(op) ==
  /\ cmd # <<>> /\ Head(cmd).op = op
  /\ cmd' = Tail(cmd)
  /\ UNCHANGED <<browser, links, resync, via, printed>>

\* spawn_tmux_attach: a client of the attach's own, which tmux repaints.
Spawned(a) == paint \cup {a}

\* AttachManager::open keeps a handle and starts the attach's threads.
Opened(a) ==
  /\ tty' = [tty EXCEPT ![a] = "running"]
  /\ paint' = Spawned(a)

\* The compressor is switched on ahead of the first output.
SwitchedOn(a) == IF compress[a] THEN <<Say("on", a)>> ELSE <<>>

OpenAttach ==
  /\ Order("open")
  /\ LET a == Head(cmd).a IN Opened(a) /\ out' = out \o SwitchedOn(a)
  /\ UNCHANGED comp

\* What the end of an attach tells the hub and the send loop.
Farewell(a) == <<Say("died", a), Say("off", a)>>

\* spawn_tmux_attach fails (no pty, no tmux): the attach has died at once,
\* and its handle stays.
OpenFails ==
  /\ Order("open")
  /\ LET a == Head(cmd).a IN
       /\ tty' = [tty EXCEPT ![a] = "died"]
       /\ out' = out \o SwitchedOn(a) \o Farewell(a)
  /\ UNCHANGED <<paint, comp>>

\* The handle is dropped and the compressor is switched off behind whatever
\* is already in the channel.
CloseAttach ==
  /\ Order("close")
  /\ LET a == Head(cmd).a IN
       /\ out' = Append(out, Say("off", a))
       /\ tty' = [tty EXCEPT ![a] = Dropped(@)]
       /\ paint' = paint \ {a}
  /\ UNCHANGED comp

\* AttachManager::refresh: a client that runs owes a repaint.
Refreshed(a) == IF tty[a] = "running" THEN paint \cup {a} ELSE paint

RefreshAttach ==
  /\ Order("refresh")
  /\ paint' = Refreshed(Head(cmd).a)
  /\ UNCHANGED <<out, tty, comp>>

\* A tmux client writes; one whose handle was dropped may still do so.
WriteText(a) ==
  /\ tty[a] \in {"running", "closing"}
  /\ printed < MaxPrints
  /\ printed' = printed + 1
  /\ out' = Append(out, Chunk(a, FALSE))
  /\ UNCHANGED <<browser, links, cmd, resync, via, tty, paint, comp>>

Repaint(a) ==
  /\ tty[a] = "running" /\ a \in paint
  /\ paint' = paint \ {a}
  /\ out' = Append(out, Chunk(a, TRUE))
  /\ UNCHANGED <<browser, links, cmd, resync, via, tty, comp, printed>>

\* The reader sees the end of the pty: the hub is told and the compressor is
\* switched off.
PtyEnds(a, from, to) ==
  /\ tty[a] = from
  /\ tty' = [tty EXCEPT ![a] = to]
  /\ paint' = paint \ {a}
  /\ out' = out \o Farewell(a)
  /\ UNCHANGED <<browser, links, cmd, resync, via, comp, printed>>

Exits(a) == PtyEnds(a, "running", "died")
Killed(a) == PtyEnds(a, "closing", "gone")

-----------------------------------------------------------------------------
(* The machine's send loop and the hub's receive loop.                     *)

\* The next n items leave the machine.
Leaves(n) ==
  /\ out' = SubSeq(out, n + 1, Len(out))
  /\ UNCHANGED <<sock, compress, screen, links, cmd, via, tty, paint, printed>>

\* AttachCompression: consumed by the send loop.
SwitchCompressor ==
  /\ out # <<>> /\ Head(out).op \in {"on", "off"}
  /\ comp' = IF Head(out).op = "on" THEN comp \cup {Head(out).a}
                                    ELSE comp \ {Head(out).a}
  /\ Leaves(1)
  /\ UNCHANGED <<route, chan, hole, resync>>

\* AttachDied: the control task removes the route.  It runs beside the
\* receive loop, but nothing of this attach follows.
HandleDied ==
  /\ out # <<>> /\ Head(out).op = "died"
  /\ route' = Unregistered(Head(out).a)
  /\ Leaves(1)
  /\ UNCHANGED <<chan, hole, resync, comp>>

\* The outcomes of try_send.
Discard(a) == ~Listens(a) /\ UNCHANGED <<route, chan, hole, resync>>

Queue(a, f) ==
  /\ Listens(a) /\ Len(chan[a]) < OutCap
  /\ chan' = [chan EXCEPT ![a] = Append(@, f)]
  /\ hole' = [hole EXCEPT ![a] = FALSE]
  /\ UNCHANGED <<route, resync>>

\* Mutant: a compressed stream is thinned like a plain one.
ResetByThinning(a) ==
  /\ Listens(a) /\ Len(chan[a]) = OutCap /\ compress[a]
  /\ hole' = [hole EXCEPT ![a] = TRUE]
  /\ notices' = IF Len(notices) < ResyncCap THEN Append(notices, a) ELSE notices
  /\ UNCHANGED <<route, chan, pending, unheard>>

\* A compressed stream cannot lose a frame: its socket has to start again.
Reset(a) ==
  /\ Listens(a) /\ Len(chan[a]) = OutCap /\ compress[a]
  /\ route' = Unregistered(a)
  /\ UNCHANGED <<chan, hole, resync>>

\* Mutant: nobody asks for a redraw.
ThinQuietly(a) ==
  /\ Listens(a) /\ Len(chan[a]) = OutCap /\ ~compress[a]
  /\ hole' = [hole EXCEPT ![a] = TRUE]
  /\ UNCHANGED <<route, chan, resync>>

\* A plain stream is thinned, and the resync task is told unless its queue
\* is full.
Thin(a) ==
  /\ Listens(a) /\ Len(chan[a]) = OutCap /\ ~compress[a]
  /\ hole' = [hole EXCEPT ![a] = TRUE]
  /\ \/ /\ Len(notices) < ResyncCap
        /\ notices' = Append(notices, a)
        /\ unheard' = unheard \ {a}
     \/ /\ Len(notices) = ResyncCap
        /\ unheard' = unheard \cup {a}
        /\ UNCHANGED notices
  /\ UNCHANGED <<route, chan, pending>>

\* The send loop merges adjacent chunks of one attach into a frame.
Mergeable(a, n) == \A i \in 1..n : out[i].op = "output" /\ out[i].a = a
Merged(a, n) == [full |-> \E i \in 1..n : out[i].full,
                 comp |-> a \in comp, holed |-> hole[a]]

\* The hub puts it into the socket's channel.
ReceiveFrame ==
  \E n \in 1..Len(out) :
    LET a == Head(out).a
    IN /\ Mergeable(a, n)
       /\ Leaves(n)
       /\ Discard(a) \/ Queue(a, Merged(a, n)) \/ Reset(a) \/ Thin(a)
       /\ UNCHANGED comp

\* The resync task gathers notices until a burst is quiet or five seconds
\* have passed, and then asks for a redraw of every attach it has gathered.
TakeNotice ==
  /\ notices # <<>>
  /\ pending' = pending \cup {Head(notices)}
  /\ notices' = Tail(notices)
  /\ UNCHANGED <<browser, links, cmd, out, unheard, machine>>

SendRefresh ==
  /\ pending # {}
  /\ Tell(SetToSeq({Say("refresh", a) : a \in pending}))
  /\ pending' = {}
  /\ UNCHANGED <<browser, links, out, notices, unheard, machine>>

-----------------------------------------------------------------------------
AttachNext ==
  \/ \E a \in Attaches :
       \/ OpenSocket(a) \/ RequestAttach(a) \/ RefuseAttach(a)
       \/ ReadFrame(a) \/ BrowserLeaves(a) \/ SenderDropped(a) \/ CleanUp(a)
       \/ WriteText(a) \/ Repaint(a) \/ Exits(a) \/ Killed(a)
  \/ Connect \/ Disconnect
  \/ \E c \in Conns : EndServing(c) \/ DropRoutes(c)
  \/ OpenAttach \/ OpenFails \/ CloseAttach \/ RefreshAttach
  \/ SwitchCompressor \/ HandleDied \/ ReceiveFrame
  \/ TakeNotice \/ SendRefresh

\* What the hub does for a socket by itself, and tmux for a client: one of
\* the steps of each at a time.
Serve(a) == RequestAttach(a) \/ RefuseAttach(a) \/ ReadFrame(a) \/ SenderDropped(a) \/ CleanUp(a)
Tmux(a) == Repaint(a) \/ Killed(a)

\* Tasks run, an open browser reads, a killed client ends, tmux repaints, the
\* machine connects again.  Nobody has to open, close, print or disconnect,
\* and the hub need not notice a lost connection before it is replaced.
AttachFairness ==
  /\ WF_attachVars(Connect)
  /\ WF_attachVars(OpenAttach \/ OpenFails \/ CloseAttach \/ RefreshAttach)
  /\ WF_attachVars(SwitchCompressor \/ HandleDied \/ ReceiveFrame)
  /\ WF_attachVars(TakeNotice) /\ WF_attachVars(SendRefresh)
  /\ \A c \in Conns : WF_attachVars((EndServing(c) /\ c # conn) \/ DropRoutes(c))
  /\ \A a \in Attaches : WF_attachVars(Serve(a)) /\ WF_attachVars(Tmux(a))

AttachSpec == AttachInit /\ [][AttachNext]_attachVars /\ AttachFairness

-----------------------------------------------------------------------------
(* Properties.                                                             *)

\* No browser ever shows garbage: an acknowledged stream is compressed from
\* its first frame and reaches the inflater without a hole, a stream that was
\* not acknowledged is never compressed, whatever is reset, closed, merged
\* or reconnected meanwhile (ws.rs try_send, hub_conn.rs send loop).
StreamIntact == \A a \in Attaches : screen[a] # "garbage"

\* A socket nothing can reach any more, because its route, its tmux client or
\* its connection is gone, is closed in the end, so that the browser starts
\* again (useTerminalLiveSocket reconnects on close and on nothing else).
Stranded(a) ==
  /\ sock[a] = "open"
  /\ a \notin route \/ tty[a] \in {"died", "gone"} \/ via[a] # mconn
StrandedIsClosed == \A a \in Attaches : Stranded(a) ~> sock[a] = "closed"

\* A closed socket leaves nothing behind: no route on the hub, and on the
\* machine neither a handle nor an attach still to be opened, once the order
\* to close it has been read (handle_terminal_ws cleanup; a connection that
\* was replaced in between takes its attaches with it).
Ordered(op, a) == \E i \in DOMAIN cmd : cmd[i] = Say(op, a)
NothingLeaks ==
  \A a \in Attaches : sock[a] = "closed" =>
    /\ a \notin route
    /\ \/ Ordered("close", a)
       \/ tty[a] \in {"none", "closing", "gone"} /\ ~Ordered("open", a)

\* A plain stream that lost a frame is repainted in the end, unless its
\* socket ends first or its notice found the queue full (resync_task).
Damaged(a) == sock[a] = "open" /\ (hole[a] \/ screen[a] = "torn")
ThinnedIsRedrawn ==
  \A a \in Attaches : Damaged(a) /\ ~compress[a]
                        ~> (~Damaged(a) \/ a \in unheard)
=============================================================================
