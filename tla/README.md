# webmux: models, checks and proofs

webmux shows the terminals of one's machines in a browser. A *hub* (one
process, SQLite) stands between browsers and *machines* (one process per host,
behind outgoing WebSockets); a machine runs its terminals in tmux and its
coding agents as child processes. This directory holds TLA+ models of the
protocols between these parts, the TLC configurations that check them, and
proofs that TLAPS checks. `PROJECT.json` lists the parts, the runs, the hazards,
the theorems, and for every definition the lines of code it stands for.

    tlc -workers 2 -config ControlLease.cfg ControlLease
    tlapm ControlLeaseProofs.tla

Paths below are relative to the repository.

## 1. Inventory

### Parts of the system

| part | where | state it keeps | what it does |
|---|---|---|---|
| machine connections | hub `machine_manager.rs`, `ws.rs` (`handle_machine_ws`) | one `MachineConnection` per machine with terminals, commands waiting for an answer, a connection id; a stash of terminals per disconnected machine | accepts, replaces and ends a machine's connection; sends commands; handles the machine's messages |
| control leases | hub `machine_manager.rs` (`ModeState`), `ws.rs`, `routes/mode.rs` | machine to device, device to number of connections, device to stashed leases | who may type into a machine; a 10 s grace period when a device's last events socket ends |
| event stream | hub `send_event`, `subscribe_events`, `snapshot_for_user`; app `bootstrapState.ts`, `TerminalCanvas.web.tsx` | a counter, its persisted value, a history of 1024 events, a broadcast channel of 256 | keeps every browser's picture of the hub up to date, over reconnections |
| terminal registry | hub `machine_manager.rs`, `db/terminal_sessions.rs`; machine `pty.rs`, `session_watcher.rs`, `hub_conn.rs` | rows in the database, the connection's map, the stash; on the machine, tmux and its own map | creates and destroys terminals; finds out after every reconnection or restart which still exist |
| workspace tabs | hub `routes/terminals.rs`, `db/workspace_groups.rs`, `db/workspace_layouts.rs` | tabs, a layout per tab, each terminal's tab | opens, renames, deletes, prunes tabs; limits the panes of a tab; saves layouts optimistically |
| attach streams | hub `attach_router.rs`, `ws.rs`; machine `hub_conn.rs`, `attach.rs`; app `attachCompression.ts` | routes, one bounded channel per socket, the machine's handles and compressors | carries one tmux client's output to one browser socket, compressed or thinned |
| local editor | app `LocalTerminalComposer.tsx`, `composerTransport.ts`; hub `composer.rs`; machine `attach.rs` | a draft and the id it was sent under; one receipt row per id; a permit per socket; a reservation per attach | types a draft into a terminal at most once |
| agent actor | machine `acp.rs` | ACP session id, command queue, requests waiting for an answer, parked question | drives one agent process |
| agent sessions | hub `routes/agent_sessions.rs`, `db/agent_sessions.rs`, `machine_manager.rs`; machine `AcpManager` | a row and an event log per session; the manager's map of actors | creates, resumes, deletes sessions; stores their transcripts |
| paired devices | hub `secure/store.rs`, `secure/mod.rs`; `crates/secure` `pairing.rs`, `routes.rs`, `client.rs`; desktop `secure.rs` | codes and devices on the hub; candidate, credential, address book and session in an app | makes an app's key known to a hub by a one-time code; finds that hub again at any of its addresses |
| secure channels | `crates/secure` `outbound.rs`, `lib.rs`, `wire.rs`; hub `secure/mod.rs`; desktop `secure.rs` | a writer's queue and its long message, assemblies, virtual sockets, waiting requests | carries requests and sockets of a paired app over one encrypted connection |
| registration, sign-in | hub `routes/registration.rs`, `routes/auth.rs`, `first_run.rs`, `db/users.rs`, `db/tokens.rs`, `db/machines.rs`; machine `main.rs` | users and roles, login codes, registration tokens, machine rows with their secrets; `machine.json` on a host | says who may use a hub and which machines belong to it |
| managed connection | hub `cloud.rs`, `cloud_download.rs`, `tunnel_check.rs`; protocol `service.rs` | `registration.json`, the verified address, the service unit, file locks, what the service knows of a hub | gives a hub a public address through a connector that the host's service manager runs |
| machine services | machine `stats.rs`, `keep_awake.rs`, `terminal_attention.rs`, `osc_title.rs`, `codex_title.rs` | parser state | read terminal output, probe the host |
| hub front matter | hub `embedded_ui.rs`, `routes/bookmarks.rs`, `routes/settings.rs` | settings rows | static files, single statements |
| CLI, desktop, mobile | `crates/cli`, `packages/desktop`, `packages/app` shells | configuration | clients of the same interfaces |
| browser app | `packages/app` | layout tree, main layout, sockets | views; reconnects |

### How they interact

* **Machine to hub** is one WebSocket the machine opens and reopens every 3 s.
  Commands go down it and messages come up, each in order. What is on its way
  when it breaks is lost. The two ends notice a break at different times, and
  the hub sets no read timeout, so the new connection of a machine often
  *replaces* one the hub still believes in. The old task then ends beside the
  new one.
* **Browser to hub** is HTTP for requests and snapshots, an events WebSocket,
  and one terminal WebSocket per attached pane. The events sockets of a device
  are what counts as "connected" for its leases.
* **Inside the hub** everything is a tokio task: one per socket, one per HTTP
  request, one per timer. They share maps behind async locks and a database.
  Most handlers take several locks one after another, or await the machine or
  the database between a check and the change the check was for.
* **A paired app** uses the same HTTP and WebSocket interfaces, through one
  encrypted connection that the hub's `secure/mod.rs` unpacks. The hub's
  commands (`cloud`, `pair`, `link`) are other processes on the same
  database and files.
* **Inside the machine** a send loop, a receive loop, an actor per agent, a
  writer thread and a reader thread per attach, and a watcher that polls tmux
  every 5 s.

### What is hard, and what makes each part correct

| part | hard because | correct if |
|---|---|---|
| leases | timers of earlier connections, sockets that overlap, a stash that waits while others act | counts are exact, a timer never takes a connected device's lease, an explicit release is final, a gone device loses its leases |
| event stream | a change, its number, the history and the broadcast are four steps that no lock joins; snapshots are read piece by piece; readers lag; the hub crashes with a counter not yet saved | a caught-up browser shows the hub's state, or what the hub told last; a browser catches up; a snapshot of an earlier hub is never extended |
| registry | deaths, reports and creations, which take several tmux commands, cross on connections that overlap; both processes restart | no running terminal is written off, tabs survive, no row is forgotten, the list settles on the truth |
| attach streams | bounded queues drop frames; a compressed stream tolerates no loss; routes of replaced connections | no garbage on the screen, nothing outlives its socket, no browser left on a dead socket, thinned output repainted |
| local editor | three timeouts, lost answers, restarts between reservation and dispatch | typed at most once; "failed" means never typed; receipts are final; the permit comes back |
| agent actor | commands before the handshake ends, watchdogs against late answers, cancel and kill against everything | no command vanishes, order is kept, nothing stays queued for ever, a question shown can be answered |
| agent sessions | requests in several steps, runs of one session that overlap, connections that overlap | the log ascends, one agent per session, deleted stays deleted |
| tabs | checks before a wait of up to 10 s; statements that are not one transaction; requests dropped half-way | one ordered strip, the hub's own tabs go with their last pane and a user's never do, memory and database agree, no layout overwritten unseen |
| paired devices | three records written one after the other, each of which may fail; answers that are lost or late; addresses that change hands | one device per code, no device the hub knows and no app can use, what an app shows it can use, what it sends goes home |
| secure channels | short messages overtake long ones; one reader for all streams; errors that find no room | each socket's frames in order and without a gap, long messages move, every request ends |
| registration | every statement is a step of its own; a connection accepted during a removal; a lost answer | a stored secret works until the machine is removed, a removed machine stays out, agents get back online, one session per code, always an admin |
| managed connection | several hubs, one unit, one port; commands that wait for minutes, are killed or lose an answer | a disable is final, no hub takes another's unit, one connector per hub, an installed one runs |

The full list of hazards, each at its line and with the properties that watch
it, is in `PROJECT.json`.

## 2. The modules

| module | models | lines |
|---|---|---|
| `ControlLease` | control leases, and the three steps in which a terminal message is let through | 257 |
| `EventStream` | numbering, history, broadcast, snapshot, replay, gap detection, crash | 387 |
| `AgentActor` | one ACP actor against any agent | 456 |
| `AgentSession`, `MCAgentSession` | one session's row, log and read cursor, requests, runs, connections | 454 |
| `TerminalRegistry` | terminals in tmux, on the machine, in the hub's memory and database | 439 |
| `Composer` | one draft from the editor to the PTY | 348 |
| `SendOnce` | abstract: what the local editor promises | 27 |
| `AttachStream` | attaches of one machine, from tmux to the browser's screen | 484 |
| `WorkspaceTabs`, `MCWorkspaceTabs` | tabs, the terminals in them, layouts | 508 |
| `LayoutRegister` | abstract: what saving a layout promises | 43 |
| `PairedDevice`, `MCPairedDevice` | pairing, and what both sides keep of it | 355 |
| `SecureChannel` | the encrypted connection's writer, sockets and requests | 377 |
| `Registration` | users, login codes, tokens, machine rows, hosts and their connections | 433 |
| `ManagedConnection` | the `cloud` commands of several hubs against one service unit | 397 |
| `ControlLeaseProofs` | theorems about `ControlLease` and `AttachStream` | 1,966 |
| `EventStreamProofs` | theorems about `EventStream` and `TerminalRegistry` | 3,319 |
| `AgentSessionProofs` | theorems about `AgentSession` and `AgentActor` | 2,434 |
| `WorkspaceTabsProofs` | theorems about `WorkspaceTabs` | 3,397 |
| `ManagedConnectionProofs` | theorems about `ManagedConnection` and `SecureChannel` | 2,757 |
| `ComposerProofs`, `PairedDeviceProofs`, `RegistrationProofs` | theorems about the modules of these names | 2,236 |

An action is one handler, or one section of a handler between two points where
another task can act. Payloads, titles, sizes and texts are abstracted to what
the properties tell apart. Operators marked "mutant" are the ways a bug would
change the definition below them; `PROJECT.json` pairs each with the property
that notices.

Four modules share a proof module with another one. Their specifications have
names of their own, so that both can be extended at once: `ActorInit`,
`ActorNext`, `ActorSpec`, `actorVars` in `AgentActor`, and likewise `Registry...`
in `TerminalRegistry`, `Attach...` in `AttachStream`, `Channel...` in
`SecureChannel`.

### ControlLease

`RegisterDevice`, `SocketEnds`, `GraceTimerFires`, `RequestControl`,
`ReleaseControl` and `ClearMachineMode` are the functions of those names (or
`handle_events_ws`, which starts the timer). `lease`, `count` and `stash` are
`ModeState`; `sockets` and `timers` count a device's events sockets and its
sleeping timers. A terminal message is let through in three steps, as in
`handle_terminal_ws`: `CheckControl` reads whether the device holds the machine,
`AdmitMessage` takes it if the message asks for it, `SendMessage` sends. The
lease may move between the last two; the code accepts that, and so no property
forbids it. `lastClaim` and `renounced` are ghosts: who asked last, and what a
device has given up since it last asked.

### EventStream

State is a version number per key. `ChangeState` changes a key and ends with its
lock released; `NumberEvent`, `RecordEvent`, `BroadcastEvent` are `send_event`.
No lock is held from the change to the broadcast (`request_control`,
`register_device`, `set_terminal_workspace_group`), so any number of changes, of
one key too, may wait to be sent (`sending`) and are numbered in any order; and
nothing holds a number back until a flush. The browser's `SnapshotSeq`,
`SnapshotKey`, `ApplySnapshot` are `snapshot_for_user`, number first and then
one lock after another; `Subscribe` and `TakeReplay` are `subscribe_events`;
`SendReplay`, `SendLive` are the events socket, `Receive` the reducer in
`bootstrapState.ts`. `CrashAndRestart` starts a new hub from the persisted
counter plus the offset, including the flush task's first tick, which comes at
once. The socket drops at any time. Three ghosts: `told`, each key's value in
its last-numbered event; `lost`, the last number that the history let go of
where nobody can notice; `burst`, that a crash found as many numbers unflushed
as the offset.

### AgentActor

One actor of `acp.rs` with its handshake (`initialize`, `session/new` or
`session/load`, `session/set_model`), the watchdogs of the handshake, the
command queue, prompts, permission questions, cancel, kill and exit. The agent
is anything: it answers, refuses, asks, is silent or dies. The answer to
`session/new` may name no session (`SessionUnnamed`): the queue is then flushed
into an actor without an id, commands that come later are queued, and a prompt
ends the actor's task (`exited` beside `ended`, the agent's own end). The hub's
commands arrive in any order.

### AgentSession

One session: its row and log on the hub, HTTP requests that check, send and
finish in three steps, two connections that each end knows by itself, per
connection a manager with its runs, hub restarts. `HandleUpdate`,
`HandleEvent`, `HandleExited` are the hub's message handlers, `HubDrops` is
`unregister_machine`. `seen` is the read cursor: the hub keeps the highest
number any client has reported and compares it with nothing. The log is trimmed
to `History`. The actor is reduced to opening, failing,
emitting events and ending.

### TerminalRegistry

`tmux` is the truth. `known` is the machine's map and `saved` its sessions file,
`live`, `stash` and `taken` the hub's memory, `rows` the database. A creation is
three steps, between which the machine may die: `CreateTerminal` is
`new-session`, `InsertTerminal` the options and the map, `AnswerCreated` the
file and the answer, on the connection that asked (`making`). The other handlers
are one step, except the reconciliation of a machine's report (`TakeStash`, then
`Reconcile`: two locks) and the assignment of a tab (`AssignInMemory`, then
`AssignInDb`). A machine that restarts recovers what its file names and tmux
still runs. Connections break from either side; both processes restart; shells
exit whether or not anybody watches. Three ghosts: `cut`, terminals in a stash
whose taker was aborted between its two locks; `orphans`, running terminals
whose machine died before it saved them; `missed`, terminals that the open
connection did not hear of, because their creation began on an earlier one, or
that the watcher reported dead before they were reported created.

### Composer, SendOnce

A draft in the editor, under an id that changes only after "failed"; the
terminal socket both ways (`toHub`, `toBrowser`), leftovers of old sockets
(`late`), the receipt (`row`), the hub's task, its permit (`slot`), the
machine's reservation and writer (`cmd`), the answer. The hub waits 30 s, the
machine 20 s, the browser 35 s: each is a step that may happen whenever its
wait is on. Faults: a lost socket, a lost machine, a hub restart, a database
update that fails. `SendOnce` says only: type one id, once; clear the draft
after that; or discard it.

### AttachStream

One attach per browser socket. `Asking` are those that ask for compression.
`OpenSocket`, `RequestAttach`, `RefuseAttach`, `ReadFrame`, `BrowserLeaves`,
`SenderDropped`, `CleanUp` are `handle_terminal_ws`; `Connect`, `EndServing`,
`DropRoutes`, `HandleDied`, `ReceiveFrame`, `TakeNotice`, `SendRefresh` are
`handle_machine_ws` and its resync task; the rest is the machine. `Reset`,
`Thin`, `Queue` and `Discard` are the outcomes of handing a frame to a socket
whose channel may be full. Content is three flags: is the frame compressed, is
it the first of its stream, is there a hole before it. The machine's event
channel, its send loop, the network and the hub's receive loop are one queue,
and the compressor acts as a frame leaves it.

### WorkspaceTabs, LayoutRegister

One machine's tabs (`tabs`: who made it, its place in the strip), a terminal's
tab twice (`live` in memory, `rows` in the database), layouts by tab. A request
is a record of what it is at (`doing`), and every statement between two points
where it can be overtaken is an action: `create_terminal` checks (`AskCreate`),
waits for the machine (`TerminalCreated`), opens a tab of its own (`ReadOrder`,
`InsertTab`), and places the terminal (`SetInMemory`, `AssignInDb`). Whatever
empties a tab goes on to `CountPanes`, `DropIfAuto`, `DropLayout`, which are
`prune_auto_tab_if_empty`; a deletion is `ClearRows`, `DropLayout`, `DeleteTab`,
`ForgetTab`. `GiveUp` is a request whose client has left. `RestartHub` includes
the start-up migration of terminals without a tab. `odd` and `mixed` are ghosts
that name what two overlapping requests, or a dropped one, leave behind.

A layout is known by the number of the save that made it, so that
`LayoutRegister` can say: each saved layout was made from the one it replaces.
The code only compares timestamps (`Conflicts`, `Stamps`). A save over a row
takes a number past the row's, but one that makes a row anew takes the bare
clock, which may have been set back or not have moved: `reused` marks the tabs
whose layout came back under a number not past the dropped one's.

### PairedDevice

`code` and `device` are the hub's two tables, `candidate`, `connection`,
`marker`, `session` the app's records. `Scan`, `Pair`, `SaveMarker`,
`SaveConnection`, `Finish` are `secure_pair`, `Forget`, `ForgetCandidate`,
`ForgetMarker` are `secure_forget`; each write may fail and `Crash` comes
anywhere. `Register` is the transaction `store::pair`. `GiveUp` may leave the
request in `late`, from where it still arrives. `Expire` is a code's five
minutes. `Resume`, `Switch`, `Refresh` connect again, at an address that may
meanwhile be another hub's (`Move`). `left` is a ghost: keys an app's user has
turned away from, by forgetting them or by scanning another code.

### SecureChannel

The way up is modelled record by record: `WriteSmall`, `WriteBulk`,
`WriteFirst` are `Writer::run`'s choice of the next record, `Receive` is
`Channel::decode` with its assemblies, `Serve` is `dispatch` on the hub. The
way down keeps only what the same writer establishes there, that messages of
one key stay in order, and the one reader that every stream of the app shares
(`Dispatch`). The tasks of a virtual socket on the hub are `pump`: connecting,
open, waiting to send, closing. `TryError` is the error that is dropped if
there is no room for it. `Lose` ends the connection anywhere.

### Registration

Every database statement is an action; a request (`doing`) goes through them
one by one, and the command line, another process, does the same. `SignIn`,
`CountUsers`, `CreateUser` are the three statements of a first sign-in, through
a provider (`routes/auth.rs`) or the owner's (`owner_user_id`); `Redeem` and
`ConsumeCode` a login code; `Register`, `CreateMachine`, `ConsumeToken`,
`SaveConfig`, `RestartAgent` a host's registration, from the token to the
restarted agent. `Dial`, `Authenticate`, `Serve`, `EndServing`, `Unregister` are
a machine's connection, `Remove`, `DropConnection`, `DeleteMachine`
`remove_machine`, `FindConnected`, `EnsureMachine` the rows the hub makes up for
machines that are connected. `removed` and `late` are ghosts.

### ManagedConnection

A process (`proc`) is a command typed in a shell or the service manager's own
`run`; it holds its locks for as long as it is at the steps that follow them in
the code. `saved` and `url` are the hub's files, `unit` and `loaded` the unit's
file and what the service manager runs, `remote` what the service knows.
Requests may be answered and the answer lost (`AnswerLost`); any process may
die anywhere (`Dies`). `Provision` is the service's own doing, external.

## 3. The runs

States are distinct states. Every run ends within four minutes with two workers.

| run | bounds | states | shows |
|---|---|---|---|
| `control_lease` | 2 devices, 1 machine, 2 sockets or timers each | 33,146 | releases are final, timers spare the connected, the gone are released |
| `event_stream` | 2 keys of two users, history 1, channel 1, offset 2, 3 numbers, 1 drop or crash | 1,313,018 | a caught-up browser is in sync, and it does catch up; old snapshots are never extended |
| `agent_actor` | 3 commands, queue of 2, 1 question, 1 update | 449,439 | nothing lost, commands in order, the queue only waits for an answer, the handshake ends |
| `agent_session` | 2 requests at a time, 3 in all, 2 runs, 2 connections, 2 events each, 1 restart, a log trimmed to 1, 1 read position; symmetric in requests | 5.4 million | the log ascends, one agent, deleted stays |
| `terminal_registry` | 2 terminals, 1 tab, 3 connections, 1 restart each, 2 commands, 1 assignment | 2,010,828 | nothing alive is written off, no row forgotten, the list settles |
| `composer` | 3 ids, 4 checks, 3 faults | 586,630 | implements `SendOnce`, failed is final, the permit comes back |
| `attach_stream` | 2 attaches of which 1 compressed, 2 connections, 1 print, channel 1, notice queue 1 | 506,743 | streams intact, nothing leaks, stranded sockets close, thinned streams are redrawn |
| `workspace_tabs` | 2 terminals, 3 tabs, 2 requests, panes 2, 3 starts, 1 restart; or, where browsers edit, 1 tab, 1 terminal, 1 request at a time, 2 starts, 2 editors, 3 saves, 2 clock values; symmetric | 1,048,195 | one ordered strip, empty tabs go and adopted ones stay, places agree, implements `LayoutRegister` |
| `paired_device` | 2 apps, 2 hubs, 2 codes, 2 keys, 2 addresses, 1 move; symmetric | 2.8 million | one device per code, none orphaned, an address book has its key |
| `secure_channel` | 1 socket, 1 request, 2 records a message, queue 2, 1 message on the way down, inbox 1, urgent streak 1, 1 assembly | 319,572 | keys in order, long messages move, requests end |
| `registration` | 2 logins, 1 code, 1 token, 2 machine ids, 1 host, 2 connections, 2 requests at a time and 4 in all, 1 fault | 1,245,142 | a stored secret works, the removed stay out, agents get back online |
| `managed_connection` | 2 hubs, 2 shells, 7 commands, 1 fault | 515,046 | a disable is final, a unit keeps its owner, an installed connector runs |

### Why the bounds are enough

Each is the smallest at which the interesting case happens, and for every
property a mutant of the code, in the same module, is caught within them.

* *Two devices, one machine, two sockets*: a device reconnects while two timers
  of its earlier sockets sleep and another device claims, is released, and comes
  back. Leases of different machines only meet in a device's stash.
* *History and channel of 1 with 3 numbers*: both overflow, entries get out of
  order in the history, and a crash finds as many numbers unflushed as the offset
  of 2. The real 1024, 256 and 200 change how often, not what. The second key is
  another user's: its events take up numbers and room in the history and are
  never sent to the browser followed. The two safety properties were also
  searched with both keys visible (3,183,793 states), and are proved for any
  keys.
* *Queue of 2 with 3 commands*: the queue is full and refuses.
* *Two runs, two connections, two events, a log of 1*: both runs of a resumed
  session send while either connection is the one the hub believes in, and the
  log is trimmed.
* *Three connections* in the registry: one lost by the machine, one replaced,
  one that stays. A machine dies between the steps of one creation while another
  terminal runs.
* *Three ids* in the local editor: a first send fails, a second fails, a third
  is in doubt.
* *One frame in each socket's channel*: any second frame is a loss.
* *Two requests and three tabs*: a tab is pruned while another request places a
  terminal in it or renames it; the third tab is the one the machine's answer
  or the migration opens.
* *Two editors, three saves, two clock values* (`Bounds`, a constraint of the
  run): a base older than the row, of a browser that missed an answer or of one
  that was overtaken, and a layout dropped with its tab and made again by a save
  that had passed its checks, under a number below the old one. Tabs and layouts
  meet in the deletion of a tab alone, so that the many requests and the two
  editors need not be combined; `SavesBuildOnSeen` has no bounds. All properties
  of this run are safety, which a constraint can only cut short.
* *Two apps, hubs, codes, keys, addresses*: two apps race for a code, one app
  turns from one hub to another, a hub's address is taken over.
* *A socket, a request, two records, one assembly*: a short message waits
  behind a long one of its own key and overtakes one of another; every queue is
  full at times. The real limits (64, 32, 8) change how often.
* *Two machine ids for one host*: the host registers, is removed and registers
  again. Four requests are a sign-in, a token, a registration and one of
  removal, re-registration and a row made up.
* *Seven commands*: enroll, install, check and disable of one hub with three of
  another in between. One fault lets any one answer be lost, or any one process
  be killed.

A larger instance of `AttachStream`, with 2 prints (3.2 million states, without
`NothingLeaks`), was searched for the safety properties alone without an error.

`CHECK_DEADLOCK FALSE` stands wherever the bounds, or an agent or a draft that
has ended, stop the system; `ControlLease` never stops, and is checked for
deadlock.

### Fairness

Nothing is ever asked of users, shells, agents or the network.

* `ControlLease`: the grace timer fires. It is a spawned `sleep` whose task
  nobody aborts.
* `EventStream`: the flush interval ticks, some task inside `send_event` goes on,
  and the browser goes on with its own retry loop, which has no last attempt.
  `Converges` speaks of runs in which changes and drops have stopped: the
  bounds make every run one of them.
* `AgentActor`: the actor's loop handles what is in its channels, a watchdog's
  sleep ends, a dead child's output reaches end of file.
* `TerminalRegistry`: the tasks of both processes run, those of a creation
  included, the watcher wakes every 5 s. `ListSettles` assumes that a connection
  stays up in the end.
* `Composer`: the hub's task runs and its 30 s timeout fires.
* `AttachStream`: the machine connects again, loops handle what is in their
  queues, an open browser reads, tmux repaints when it is asked, a killed
  client ends. That the hub notices the end of a connection is only assumed
  once that connection has been *replaced*, since its command channel is closed
  then; before that nothing makes it notice.
* `SecureChannel`: writers, readers and socket tasks run and a request's forty
  seconds pass. Tasks that share a bounded channel get a strong fairness
  (`HandOn`, `SendOut`, `Closed`), because tokio's channels serve waiting
  senders in order. The network may lose the connection at any time.
* `Registration`: `run` dials every three seconds for ever, the hub's tasks for
  a connection go on. Users and hosts may do nothing.
* `ManagedConnection`: a process goes on (its requests have a time limit), the
  service manager restarts what has ended (`Restart=always`). Nothing says when
  a command is typed, a hub listens or the service provisions; `InstalledRuns`
  assumes these in its own statement.
* `AgentSession`, `WorkspaceTabs` and `PairedDevice` claim no liveness: a
  session may wait for its agent, a request for its machine and an app for its
  user for ever.

### Exceptions the properties state

Where TLC showed that a property needs an exception, the exception is in the
property and names the case:

* `InSync` and `Converges` allow, beside a key's state, what the last event of it
  told (`told`). The two differ where the events of two changes of one key were
  numbered in reverse order: the handlers let go of their locks before
  `send_event` (`machine_manager.rs:1637`, `:1717`), so that a browser may end on
  the older of two values, with no gap to notice, until the key changes again.
  Both ask for a snapshot number above 0 of the same hub: 0 means "no number" on
  both sides and switches gap detection off. And both are silent below `lost`:
  where entries got out of order, a full history may let go of an event with a
  later number than the entry that becomes its first and than every entry the
  user may see (`machine_manager.rs:1980`), which nobody can tell. TLC finds
  `InSync` violated without any one of the three.
* `OldSnapshotRejected` excepts `burst`: only a 5 s timer flushes, so a crash may
  find more numbers unflushed than the offset makes up for
  (`UnflushedFitsOffset`, below), and the new hub's numbers then continue the
  old snapshot's.
* `DestroyedIsDead` and `ListSettles` except `orphans`: a machine that dies
  between `new-session` and its sessions file leaves a shell running that no
  process will ever know (`pty.rs:137`). `ListSettles` excepts `missed` too:
  the answer to a creation goes to the connection that asked, and a later one
  may have made its report before the terminal was there. The machine's next
  connection mends that.
* `NoRowForgotten` and `ListSettles` except `cut`. A handler aborted between
  its two locks drops a machine's stash; the terminals come back with the next
  report.
* `ThinnedIsRedrawn` excepts `unheard`: the notice that a stream lost a frame
  goes into a queue of 64 that drops it when full. With two plain viewers the
  second then stays torn until its next loss.
* `HandshakeEnds` does not reach `session/set_model`, which has no watchdog, and
  excepts `Unnamed`, the answer to `session/new` without a `sessionId`
  (`acp.rs:865`): the watchdog has had its answer and nothing but a kill ends
  that handshake.
* `StripIsOrdered` excepts `mixed`: two requests that number tabs at once, or a
  reordering the hub stopped in, may give one number twice.
* `EmptyTabGoes` and `PlacesAgree` except `odd`: two moves of one terminal that
  overlap may each win in one of memory and database; a tab opened for a
  terminal whose request was dropped stays empty. The hub's next start mends
  both.
* `EditsBuildOn` excepts tabs whose layout was `reused`. A save into an empty row
  takes the bare clock (`workspace_layouts.rs:105`), and a base from before the
  drop then passes for the new layout's.
* `BookHasItsKey` and `NothingOrphaned` except keys the user has turned from
  (`left`): an app tells no hub that it forgets it. `NothingOrphaned` promises
  that scanning the code again completes a pairing whose answer was lost only
  until that code expires (`Lapsed`): from then on the hub refuses it
  (`store.rs:146`), and the device stays registered with nobody to use it until
  it is revoked.
* `DisconnectReleases` begins with a device that has a connection: a claim over
  HTTP by a device whose count is already 0 is not followed.
* `OffIsOff` begins with a disable that *reported success*. One that is killed
  after it saved the registration leaves the address advertised until the next.

### What the code does otherwise than its comments say

Six properties are stated in the modules and in no run: each translates a
comment, and TLC finds it violated as soon as it is added to its `.cfg`.

1. `HolderAskedLast` (`machine_manager.rs:1630`). A reconnecting device gets a
   stashed lease back if nobody holds the machine *now*; the comment says "as
   long as no other device has claimed them since". Claimed and given up in
   between is not noticed.
2. `FirstPromptOnModel` (`acp.rs:532`). A prompt that arrives between the
   answer to `session/new` and the one to `session/set_model` is sent at once,
   before the queued ones and on the default model.
3. `SkippedIsLogged` (`machine_manager.rs:1516`). A resumed session numbers its
   new events from 1, and the hub drops those at or below the row's watermark
   as "already in the log". They are not.
4. `DroppedIsDisconnected` (`machine_manager.rs:239`). A machine that reconnects
   before the hub noticed the loss has killed its agents, but the hub leaves
   their sessions working or idle, and resume refuses them.
5. `PromptsHaveSession` (`acp.rs:594`). "`execute_command` only runs once the ACP
   session exists", and a prompt expects its id. An answer without a `sessionId`
   flushes the queue all the same, and a prompt in it ends the actor's task.
6. `UnflushedFitsOffset` (`machine_manager.rs:55`). The recovery offset of 200
   "must exceed the maximum number of events that can go unflushed (flush
   cadence is every 100 events or 5 seconds)". Only the 5 s timer exists, and
   `send_event` waits for nothing: any number of events may go unflushed.

A seventh observation is a comment only: "cleanup (only if this connection is
still current)" at `ws.rs:912` does not hold of `drop_machine`. That is as well:
the mutant that makes it hold strands the sockets opened on the old connection
(`StrandedIsClosed`).

The modules also state properties that hold at these bounds and are in no run,
because a deeper one, or a theorem, covers their ground: `TypeOK` everywhere;
`CountMatches`, `StashOnlyWhenGone`, `OnlyClaimsTransfer`, `ReceiptIsFinal`,
`OneSessionPerCode`, `SomeoneIsAdmin`, `OneConnector`, `GoesHome`, `Decodable`,
`AskedIsAnswerable`, `TabKept` (all proved); `KillEnds` (checked only). Each can
be added to its `.cfg`.

## 4. The proofs

TLAPS checks about 17,500 obligations in eight modules, with no step left out.

| theorem | states | assumptions on the constants |
|---|---|---|
| `TypeCorrect`, `CountIsExact`, `StashWaitsForGone`, `ReleaseFinality` | `ControlLease`: `Spec => []` of `TypeOK`, `CountMatches`, `StashOnlyWhenGone`, `ReleaseIsFinal` | `None` is no device; `MaxSockets` is a natural number |
| `ConnectedKeepsLease`, `TransferNeedsClaim` | `Spec =>` the action properties `TimerSparesConnected`, `OnlyClaimsTransfer` | the same |
| `BrowserInSync`, `OldSnapshotsRejected`, `StreamTypes` | `EventStream`: `InSync`, `OldSnapshotRejected`, `TypeOK` | the user's keys are keys; history and channel have room for one at least; the bounds are natural numbers |
| `NoCommandLost`, `QueueFlushes`, `CommandsRunInOrder`, `QuestionsAreParked` | `AgentActor`: `NothingLost`, `QueueOnlyWaits`, `InOrder`, `AskedIsAnswerable` | the bounds are natural numbers |
| `WrittenOffIsDead`, `ActiveIsRemembered`, `TabsAreKept`, `RegistryTypes` | `TerminalRegistry`: `DestroyedIsDead`, `NoRowForgotten`, `TabKept`, `RegistryTypeOK` | `NoTab` is no tab; the bounds are natural numbers |
| `StreamsStayIntact`, `NothingIsLeaked`, `AttachTypes` | `AttachStream`: `StreamIntact`, `NothingLeaks`, `AttachTypeOK` | `Asking` are attaches; connections and queues have room for one at least |
| `ComposerTypes`, `FailureIsFinal`, `ReceiptsAreFinal` | `Composer`: `TypeOK`, `FailedIsFinal`, `ReceiptIsFinal` | the bounds are natural numbers |
| `DraftIsSentOnce` | `Spec => SendsOnce`: `Composer` implements `SendOnce` | the same |
| `TranscriptInOrder`, `OneAgentAtMost`, `DeletionIsFinal`, `TypeCorrect` | `AgentSession`: `LogInOrder`, `OneAgent`, `DeletedStays`, `TypeOK` | the bounds are natural numbers, the log holds one entry at least |
| `StripNumbered`, `EmptyTabsMinded`, `MemoryMatchesRows`, `UserTabsStay`, `TypeCorrect` | `WorkspaceTabs`: `StripIsOrdered`, `EmptyTabGoes`, `PlacesAgree`, `AdoptedStays`, `TypeOK` | `NoTab` and `Gone` are no tab, terminal or each other, `Machine` is no request; the bounds are natural numbers |
| `RevisionsTellApart`, `SavesBuildOnSeen` | `LayoutInv`; `Spec => EditsBuildOn`, i.e. it implements `LayoutRegister`, tabs with a reused number excepted in both | the same |
| `OneDeviceIn`, `NoDeviceOrphaned`, `BooksHaveKeys`, `SessionsGoHome` | `PairedDevice`: `OneDevicePerCode`, `NothingOrphaned`, `BookHasItsKey`, `GoesHome` | `Nil` is no key, code or record; `MaxMoves` is a natural number |
| `CodesAreSingleUse`, `HubHasAdmin`, `SecretsStayGood`, `RemovalIsFinal` | `Registration`: `OneSessionPerCode`, `SomeoneIsAdmin`, `SecretIsKept`, `RemovedStaysOut` | the names differ, the bounds are natural numbers |
| `DisableIsFinal`, `ConnectorRunsOnce`, `UnitIsItsOwners` | `ManagedConnection`: `OffIsOff`, `OneConnector`, `UnitKeepsOwner` | the names differ, the bounds are natural numbers |
| `FramesInOrder`, `RecordsDecode`, `ChannelTypes` | `SecureChannel`: `KeysInOrder`, `Decodable`, `ChannelTypeOK` | no socket is a request, `NoBulk` is no message under way, the limits are positive |

**ControlLease.** The inductive invariant is the conjunction of the four. They
need each other: that a timer does not take a connected device's lease follows
from the count being exact; that a restore does not undo a release follows
from the stash holding nothing that was renounced.

**EventStream.** `StreamInv` speaks of a *log*, the set of all events numbered in
this life of the hub, which no variable holds: that some set of events fits is
the invariant. `Hub` says that history, receiver, replay and the tasks inside
`send_event` hold events of the log (`Numbered`), that the log's last event of a
key is the one that told its value (`Newest`), and that past `lost` an event of
the user's which is not in the history is made up for: it is still to be
recorded, or a visible entry is at least as late, or there is a gap before the
first entry (`Recorded`). `Browser` says of every key that what the browser was
told is the key's state, or what its last event told, or that a change or a
later event is still to come (`Known`), and for a live browser that every
event it has not seen, or a later one, is on its way (`Awaited`). No bound on
users, keys or tasks is needed: what out-of-order entries can hide is exactly
`lost`. The hard step is the replay after a trim (`TrimmedHistory`): letting go
of an entry leaves a later visible one, a gap, or `lost` behind. `MissedAre`
shows by induction over a set of lengths that the replay is all of the history's
visible entries past the number; the lagging receiver is why `lagged` implies
that something is left to read. `OldSnapshotRejected` follows from `Foreign`: as
long as no crash found `Offset` numbers unflushed, to a snapshot of an earlier
hub every new event looks like a gap.

**Composer.** `IInv` joins the types with three parts. `InStep` says how far
row, task, command and answer of one id can be apart. `Honest` says that an
outcome, wherever it is stored or on its way, is true: "delivered" was typed,
"failed" is `Dead`, i.e. reserved, not typed, and nobody left to type it.
`OneAlive` says that all ids but the newest are dead, because the editor makes
up a new one only after it heard "failed". Then `FailedIsFinal` is `Honest`,
`ReceiptIsFinal` follows from `InStep`, and the refinement from `OneAlive`:
whenever the writer types, no other id has been or can be typed.

**AgentActor.** `ActorInv` adds to the types and `NothingLost` that one step of
the handshake is under way at a time (`OneHandshake`), so that an answer that
opens the session is the only one that can, that none is under way once a
session is open, unnamed or refused, and that an open session holds commands
only for a `set_model` whose answer is out (`HeldForModel`). A flush
executes the queue through a recursive function, of which `FlushSteps` shows by
induction over a set of lengths that it goes on as each command does (`Onward`).
`OrderInv` follows on it: the commands executed, those queued and those in the
channel stand in one line in the order they were sent (`Lineup`), unless the
session was created with a model, where `FirstPromptOnModel` fails; and a
status "asked" has its question (`QuestionsAreParked`).

**TerminalRegistry.** `RegInv` is types and four parts. It speaks of the shells
some process of the machine knows or will know (`Running`, all but the orphans)
and of the terminals whose creation has come so far that one did (`Ready`).
`Wired`: nothing is said on a connection before its report, and a machine's map,
its file and the creations under way account for what runs (`Machined`).
`Messaged`: a "destroyed" on its way is of a terminal that has ended, and a
report is the first message. `Accounted`: neither a report on its way nor one
taken leaves out a running terminal that has a row; hence what the
reconciliation writes off is dead. `Remembered`: terminals are live or stashed,
never both, and stashed only until the report is handled. `DestroyedIsDead` and
`NoRowForgotten` are among the conjuncts. `PlaceInv` adds what `TabKept` needs:
every list the hub holds, also the stash in a reconciliation's hands, has each
active terminal in its place, which is the row's tab or the one an assignment
under way is about to write (`Placed`); a creation on the way is of a terminal
that is in no row and in no report before it, and comes once (`News`), so that
it cannot move one back to no tab; and nothing is live before the report is
worked off (`Unlisted`). A reported terminal that is not in the stash can have
no active row, because the hub forgets none.

**AttachStream.** `AttachInv` relates, attach by attach (`Path`), what is in the
two queues, and which comes before which, to the socket, the tmux client and the
compressor: the order to open is read before the order to close (`Awaited`);
while the hub has the route, the switch that turns the compressor on is ahead
of every chunk of a compressed stream (`Steady`); a compressed stream has no
hole and the browser knows that it is one (`Agreed`). `StreamIntact` is in
`Agreed`, and `NothingLeaks` in `Cleaned`.

**AgentSession.** `SessionInv` adds to the types that a session has been
created once only (`CreatedOnce`: a row that is there, or deleted, leaves no
create request between its check and its insert). `OneAgent` is then inductive,
because a manager that starts a run puts out the one it knew. `LogInOrder` is
inductive with the types: an event is appended only above the watermark, which
never goes down.

**WorkspaceTabs.** `TabsInv` has four parts. `Shapes` says what a request has in
hand at each step of its handler. `Settled` says where a terminal is: in the row
as in memory, but for the one request, or destruction, between the two. `Minded`
says who will take away a tab of the hub's own that is empty: somebody in the
prune's three steps, somebody about to place a terminal there, or the terminal
that is still to leave it. `Strip` says that the numbers of the tabs differ and
how far a reordering has come. Each leans on the one before. `AdoptedStays`
follows from `Shapes` and from who deletes rows (`WhoDropsTabs`).

`LayoutInv` says that an editor whose base is not older than
a tab's revision shows that layout, and that no base is ahead of a row, in every
tab whose layout never came back under an old number. This is what lets a
comparison of timestamps stand for "has seen": a save over a row takes a number
past the row's own even when the clock was set back. Every step of the
tabs' own is a stutter of the register except the two that drop a layout.

**PairedDevice.** `AppInv` says, for each step of an app's work, which of its
three records exist and agree. `HubInv` says that a registered device, and any
request still on its way, is `Claimed` by the candidate of the app that made
the key, or `Connected`, or turned away from. The heart is `ClaimStays`: a
candidate goes only when the same key has become the connection's, so a crash
between any two writes leaves a key that scanning again completes, as long as
the code it came with has not expired.

**Registration.** The invariant has a part per theorem. `CodeInv`: a code is
marked used before a session is handed out. `AdminInv`: as long as nobody is
admin, whoever counted no users will be. `SecretInv`: a secret on its way to a
host's disk is of a row with a secret or of a removed id. `RemovedStaysOut`
itself is inductive: the row that `ensure_machine_row` brings back has no secret.

**ManagedConnection.** `Shapes` ties what a process is at to what it is doing,
`Locks` says that of two processes one at most is between a lock and its end,
for the hub's lock, the unit's and the connector's; `Holds` says what a process
may rely on while it is there, above all that an installer's unit is nobody's
or its own until it writes it. `OffAlone` is what makes `OffIsOff` inductive: a
hub that is off has no command under way that could undo it.

**SecureChannel.** `Flying` says which message goes on after the record under
way, and `Assembled` that the hub has put together exactly what the writer has
sent of it, whence `RecordsDecode`. `Stream` says of each socket that the frames
in its inbox, the one in the air and those in the queue continue each other
(`Lined`, `Carried`, `Chain`). A short message that overtakes a long one has
another key, which is why taking it out of the middle of the queue breaks no
chain. `Fresh` and `SingleOpen` cover a number that is used again: nothing of
the earlier socket is left when the hub reads the new one's opening.

**Only model-checked.** Of the runs' properties, those with fairness
(`DisconnectReleases`, `Converges`, `HandshakeEnds`, `ListSettles`,
`PermitComesBack`, `StrandedIsClosed`, `ThinnedIsRedrawn`, `BulkMoves`,
`RequestsEnd`, `BackOnline`, `InstalledRuns`): liveness is beyond this prover.
Every invariant and action property of every run is proved. Of the properties in
no run that hold, only `KillEnds` of `AgentActor`, which is liveness too, is
not.

## 5. What is not modelled

* *In the modelled parts*: titles, working directories, attention, resizing and
  the foreground check in the registry; window sizes, thumbnails and image
  pastes in the attach streams (a thumbnail whose route is dropped freezes
  until it is subscribed again); the prompt, answer, cancel and set-model
  routes of agent sessions, which only forward to the actor; the parsing of ACP
  messages; attachments, and where drafts are stored; what a layout contains.
* *tmux answering*: the registry assumes `tmux list-sessions` works. The code
  reads a failure as "no sessions" (`pty.rs:833`).
* *Files*: each write (`machine.json`, the sessions file, the service unit, an
  app's records) is one step that succeeds or fails; a file half written by
  `fs::write` is not modelled. The destruction of a terminal (map, `kill-session`,
  file) is one step too: a crash before the kill is as if the command had been
  lost, one after it as if the shell had exited, since recovery keeps only what
  tmux still runs.
* *Waiting for room*: the hub's channel of commands to a machine takes every
  command at once (`machine_manager.rs:897`), and the forty seconds of a request
  over the encrypted connection begin with its sending (`client.rs:268` starts
  them when the send is through). How long either send may wait is not modelled.
* *Cryptography*: handshakes and encryption are taken as sound, a bad record
  ends the connection.
* *Identity providers* and long-lived API tokens: exchanges with somebody else,
  and single statements.
* *Two creations that wait for the machine together* may both pass the pane
  limit of a tab; the code has no second check, so no property is claimed.
* *Machine services, CLI, shells, static files, settings*: parsers, I/O, or
  clients without shared state. *The browser's layout tree and reducers*: pure
  functions with unit tests of their own.

## 6. Plan

Written, in the order of what matters most to a user: who may type, what a
browser shows, the agents, which terminals exist, that a draft is sent once, the
terminal's own stream, its tabs, the encrypted connection and its pairing, who
may come in at all, and the public address. Next:

1. Proofs: the implementations of item 3, step by step.
2. The composition of `ControlLease` with `EventStream`: a machine going offline
   clears the browser's view of its lease (`bootstrapState.ts:91`) while the hub
   keeps it.
3. An abstract `TerminalList` (born, listed, gone) that `TerminalRegistry`
   implements; an abstract transcript for `AgentSession`; a pair of ordered
   streams that `SecureChannel` implements.
4. Thumbnails in `AttachStream`; the way down of `SecureChannel` record by
   record; API tokens in `Registration`.
