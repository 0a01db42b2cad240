--------------------------- MODULE TerminalRegistry ---------------------------
(***************************************************************************)
(* Which terminals the hub lists for one machine, and in which tab.  The   *)
(* truth is the machine's tmux server; the hub keeps the connection's live *)
(* terminals, a stash of the terminals of a machine that is away           *)
(* (persisted_terminals) and one database row per terminal.  Connections   *)
(* break and overlap, both processes restart, shells exit unseen, and the  *)
(* list must come right again (crates/hub/src/machine_manager.rs, db/      *)
(* terminal_sessions.rs, crates/machine/src/hub_conn.rs, pty.rs,           *)
(* session_watcher.rs).                                                    *)
(*                                                                         *)
(* A terminal's tab stands for everything the hub and not the machine      *)
(* decides about it (workspace_group_id, title, title_source).  A handler  *)
(* of the hub is one step, except ExistingTerminals, which takes two locks *)
(* one after the other, and the HTTP assignment, which changes memory and  *)
(* then the database.  A creation on the machine is three steps, and the   *)
(* process may die or the connection be replaced between them.  The        *)
(* machine waits 3 s before it connects again: the hub has handled what an *)
(* old connection delivered by then (Connect).                             *)
(***************************************************************************)
EXTENDS Naturals, Sequences, FiniteSets, Functions

CONSTANTS
  Terminals,          \* terminal ids, one per terminal ever created
  Tabs,               \* workspace groups
  NoTab,              \* workspace_group_id = None
  MaxConns,           \* bound: connections the machine opens
  MaxHubRestarts,     \* bound: hub restarts
  MaxMachineRestarts, \* bound: restarts of the machine's process
  MaxCommands,        \* bound: create and destroy requests
  MaxEdits            \* bound: tab assignments, one at a time

ASSUME TabsAssumption == NoTab \notin Tabs
ASSUME BoundsAssumption ==
  {MaxConns, MaxHubRestarts, MaxMachineRestarts, MaxCommands, MaxEdits} \subseteq Nat

VARIABLES
  tmux,     \* the tmux sessions that are alive
  known,    \* PtyManager.sessions, in memory
  saved,    \* the sessions file
  making,   \* create_terminal calls under way, each for one connection
  born,     \* terminals created so far
  orphans,  \* ghost: sessions in tmux that a machine process died too soon to save
  missed,   \* ghost: terminals known too late for the open connection's report,
            \* or dead before their creation was said on it
  cur,      \* the machine's open connection, 0 if none
  greeted,  \* it has sent its ExistingTerminals
  watched,  \* SessionWatcher: deaths reported on this connection
  opened,   \* connections opened so far
  up,       \* machine to hub, on the newest connection
  down,     \* hub to machine, on the newest connection
  ends,     \* connections whose handler still runs on the hub
  reg,      \* machines[id].conn_id, 0 if the machine is not registered
  live,     \* machines[id].terminals: terminal -> tab
  stash,    \* persisted_terminals[id]: terminal -> tab
  taken,    \* the reconciliation between its two locks
  rows,     \* terminal_sessions
  edit,     \* the assignment between memory and database
  cut,      \* terminals whose stash an aborted reconciliation dropped
  count     \* restarts, commands and edits so far

machine == <<tmux, known, saved, making, born, orphans, missed>>
wire == <<cur, greeted, watched, opened, up, down>>
hubState == <<ends, reg, live, stash, taken, edit, cut>>
registryVars == <<machine, wire, hubState, rows, count>>

-----------------------------------------------------------------------------
Messages == [kind : {"existing"}, ids : SUBSET Terminals]
            \union [kind : {"created", "destroyed"}, id : Terminals]
Commands == {[kind |-> "create"]} \union [kind : {"destroy"}, id : Terminals]
Makings == [id : Terminals, conn : 1..MaxConns, at : {"spawned", "inserted"}]
Lists == UNION {[S -> Tabs \union {NoTab}] : S \in SUBSET Terminals}
Empty == [t \in {} |-> NoTab]
Idle == [at |-> "idle"]
NewRow == [state |-> "active", tab |-> NoTab]
NoRow == [state |-> "none", tab |-> NoTab]
Bounds == [hub : 0..MaxHubRestarts, machine : 0..MaxMachineRestarts,
           command : 0..MaxCommands, edit : 0..MaxEdits]

\* Types of the variables (trivially kept; every other property relies on it).
RegistryTypeOK ==
  /\ tmux \subseteq born /\ saved \subseteq known
  /\ known \subseteq born /\ born \subseteq Terminals
  /\ making \subseteq Makings
  /\ orphans \subseteq tmux /\ missed \subseteq born
  /\ cur \in 0..opened /\ opened \in 0..MaxConns
  /\ greeted \in BOOLEAN /\ watched \subseteq Terminals
  /\ up \in Seq(Messages) /\ down \in Seq(Commands)
  /\ ends \subseteq 1..opened /\ reg \in ends \union {0}
  /\ live \in Lists /\ stash \in Lists
  /\ taken \in {Idle} \union [at : {"taken"}, ids : SUBSET Terminals, stash : Lists]
  /\ rows \in [Terminals -> [state : {"none", "active", "destroyed"},
                             tab : Tabs \union {NoTab}]]
  /\ edit \in {Idle} \union [at : {"memory"}, id : Terminals, tab : Tabs \union {NoTab}]
  /\ cut \subseteq Terminals
  /\ count \in Bounds

RegistryInit ==
  /\ tmux = {} /\ known = {} /\ saved = {} /\ making = {} /\ born = {}
  /\ orphans = {} /\ missed = {}
  /\ cur = 0 /\ greeted = FALSE /\ watched = {} /\ opened = 0
  /\ up = <<>> /\ down = <<>>
  /\ ends = {} /\ reg = 0 /\ live = Empty /\ stash = Empty
  /\ taken = Idle /\ edit = Idle /\ cut = {}
  /\ rows = [t \in Terminals |-> NoRow]
  /\ count = [hub |-> 0, machine |-> 0, command |-> 0, edit |-> 0]

Bump(what) == count' = [count EXCEPT ![what] = @ + 1]

\* What reaches the hub of a message the machine sends: nothing once the hub
\* has given the connection up.
Said(msg) == IF cur \in ends THEN Append(up, msg) ELSE up

-----------------------------------------------------------------------------
(* The machine.                                                            *)

\* register_machine_with_capabilities: a connection it replaces leaves its
\* terminals in the stash.
Stashed == IF live = Empty THEN stash ELSE live

\* connect_once: Register and its AuthResult.  run sleeps 3 s between two
\* connections, in which the hub has worked off the old one's messages.
Connect ==
  /\ cur = 0 /\ opened < MaxConns
  /\ up = <<>> /\ taken = Idle
  /\ opened' = opened + 1 /\ cur' = opened + 1
  /\ greeted' = FALSE /\ watched' = {} /\ down' = <<>>
  /\ ends' = ends \union {opened + 1} /\ reg' = opened + 1
  /\ stash' = Stashed /\ live' = Empty
  /\ missed' = {}
  /\ UNCHANGED <<tmux, known, saved, making, born, orphans, up, taken, edit, cut, rows, count>>

\* Mutant: nothing to report, nothing sent.
GreetingUnlessEmpty ==
  IF known = {} THEN up ELSE Said([kind |-> "existing", ids |-> known])

\* What the machine says first on every connection.
Greeting == Said([kind |-> "existing", ids |-> known])

\* The report of the known terminals, sent even when it is empty.
Greet ==
  /\ cur # 0 /\ ~greeted
  /\ greeted' = TRUE
  /\ up' = Greeting
  /\ UNCHANGED <<machine, cur, watched, opened, down, hubState, rows, count>>

\* The receive task handles one command after the other.
TakeCommand(kind) ==
  /\ greeted /\ down # <<>> /\ Head(down).kind = kind
  /\ \A m \in making : m.conn # cur
  /\ down' = Tail(down)
  /\ UNCHANGED <<cur, greeted, watched, opened, hubState, rows, count>>

\* PtyManager.create_terminal, begun: a new id and a new tmux session.
CreateTerminal(t) ==
  /\ TakeCommand("create")
  /\ t \notin born
  /\ born' = born \union {t} /\ tmux' = tmux \union {t}
  /\ making' = making \union {[id |-> t, conn |-> cur, at |-> "spawned"]}
  /\ UNCHANGED <<known, saved, orphans, missed, up>>

\* The session has its options and size and is known.  A connection opened
\* since, whose report is out, will not hear of it.
InsertTerminal(m) ==
  /\ m \in making /\ m.at = "spawned"
  /\ making' = (making \ {m}) \union {[m EXCEPT !.at = "inserted"]}
  /\ known' = known \union {m.id}
  /\ missed' = IF greeted /\ cur # m.conn THEN missed \union {m.id} ELSE missed
  /\ UNCHANGED <<tmux, saved, born, orphans, wire, hubState, rows, count>>

\* persist, and TerminalCreated on the connection that asked, if it is open.
AnswerCreated(m) ==
  /\ m \in making /\ m.at = "inserted"
  /\ making' = making \ {m}
  /\ saved' = known
  /\ IF cur = m.conn
     THEN /\ up' = Said([kind |-> "created", id |-> m.id])
          /\ missed' = missed \union ({m.id} \intersect watched)
     ELSE UNCHANGED <<up, missed>>
  /\ UNCHANGED <<tmux, known, born, orphans, cur, greeted, watched, opened, down,
                 hubState, rows, count>>

\* tmux refuses: TerminalCreateError, which changes no list.
CreateFails ==
  /\ TakeCommand("create")
  /\ UNCHANGED <<machine, up>>

\* PtyManager.destroy_terminal: a terminal it knows is forgotten, killed and
\* dropped from the file.
Kill(t) == IF t \in known
           THEN known' = known \ {t} /\ tmux' = tmux \ {t} /\ saved' = known \ {t}
           ELSE UNCHANGED <<known, tmux, saved>>

\* DestroyTerminal: answered even if the terminal is unknown.
DestroyTerminal ==
  /\ TakeCommand("destroy")
  /\ Kill(Head(down).id)
  /\ up' = Said([kind |-> "destroyed", id |-> Head(down).id])
  /\ UNCHANGED <<making, born, orphans, missed>>

\* The shell of a terminal exits; only the watcher will notice.
ShellExits(t) ==
  /\ t \in tmux
  /\ tmux' = tmux \ {t} /\ orphans' = orphans \ {t}
  /\ UNCHANGED <<known, saved, making, born, missed, wire, hubState, rows, count>>

\* SessionWatcher: a known terminal tmux no longer has is reported once per
\* connection, and stays known.
WatchDeath(t) ==
  /\ greeted /\ t \in (known \ tmux) \ watched
  /\ watched' = watched \union {t}
  /\ up' = Said([kind |-> "destroyed", id |-> t])
  /\ UNCHANGED <<machine, cur, greeted, opened, down, hubState, rows, count>>

\* What a broken connection still delivers to the hub: any prefix.
LoseTail == \E n \in 0..Len(up) : up' = SubSeq(up, 1, n)

\* The machine's end closes (an error, a failed ping, 90 s of silence).
MachineLosesConn ==
  /\ cur # 0
  /\ cur' = 0 /\ greeted' = FALSE /\ watched' = {} /\ down' = <<>>
  /\ LoseTail
  /\ UNCHANGED <<machine, opened, hubState, rows, count>>

\* Mutant: an unread sessions file.
RecoveredNone(alive) == {}

\* recover_sessions: the sessions file, without the dead.
Recovered(alive) == saved \intersect alive

\* The machine's process restarts, in the middle of a creation or not; tmux
\* survives that, but not a reboot.
RestartMachine ==
  /\ count.machine < MaxMachineRestarts
  /\ \E alive \in {tmux, {}} :
       /\ tmux' = alive /\ known' = Recovered(alive)
       /\ orphans' = alive \ saved
  /\ saved' = known' /\ making' = {} /\ missed' = {}
  /\ cur' = 0 /\ greeted' = FALSE /\ watched' = {} /\ down' = <<>>
  /\ LoseTail
  /\ Bump("machine")
  /\ UNCHANGED <<born, opened, hubState, rows>>

-----------------------------------------------------------------------------
(* The hub.                                                                *)

\* Mutant: an empty connection stashes as well.
UnregisterStashAlways == live

\* What the stash holds after unregister_machine.
UnregisterStash == IF live = Empty THEN stash ELSE live

\* The handler of connection c ends: its control task is aborted, between
\* the two locks of a reconciliation if it stands there, and the machine is
\* unregistered unless a newer connection has taken its place.
HubLosesConn(c) ==
  /\ c \in ends
  /\ ends' = ends \ {c}
  /\ IF c = opened
     THEN /\ up' = <<>> /\ down' = <<>> /\ taken' = Idle
          /\ cut' = cut \union (IF taken = Idle THEN {} ELSE DOMAIN taken.stash)
     ELSE UNCHANGED <<up, down, taken, cut>>
  /\ IF reg = c
     THEN reg' = 0 /\ live' = Empty /\ stash' = UnregisterStash
     ELSE UNCHANGED <<reg, live, stash>>
  /\ UNCHANGED <<machine, cur, greeted, watched, opened, edit, rows, count>>

\* ExistingTerminals, first lock: the stash is taken out.
TakeStash ==
  /\ up # <<>> /\ Head(up).kind = "existing" /\ taken = Idle
  /\ taken' = [at |-> "taken", ids |-> Head(up).ids, stash |-> stash]
  /\ stash' = Empty
  /\ up' = Tail(up)
  /\ UNCHANGED <<machine, cur, greeted, watched, opened, down,
                 ends, reg, live, edit, cut, rows, count>>

\* The tab a reported terminal gets back.
RestoredTab(t) == IF t \in DOMAIN taken.stash THEN taken.stash[t] ELSE NoTab

\* insert (ON CONFLICT keeps tab and destroyed_at) and mark_destroyed.
Inserted(row) == IF row.state = "none" THEN NewRow ELSE row
MarkDestroyed(row) ==
  IF row.state = "active" THEN [row EXCEPT !.state = "destroyed"] ELSE row

\* ExistingTerminals, second lock: the reported terminals are live, and the
\* stashed ones the machine did not report are gone.
Reconcile ==
  /\ taken # Idle
  /\ live' = [t \in DOMAIN live \union taken.ids |->
                IF t \in taken.ids THEN RestoredTab(t) ELSE live[t]]
  /\ rows' = [t \in Terminals |->
                CASE t \in taken.ids \ DOMAIN taken.stash -> Inserted(rows[t])
                  [] t \in DOMAIN taken.stash \ taken.ids -> MarkDestroyed(rows[t])
                  [] OTHER -> rows[t]]
  /\ taken' = Idle
  /\ UNCHANGED <<machine, wire, ends, reg, stash, edit, cut, count>>

\* TerminalCreated.
HandleCreated ==
  /\ up # <<>> /\ Head(up).kind = "created" /\ taken = Idle
  /\ LET t == Head(up).id IN
       /\ live' = [u \in DOMAIN live \union {t} |-> IF u = t THEN NoTab ELSE live[u]]
       /\ rows' = [rows EXCEPT ![t] = Inserted(@)]
  /\ up' = Tail(up)
  /\ UNCHANGED <<machine, cur, greeted, watched, opened, down,
                 ends, reg, stash, taken, edit, cut, count>>

\* The bookkeeping of TerminalDestroyed and TerminalDied.
Forget(t) ==
  /\ live' = Restrict(live, DOMAIN live \ {t})
  /\ rows' = [rows EXCEPT ![t] = MarkDestroyed(@)]

HandleDestroyed ==
  /\ up # <<>> /\ Head(up).kind = "destroyed" /\ taken = Idle
  /\ Forget(Head(up).id)
  /\ up' = Tail(up)
  /\ UNCHANGED <<machine, cur, greeted, watched, opened, down,
                 ends, reg, stash, taken, edit, cut, count>>

\* create_terminal and destroy_terminal: a command into the connection's
\* channel, lost if the machine is already gone.
Send(cmd) ==
  /\ reg # 0 /\ count.command < MaxCommands
  /\ down' = IF cur = reg THEN Append(down, cmd) ELSE down
  /\ Bump("command")
  /\ UNCHANGED <<machine, cur, greeted, watched, opened, up, hubState, rows>>

AskCreate == Cardinality(born) < Cardinality(Terminals) /\ Send([kind |-> "create"])

\* user_can_access_terminal.
Accessible(t) == t \in DOMAIN live
AskDestroy(t) == Accessible(t) /\ Send([kind |-> "destroy", id |-> t])

\* set_terminal_workspace_group, memory: the live terminal, or else the
\* stashed one, or else "Terminal not found".
AssignInMemory(t, tab) ==
  /\ edit = Idle /\ count.edit < MaxEdits
  /\ \/ /\ t \in DOMAIN live
        /\ live' = [live EXCEPT ![t] = tab]
        /\ UNCHANGED stash
     \/ /\ t \in DOMAIN stash \ DOMAIN live
        /\ stash' = [stash EXCEPT ![t] = tab]
        /\ UNCHANGED live
  /\ edit' = [at |-> "memory", id |-> t, tab |-> tab]
  /\ Bump("edit")
  /\ UNCHANGED <<machine, wire, ends, reg, taken, cut, rows>>

\* assign_workspace_group.
Assigned(row, tab) == [row EXCEPT !.tab = tab]

\* set_terminal_workspace_group, database.
AssignInDb ==
  /\ edit # Idle
  /\ rows' = [rows EXCEPT ![edit.id] = Assigned(Inserted(@), edit.tab)]
  /\ edit' = Idle
  /\ UNCHANGED <<machine, wire, ends, reg, live, stash, taken, cut, count>>

\* find_all_active.
ActiveRows == {t \in Terminals : rows[t].state = "active"}

\* MachineManager::new: the active rows are the stash of a new hub process.
LoadedStash == [t \in ActiveRows |-> rows[t].tab]

RestartHub ==
  /\ count.hub < MaxHubRestarts
  /\ stash' = LoadedStash
  /\ ends' = {} /\ reg' = 0 /\ live' = Empty /\ taken' = Idle /\ edit' = Idle
  /\ cut' = {} /\ up' = <<>> /\ down' = <<>>
  /\ Bump("hub")
  /\ UNCHANGED <<machine, cur, greeted, watched, opened, rows>>

-----------------------------------------------------------------------------
MachineNext ==
  \/ Connect \/ Greet \/ CreateFails \/ DestroyTerminal
  \/ MachineLosesConn \/ RestartMachine
  \/ \E t \in Terminals : CreateTerminal(t) \/ ShellExits(t) \/ WatchDeath(t)
  \/ \E m \in making : InsertTerminal(m) \/ AnswerCreated(m)

HubNext ==
  \/ TakeStash \/ Reconcile \/ HandleCreated \/ HandleDestroyed
  \/ AskCreate \/ AssignInDb \/ RestartHub
  \/ \E c \in 1..MaxConns : HubLosesConn(c)
  \/ \E t \in Terminals :
       \/ AskDestroy(t)
       \/ \E tab \in Tabs \union {NoTab} : AssignInMemory(t, tab)

RegistryNext == MachineNext \/ HubNext

\* Tokio keeps running the tasks of both processes and SessionWatcher wakes
\* every 5 s.  Nothing obliges a user, a shell or the network to do anything.
RegistryFairness ==
  /\ WF_registryVars(Greet) /\ WF_registryVars(DestroyTerminal)
  /\ \A t \in Terminals : WF_registryVars(WatchDeath(t))
  /\ WF_registryVars(CreateFails \/ \E t \in Terminals : CreateTerminal(t))
  /\ \A m \in Makings : WF_registryVars(InsertTerminal(m)) /\ WF_registryVars(AnswerCreated(m))
  /\ WF_registryVars(TakeStash) /\ WF_registryVars(Reconcile)
  /\ WF_registryVars(HandleCreated) /\ WF_registryVars(HandleDestroyed) /\ WF_registryVars(AssignInDb)

RegistrySpec == RegistryInit /\ [][RegistryNext]_registryVars /\ RegistryFairness

-----------------------------------------------------------------------------
Active(t) == t \in ActiveRows
Held == DOMAIN live \union DOMAIN stash
        \union (IF taken = Idle THEN {} ELSE DOMAIN taken.stash)

\* The hub never writes a terminal off while its shell is running, however
\* reports, deaths, creations and reconnections interleave
\* (mark_destroyed in the reconciliation and in the two death handlers).  The
\* one exception is a terminal that the machine's process died too soon to
\* save: it runs on in tmux and no process will ever know it.
DestroyedIsDead ==
  \A t \in Terminals \ orphans : rows[t].state = "destroyed" => t \notin tmux

\* A terminal the hub lists is in the tab the database has for it: neither a
\* reconnection, overlapping or not, nor a restart moves it, and an
\* assignment is not lost to one.  An assignment under way and a
\* reconciliation that was cut off between its locks are the only exceptions.
TabKept ==
  \A t \in Terminals \ cut :
    Active(t) /\ ~(edit # Idle /\ edit.id = t) =>
      /\ t \in DOMAIN live => live[t] = rows[t].tab
      /\ t \in DOMAIN stash => stash[t] = rows[t].tab

\* The hub's memory loses no terminal its database calls active: the next
\* report either brings it back or ends it.
NoRowForgotten == \A t \in Terminals \ cut : Active(t) => t \in Held

\* Once the connection stays up, the hub's list becomes exactly the
\* machine's running shells and no dead terminal stays active in the
\* database: deaths nobody watched, deaths reported twice, and requests whose
\* answers were lost are all made good.  Only what a crash orphaned and what
\* the connection missed (a creation that outlasted its own connection, or a
\* shell reported dead before its creation was) stays wrong: the first for
\* good, the second until the machine connects again.
Matches ==
  /\ DOMAIN live \ missed = tmux \ (missed \union orphans)
  /\ \A t \in Terminals \ (cut \union missed) : Active(t) => t \in tmux
ListSettles == (<>[](cur # 0 /\ reg = cur)) => <>[]Matches
=============================================================================
