---------------------------- MODULE AgentSession ----------------------------
(***************************************************************************)
(* The life of one agent session across the hub and one machine            *)
(* (crates/hub/src/routes/agent_sessions.rs, db/agent_sessions.rs and the  *)
(* agent messages of machine_manager.rs; crates/machine/src/acp.rs and     *)
(* hub_conn.rs).  The hub keeps the session's row and its event log in     *)
(* its database.  The machine runs an agent process for it, a "run", under *)
(* a manager that lives as long as its hub connection; a session that is   *)
(* resumed gets a new run, numbering its events from 1 again.              *)
(*                                                                         *)
(* A connection has two ends that fail at different times: the machine may *)
(* be back on a new one before the hub has noticed the loss of the old.    *)
(* Inside a run, module AgentActor; here a run opens, emits, turns between *)
(* idle and working ("asked" is one more way of working), fails or exits.  *)
(* The hub also keeps how far the user has read the log (the markers of    *)
(* agent_session_seen).                                                    *)
(***************************************************************************)
EXTENDS Integers, Sequences, FiniteSets, FiniteSetsExt

CONSTANTS
  Requests,      \* HTTP requests the hub may be handling at once
  MaxConns,      \* bound: connections the machine makes
  MaxRuns,       \* bound: runs started
  MaxEvents,     \* bound: events one run emits
  MaxRequests,   \* bound: HTTP requests made
  MaxRestarts,   \* bound: restarts of the hub process
  History,       \* EVENT_HISTORY_PER_SESSION (5000)
  Reports        \* bound: the positions clients report as read

ASSUME BoundsAssumption ==
  /\ MaxConns \in Nat /\ MaxRuns \in Nat /\ MaxEvents \in Nat
  /\ MaxRequests \in Nat /\ MaxRestarts \in Nat /\ History \in Nat \ {0}
  /\ Reports \subseteq Nat

Conns == 1..MaxConns
Runs == 1..MaxRuns

VARIABLES
  row,          \* the session's row in agent_sessions, or none
  log,          \* agent_session_events
  seen,         \* the user's last_seen_seq in agent_session_seen
  request,      \* where each HTTP handler stands
  registered,   \* the connection in MachineManager.machines, 0 for none
  hubEnd,       \* connection -> the hub's handler: unused, open, closed
  machineEnd,   \* connection -> the machine's side: unused, open, closed
  down,         \* connection -> commands on their way to the machine
  up,           \* connection -> messages on their way to the hub
  manager,      \* connection -> the run in AcpManager.sessions, 0 for none
  run,          \* run -> its actor and process
  requests,     \* HTTP requests made so far
  restarts      \* hub restarts so far

database == <<row, log, seen>>
links == <<hubEnd, machineEnd, down, up>>
bounds == <<requests, restarts>>
vars == <<database, request, registered, links, manager, run, bounds>>

-----------------------------------------------------------------------------
Live == {"starting", "working", "idle"}
Dead == {"disconnected", "error"}

NoRow == [at |-> "none"]
Deleted == [at |-> "deleted"]
Row(status, last) == [at |-> "present", status |-> status, last |-> last]
Rows == {NoRow, Deleted}
        \union [at : {"present"}, status : Live \union Dead, last : Nat]

(* find_session.                                                           *)
Present == row.at = "present"

(* apply_update and set_status: an UPDATE, which touches no absent row.    *)
WithStatus(status) == IF Present THEN [row EXCEPT !.status = status] ELSE row

Resumed == WithStatus("starting")

(* bump_last_event_seq.                                                    *)
Bumped(seq) == IF Present /\ seq > row.last THEN [row EXCEPT !.last = seq] ELSE row

(* insert_event, which trims the log to the newest History numbers; the    *)
(* others are the first ones, for the log is in order.                     *)
LogAppended(entry) ==
  LET longer == Append(log, entry)
      newest == {i \in 1..Len(longer) : longer[i].seq > entry.seq - History}
  IN  SubSeq(longer, Min(newest), Len(longer))

(* mark_machine_sessions_disconnected.                                     *)
Disconnected == IF Present /\ row.status \in Live THEN WithStatus("disconnected") ELSE row

IdleRequest == [at |-> "idle"]
RequestSteps == [at : {"checked", "sent"}, op : {"create", "resume", "delete"}]

(* No run yet; an actor shaking hands, with a session open, failed, gone.  *)
(* "kill" is the Kill command on its way to the actor.                     *)
NoRun == [at |-> "none"]
RunStates == [at : {"starting", "open", "failed", "exited"}, conn : Conns,
              alive : BOOLEAN, kill : BOOLEAN, seq : Nat]

Messages ==
  [type : {"event"}, run : Runs, seq : Nat]
  \union [type : {"update"}, run : Runs, status : {"working", "idle", "error"}]
  \union [type : {"exited"}, run : Runs]

EventMsg(r, n) == [type |-> "event", run |-> r, seq |-> n]
Update(r, s) == [type |-> "update", run |-> r, status |-> s]
Exited(r) == [type |-> "exited", run |-> r]

Init ==
  /\ row = NoRow
  /\ log = <<>>
  /\ seen = 0
  /\ request = [q \in Requests |-> IdleRequest]
  /\ registered = 0
  /\ hubEnd = [c \in Conns |-> "unused"]
  /\ machineEnd = [c \in Conns |-> "unused"]
  /\ down = [c \in Conns |-> <<>>]
  /\ up = [c \in Conns |-> <<>>]
  /\ manager = [c \in Conns |-> 0]
  /\ run = [r \in Runs |-> NoRun]
  /\ requests = 0
  /\ restarts = 0

-----------------------------------------------------------------------------
(* The HTTP handlers: load the row and check it, send the command, then    *)
(* write the row; other tasks run between.                                 *)

(* A session's id is made up by the one request that creates it; a resume  *)
(* needs a session that is disconnected or in error; a delete any.         *)
CheckRequest(q, op) ==
  /\ request[q] = IdleRequest
  /\ requests < MaxRequests
  /\ CASE op = "create" -> requests = 0
       [] op = "resume" -> Present /\ row.status \in Dead
       [] op = "delete" -> Present
  /\ requests' = requests + 1
  /\ request' = [request EXCEPT ![q] = [at |-> "checked", op |-> op]]
  /\ UNCHANGED <<database, registered, links, manager, run, restarts>>

Command(op) == IF op = "delete" THEN "kill" ELSE "start"

(* send_to_machine: without a registered connection a create or a resume   *)
(* is refused, and a delete goes on.                                       *)
SendRequest(q) ==
  /\ request[q].at = "checked"
  /\ IF registered = 0
     THEN /\ request' = [request EXCEPT ![q] =
                           IF @.op = "delete" THEN [@ EXCEPT !.at = "sent"] ELSE IdleRequest]
          /\ UNCHANGED down
     ELSE /\ request' = [request EXCEPT ![q].at = "sent"]
          /\ down' = [down EXCEPT ![registered] = Append(@, Command(request[q].op))]
  /\ UNCHANGED <<database, registered, hubEnd, machineEnd, up, manager, run, bounds>>

Finish(q, op) ==
  /\ request[q] = [at |-> "sent", op |-> op]
  /\ request' = [request EXCEPT ![q] = IdleRequest]
  /\ UNCHANGED <<registered, links, manager, run, bounds>>

FinishCreate(q) ==
  /\ Finish(q, "create")
  /\ row' = Row("starting", 0)
  /\ UNCHANGED <<log, seen>>

FinishResume(q) ==
  /\ Finish(q, "resume")
  /\ row' = Resumed
  /\ UNCHANGED <<log, seen>>

(* Mutant: the delete leaves the log behind.                               *)
LogKept == log

(* delete_session deletes the events and the marker with the row.          *)
LogDeleted == <<>>

FinishDelete(q) ==
  /\ Finish(q, "delete")
  /\ row' = Deleted
  /\ log' = LogDeleted
  /\ seen' = 0

(* A prompt, an answer, a set_model or a cancel, for a session that is not *)
(* disconnected or in error: forwarded if the machine is connected, with   *)
(* nothing written.                                                        *)
Talk ==
  /\ requests < MaxRequests
  /\ Present /\ row.status \in Live
  /\ requests' = requests + 1
  /\ down' = IF registered = 0 THEN down ELSE [down EXCEPT ![registered] = Append(@, "talk")]
  /\ UNCHANGED <<database, request, registered, hubEnd, machineEnd, up, manager, run, restarts>>

(* upsert_seen keeps the maximum.                                          *)
Advanced(seq) == IF seq > seen THEN seq ELSE seen

(* mark_agent_session_seen: a client says it has read up to seq, a number  *)
(* of its own that nobody compares with the log.  The marker's foreign key *)
(* refuses a session deleted since the handler found it.                   *)
MarkSeen(seq) ==
  /\ requests < MaxRequests
  /\ Present
  /\ requests' = requests + 1
  /\ seen' = Advanced(seq)
  /\ UNCHANGED <<row, log, request, registered, links, manager, run, restarts>>

-----------------------------------------------------------------------------
(* The machine's messages, handled by the hub in order, whichever          *)
(* connection they come on: handle_machine_message looks at the session id *)
(* only.                                                                   *)

Receive(c, type) ==
  /\ hubEnd[c] = "open" /\ up[c] # <<>> /\ Head(up[c]).type = type
  /\ up' = [up EXCEPT ![c] = Tail(@)]
  /\ UNCHANGED <<request, registered, hubEnd, machineEnd, down, manager, run, bounds>>

HandleUpdate(c) ==
  /\ Receive(c, "update")
  /\ row' = WithStatus(Head(up[c]).status)
  /\ UNCHANGED <<log, seen>>

(* Mutants: events of unknown sessions logged; no watermark.               *)
WantedUnchecked(msg) == row.at # "present" \/ msg.seq > row.last
WantedAlways(msg) == Present

(* An unknown session's event is ignored, and one at or below the row's    *)
(* watermark.                                                              *)
Wanted(msg) == Present /\ msg.seq > row.last

HandleEvent(c) ==
  /\ Receive(c, "event")
  /\ LET msg == Head(up[c])
     IN  IF Wanted(msg)
         THEN /\ log' = LogAppended([run |-> msg.run, seq |-> msg.seq])
              /\ row' = Bumped(msg.seq)
              /\ UNCHANGED seen
         ELSE UNCHANGED database

HandleExited(c) ==
  /\ Receive(c, "exited")
  /\ row' = WithStatus("disconnected")
  /\ UNCHANGED <<log, seen>>

-----------------------------------------------------------------------------
(* The machine.                                                            *)

(* Mutants: nothing is killed; the old run is, but stays registered.       *)
KilledNone(S) == run

(* Kill commands to the runs in S (AcpManager.kill, kill_all).             *)
Killed(S) == [r \in Runs |-> IF r \in S THEN [run[r] EXCEPT !.kill = TRUE] ELSE run[r]]

NewRun(r) == run[r] = NoRun /\ \A s \in Runs : s < r => run[s] # NoRun

Say(c, msgs) == up' = IF hubEnd[c] = "open" THEN [up EXCEPT ![c] = @ \o msgs] ELSE up

TakeDown(c, cmd) ==
  /\ machineEnd[c] = "open" /\ down[c] # <<>> /\ Head(down[c]) = cmd
  /\ down' = [down EXCEPT ![c] = Tail(@)]

(* start_session: the session's old run is killed first; then the agent is *)
(* spawned under a new actor...                                            *)
StartSession(c, r) ==
  /\ TakeDown(c, "start")
  /\ NewRun(r)
  /\ run' = [Killed({manager[c]}) EXCEPT ![r] =
               [at |-> "starting", conn |-> c, alive |-> TRUE, kill |-> FALSE, seq |-> 0]]
  /\ manager' = [manager EXCEPT ![c] = r]
  /\ UNCHANGED <<database, request, registered, hubEnd, machineEnd, up, bounds>>

(* ... or the spawn fails, and the session with it.                        *)
StartFails(c, r) ==
  /\ TakeDown(c, "start")
  /\ NewRun(r)
  /\ run' = [Killed({manager[c]}) EXCEPT ![r] =
               [at |-> "exited", conn |-> c, alive |-> FALSE, kill |-> FALSE, seq |-> 1]]
  /\ manager' = [manager EXCEPT ![c] = 0]
  /\ Say(c, <<EventMsg(r, 1), Update(r, "error"), Exited(r)>>)
  /\ UNCHANGED <<database, request, registered, hubEnd, machineEnd, bounds>>

KillSession(c) ==
  /\ TakeDown(c, "kill")
  /\ run' = Killed({manager[c]})
  /\ manager' = [manager EXCEPT ![c] = 0]
  /\ UNCHANGED <<database, request, registered, hubEnd, machineEnd, up, bounds>>

(* AcpManager.send_command: what the session's run makes of it is          *)
(* AgentActor's; without a run it is dropped.                              *)
TakeTalk(c) ==
  /\ TakeDown(c, "talk")
  /\ UNCHANGED <<database, request, registered, hubEnd, machineEnd, up, manager, run, bounds>>

(* What actor r does next, and what it tells the hub (nothing once its     *)
(* connection is gone: the outbound channel is closed).                    *)
ActorStep(r, after, msgs) ==
  /\ run' = [run EXCEPT ![r] = after]
  /\ IF machineEnd[run[r].conn] = "open" THEN Say(run[r].conn, msgs) ELSE UNCHANGED up
  /\ UNCHANGED <<database, request, registered, hubEnd, machineEnd, down, manager, bounds>>

SessionOpens(r) ==
  /\ run[r].at = "starting" /\ run[r].alive
  /\ ActorStep(r, [run[r] EXCEPT !.at = "open"], <<Update(r, "idle")>>)

(* An event, and the status a turn's start or end reports with it.         *)
EmitEvent(r, status) ==
  /\ run[r].at = "open" /\ run[r].seq < MaxEvents
  /\ ActorStep(r, [run[r] EXCEPT !.seq = @ + 1],
               <<EventMsg(r, run[r].seq + 1), Update(r, status)>>)

SessionFails(r) ==
  /\ run[r].at = "starting"
  /\ ActorStep(r, [run[r] EXCEPT !.at = "failed", !.alive = FALSE, !.seq = @ + 1],
               <<EventMsg(r, run[r].seq + 1), Update(r, "error")>>)

(* The Kill command reaches the actor, or the agent exits by itself.       *)
AgentDies(r) ==
  /\ run[r].at \in {"starting", "open", "failed"} /\ run[r].alive
  /\ ActorStep(r, [run[r] EXCEPT !.alive = FALSE], <<>>)

Eof(r) ==
  /\ run[r].at \in {"starting", "open", "failed"} /\ ~run[r].alive
  /\ ActorStep(r, [run[r] EXCEPT !.at = "exited"], <<Exited(r)>>)

-----------------------------------------------------------------------------
(* Connections.                                                            *)

(* The machine, which has no connection open, makes a new one; the hub     *)
(* registers it in place of any it still has.                              *)
Connect(c) ==
  /\ machineEnd[c] = "unused"
  /\ \A b \in Conns : (b < c => machineEnd[b] = "closed")
  /\ machineEnd' = [machineEnd EXCEPT ![c] = "open"]
  /\ hubEnd' = [hubEnd EXCEPT ![c] = "open"]
  /\ registered' = c
  /\ UNCHANGED <<database, request, down, up, manager, run, bounds>>

(* The machine's end is lost: connect_once kills every run.                *)
MachineDrops(c) ==
  /\ machineEnd[c] = "open"
  /\ machineEnd' = [machineEnd EXCEPT ![c] = "closed"]
  /\ down' = [down EXCEPT ![c] = <<>>]
  /\ run' = Killed({manager[c]})
  /\ manager' = [manager EXCEPT ![c] = 0]
  /\ UNCHANGED <<database, request, registered, hubEnd, up, bounds>>

(* The hub's end is lost: what was not handled is gone, and                *)
(* unregister_machine, for the connection that is still registered, marks  *)
(* the live sessions disconnected.                                         *)
HubDrops(c) ==
  /\ hubEnd[c] = "open"
  /\ hubEnd' = [hubEnd EXCEPT ![c] = "closed"]
  /\ up' = [up EXCEPT ![c] = <<>>]
  /\ IF registered = c
     THEN /\ registered' = 0
          /\ row' = Disconnected
     ELSE UNCHANGED <<registered, row>>
  /\ UNCHANGED <<log, seen, request, machineEnd, down, manager, run, bounds>>

(* The hub process dies and starts again; only the database survives.      *)
HubRestarts ==
  /\ restarts < MaxRestarts
  /\ restarts' = restarts + 1
  /\ registered' = 0
  /\ hubEnd' = [c \in Conns |-> IF hubEnd[c] = "open" THEN "closed" ELSE hubEnd[c]]
  /\ up' = [c \in Conns |-> <<>>]
  /\ request' = [q \in Requests |-> IdleRequest]
  /\ UNCHANGED <<database, machineEnd, down, manager, run, requests>>

-----------------------------------------------------------------------------
Next ==
  \/ \E q \in Requests :
       \/ \E op \in {"create", "resume", "delete"} : CheckRequest(q, op)
       \/ SendRequest(q)
       \/ FinishCreate(q) \/ FinishResume(q) \/ FinishDelete(q)
  \/ Talk
  \/ \E seq \in Reports : MarkSeen(seq)
  \/ \E c \in Conns :
       \/ HandleUpdate(c) \/ HandleEvent(c) \/ HandleExited(c)
       \/ \E r \in Runs : StartSession(c, r) \/ StartFails(c, r)
       \/ KillSession(c) \/ TakeTalk(c)
       \/ Connect(c) \/ MachineDrops(c) \/ HubDrops(c)
  \/ \E r \in Runs :
       \/ SessionOpens(r) \/ SessionFails(r) \/ AgentDies(r) \/ Eof(r)
       \/ \E status \in {"working", "idle"} : EmitEvent(r, status)
  \/ HubRestarts

Spec == Init /\ [][Next]_vars

-----------------------------------------------------------------------------
(* Properties.                                                             *)

Running(r) == run[r].at \in {"starting", "open", "failed"}

TypeOK ==
  /\ row \in Rows
  /\ log \in Seq([run : Runs, seq : Nat]) /\ seen \in Nat
  /\ request \in [Requests -> {IdleRequest} \union RequestSteps]
  /\ registered \in {0} \union Conns
  /\ hubEnd \in [Conns -> {"unused", "open", "closed"}]
  /\ machineEnd \in [Conns -> {"unused", "open", "closed"}]
  /\ down \in [Conns -> Seq({"start", "kill", "talk"})]
  /\ up \in [Conns -> Seq(Messages)]
  /\ manager \in [Conns -> {0} \union Runs]
  /\ run \in [Runs -> {NoRun} \union RunStates]
  /\ requests \in Nat
  /\ restarts \in Nat

(* The log a browser pages through ascends, and the row's watermark is its *)
(* end, although runs that overlap (a duplicate start, a dying run) number *)
(* their events from 1 independently.                                      *)
LogInOrder ==
  /\ \A i, j \in 1..Len(log) : i < j => log[i].seq < log[j].seq
  /\ Present => row.last = IF log = <<>> THEN 0 ELSE log[Len(log)].seq

(* No two agents work on a session's directory at once: of the runs whose  *)
(* process is alive, at most one has not been sent a Kill, and that one is *)
(* the one the open connection's manager would kill.                       *)
OneAgent ==
  \A r \in Runs :
    Running(r) /\ run[r].alive /\ ~run[r].kill
      => machineEnd[run[r].conn] = "open" /\ manager[run[r].conn] = r

(* A deleted session stays deleted: neither a resume that was on its way   *)
(* nor the last messages of its agent nor a late read cursor bring back a  *)
(* row, events or the cursor.                                              *)
DeletedStays ==
  [][/\ row = Deleted => row' = Deleted
     /\ row' = Deleted => log' = <<>> /\ seen' = 0]_vars

(* What handle_machine_message says of the events it skips ("events at or  *)
(* below the stored watermark are already in the log"): an event the hub   *)
(* takes off a connection of a session it knows is in the log afterwards.  *)
SkippedIsLogged ==
  [][\A c \in Conns :
       /\ Present /\ hubEnd'[c] = "open" /\ up[c] # <<>> /\ up'[c] = Tail(up[c])
       /\ Head(up[c]).type = "event"
       => [run |-> Head(up[c]).run, seq |-> Head(up[c]).seq]
            \in {log'[i] : i \in 1..Len(log')}]_vars

(* What connect_once says of a dropped connection ("the hub marks the      *)
(* sessions Disconnected"): once both ends have closed it and no other     *)
(* run was started, its session is not shown at work.                      *)
DroppedIsDisconnected ==
  (\E r \in Runs :
     /\ run[r].at # "none"
     /\ \A s \in Runs : s > r => run[s].at = "none"
     /\ hubEnd[run[r].conn] = "closed" /\ machineEnd[run[r].conn] = "closed"
     /\ \A c \in Conns : up[c] = <<>> /\ down[c] = <<>>
     /\ \A q \in Requests : request[q] = IdleRequest)
  => ~(Present /\ row.status \in {"working", "idle"})

=============================================================================
