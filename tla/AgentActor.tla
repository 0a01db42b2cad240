----------------------------- MODULE AgentActor -----------------------------
(***************************************************************************)
(* The machine's actor for one run of an agent session (SessionActor in    *)
(* crates/machine/src/acp.rs): a single event loop over the hub's commands, *)
(* the lines of the agent process, its end of file and the handshake       *)
(* watchdogs.  It shakes hands with the agent (initialize, then            *)
(* session/load or session/new, then an optional session/set_model),       *)
(* queues the commands that come too early, parks the agent's permission   *)
(* request for the user, and reports events and statuses to the hub.       *)
(*                                                                         *)
(* The agent is external: it answers any request it was sent, once, in any *)
(* order or never, streams updates, asks for permissions within a session, *)
(* and may exit.  Killing it ends its output.                              *)
(***************************************************************************)
EXTENDS Integers, Sequences, FiniteSets

CONSTANTS
  QueueCap,      \* MAX_QUEUED_COMMANDS (16)
  MaxCommands,   \* bound: commands the hub forwards, the kill included
  MaxAsks,       \* bound: permission requests of the agent
  MaxSays        \* bound: other session updates of the agent

ASSUME ActorBounds ==
  QueueCap \in Nat /\ MaxCommands \in Nat /\ MaxAsks \in Nat /\ MaxSays \in Nat

VARIABLES
  start,     \* how the run was started: [resume, wants (a model), auto]
  cmds,      \* commands on their way to the actor
  pending,   \* requests the agent has not answered: a set of [id, kind]
  nextId,    \* next_rpc_id
  watched,   \* ids of the requests a watchdog was spawned for
  acp,       \* acp_session_id is known
  failed,
  queue,     \* queued_commands
  holding,   \* flush_after_set_model
  supports,  \* supports_models
  question,  \* pending_question: the parked request's number, 0 for none
  alive,     \* the child process runs
  ended,     \* the loop was left
  exited,    \* AgentSessionExited was sent
  seq,       \* number of the last AgentSessionEvent
  status,    \* the last status reported
  asks,      \* permission requests made so far
  says,      \* updates made so far
  sent,      \* commands sent so far
  ran,       \* history: the commands executed, in order
  refused    \* history: numbers of the commands refused with an Error event

handshake == <<pending, nextId, watched, acp, failed, holding, supports>>
report == <<seq, status>>
past == <<ran, refused>>
spoken == <<asks, says>>
actorVars == <<start, cmds, handshake, queue, question, alive, ended, exited, report,
          spoken, sent, past>>

-----------------------------------------------------------------------------
Commands == [op : {"prompt", "answer", "model", "cancel", "kill"}, n : Nat, to : Nat]
Handshakes == {"initialize", "load", "new"}
Kinds == Handshakes \union {"set_model", "prompt"}
Statuses == {"starting", "idle", "working", "asked", "error"}

(* A created session may ask for a model; a resumed one does not, and has  *)
(* an ACP session to load only if one had been opened.                     *)
Starts == {s \in [resume : BOOLEAN, wants : BOOLEAN, auto : BOOLEAN] :
             ~(s.resume /\ s.wants)}

Rpc(id, kind) == [id |-> id, kind |-> kind]

(* parse_session_models: what a session/new or session/load result says of *)
(* models, in either of the two shapes agents use: nothing, or a list that *)
(* is empty (and names no current model) or is not.                        *)
Results == {"absent", "empty", "models"}

(* map_session_update: the updates that become events, and the rest.       *)
Updates == {"known", "unknown"}
Mapped(update) == update = "known"

(* Mutant: no watchdog on session/load.                                    *)
NeedsWatchdogNotLoad(kind) == kind \in {"initialize", "new"}

NeedsWatchdog(kind) == kind \in Handshakes

(* begin: the actor starts by sending initialize.                          *)
Begun ==
  /\ pending = {Rpc(1, "initialize")}
  /\ nextId = 2
  /\ watched = {id \in {1} : NeedsWatchdog("initialize")}

ActorInit ==
  /\ start \in Starts
  /\ cmds = <<>>
  /\ Begun
  /\ acp = FALSE /\ failed = FALSE /\ queue = <<>>
  /\ holding = FALSE /\ supports = FALSE
  /\ question = 0
  /\ alive = TRUE /\ ended = FALSE /\ exited = FALSE
  /\ seq = 0 /\ status = "starting"
  /\ asks = 0 /\ says = 0 /\ sent = 0
  /\ ran = <<>> /\ refused = {}

-----------------------------------------------------------------------------
(* The hub forwards a command (prompt, answer, set_model, cancel or kill); *)
(* an answer names a question, and need not name the current one.          *)
Forward(op, to) ==
  /\ sent < MaxCommands
  /\ \A i \in 1..Len(cmds) : cmds[i].op # "kill"
  /\ ~ended
  /\ sent' = sent + 1
  /\ cmds' = Append(cmds, [op |-> op, n |-> sent + 1, to |-> to])
  /\ UNCHANGED <<start, handshake, queue, question, alive, ended, exited, report, spoken, past>>

-----------------------------------------------------------------------------
(* Executing commands.  What a command changes is gathered in a record, so *)
(* that a flush can run the whole queue in one step.                       *)

(* SessionActor's working state.                                           *)
Now == [seq |-> seq, status |-> status, pending |-> pending, nextId |-> nextId,
        supports |-> supports, question |-> question, ran |-> ran, refused |-> refused]

(* A request written to a dead child is never answered; it stays pending.  *)
Request(w, kind) ==
  [w EXCEPT !.pending = @ \union {Rpc(w.nextId, kind)}, !.nextId = @ + 1]

(* handle_prompt: the echo, the status, the request.                       *)
Prompt(w, c) ==
  [Request(w, "prompt") EXCEPT !.seq = @ + 1, !.status = "working"]

(* handle_answer: only for the parked question.                            *)
Answer(w, c) ==
  IF w.question # 0 /\ w.question = c.to
  THEN [w EXCEPT !.question = 0, !.seq = @ + 1, !.status = "working"]
  ELSE w

(* handle_set_model.                                                       *)
SetModel(w, c) ==
  IF w.supports THEN Request(w, "set_model")
  ELSE [w EXCEPT !.seq = @ + 1, !.refused = @ \union {c.n}]

(* execute_command; a cancel only notifies the agent.                      *)
Execute(w, c) ==
  LET done == [w EXCEPT !.ran = Append(@, c)]
  IN  CASE c.op = "prompt" -> Prompt(done, c)
        [] c.op = "answer" -> Answer(done, c)
        [] c.op = "model"  -> SetModel(done, c)
        [] OTHER           -> done

(* Mutant: the queue is flushed from its end.                              *)
FlushedReversed(w) ==
  LET run[i \in 0..Len(queue)] ==
        IF i = 0 THEN w ELSE Execute(run[i - 1], queue[Len(queue) + 1 - i])
  IN  run[Len(queue)]

(* flush_queued_commands, in order.                                        *)
Flushed(w) ==
  LET run[i \in 0..Len(queue)] ==
        IF i = 0 THEN w ELSE Execute(run[i - 1], queue[i])
  IN  run[Len(queue)]

Become(w) ==
  /\ seq' = w.seq /\ status' = w.status
  /\ pending' = w.pending /\ nextId' = w.nextId /\ supports' = w.supports
  /\ question' = w.question
  /\ ran' = w.ran /\ refused' = w.refused

-----------------------------------------------------------------------------
(* handle_command.                                                         *)

TakeCommand == ~ended /\ cmds # <<>> /\ cmds' = Tail(cmds)

KillNow == alive' = FALSE /\ queue' = <<>> /\ question' = 0

(* A kill applies at once; a parked question is answered as cancelled.     *)
HandleKill ==
  /\ TakeCommand
  /\ Head(cmds).op = "kill"
  /\ KillNow
  /\ UNCHANGED <<start, handshake, ended, exited, report, spoken, sent, past>>

HandleReady ==
  /\ TakeCommand
  /\ Head(cmds).op # "kill" /\ acp
  /\ Become(Execute(Now, Head(cmds)))
  /\ UNCHANGED <<start, watched, acp, failed, holding, queue, alive, ended, exited, spoken, sent>>

(* Before the session exists a command is queued, or refused with an Error *)
(* event when the session has failed or the queue is full.  Mutant: the    *)
(* command that finds the queue full is forgotten.                         *)
RefuseSilently(c) == UNCHANGED <<seq, refused>>
Refuse(c) == seq' = seq + 1 /\ refused' = refused \union {c.n}

HandleEarly ==
  /\ TakeCommand
  /\ Head(cmds).op # "kill" /\ ~acp
  /\ IF failed \/ Len(queue) >= QueueCap
     THEN Refuse(Head(cmds)) /\ UNCHANGED queue
     ELSE queue' = Append(queue, Head(cmds)) /\ UNCHANGED <<seq, refused>>
  /\ UNCHANGED <<start, handshake, question, alive, ended, exited, status, spoken,
                 sent, ran>>

-----------------------------------------------------------------------------
(* The agent's answers (handle_response, handle_rpc_error): an answer with *)
(* an id the actor is not waiting for is dropped.                          *)

Respond(rpc, kind) == ~ended /\ rpc \in pending /\ rpc.kind = kind

Answered(w, rpc) == [w EXCEPT !.pending = @ \ {rpc}]

(* The next step of the handshake, with its watchdog.                      *)
Continue(rpc, kind) ==
  /\ pending' = (pending \ {rpc}) \union {Rpc(nextId, kind)}
  /\ nextId' = nextId + 1
  /\ watched' = IF NeedsWatchdog(kind) THEN watched \union {nextId} ELSE watched

(* initialize answered: start_acp_session.                                 *)
Initialized(rpc) ==
  /\ Respond(rpc, "initialize")
  /\ Continue(rpc, IF start.resume THEN "load" ELSE "new")
  /\ UNCHANGED <<start, cmds, acp, failed, holding, supports, queue, question,
                 alive, ended, exited, report, spoken, sent, past>>

(* The history is gone: an Error event, and a fresh session.               *)
LoadRefused(rpc) ==
  /\ Respond(rpc, "load")
  /\ Continue(rpc, "new")
  /\ seq' = seq + 1
  /\ UNCHANGED <<start, cmds, acp, failed, holding, supports, queue, question,
                 alive, ended, exited, status, spoken, sent, past>>

(* adopt_session_config: session/new redefines what the agent supports,    *)
(* session/load only what its result carries.                              *)
Adopted(w, rpc, result) ==
  IF rpc.kind = "new" \/ result # "absent"
  THEN [w EXCEPT !.supports = result = "models"] ELSE w

(* apply_requested_model_then_flush: the queue is flushed, unless it waits *)
(* for the answer to the model the session was created with.               *)
ApplyModel(w) ==
  IF start.wants /\ w.supports
  THEN Become(Request(w, "set_model")) /\ holding' = TRUE /\ UNCHANGED queue
  ELSE /\ Become(Flushed(IF start.wants THEN [w EXCEPT !.seq = @ + 1] ELSE w))
       /\ queue' = <<>> /\ UNCHANGED holding

(* session/new or session/load answered with a session: it exists.         *)
SessionOpened(rpc, result) ==
  /\ Respond(rpc, "new") \/ Respond(rpc, "load")
  /\ acp' = TRUE
  /\ ApplyModel(Adopted([Answered(Now, rpc) EXCEPT !.status = "idle"], rpc, result))
  /\ UNCHANGED <<start, cmds, watched, failed, alive, ended, exited, spoken, sent>>

(* session/new answered without a sessionId.  The flush still runs: a      *)
(* cancel, an answer and a supported switch do nothing there, and a prompt *)
(* is one too many, as handle_prompt expects an id: the actor's task       *)
(* panics, its child dies with it and no exit is reported.  stop is where  *)
(* the flush comes to.                                                     *)
StopsAt(stop) ==
  /\ \A i \in 1..(stop - 1) : queue[i].op # "prompt"
  /\ stop < Len(queue) => stop > 0 /\ queue[stop].op = "prompt"

FlushedUnnamed(w, stop) ==
  LET told == {i \in 1..stop : queue[i].op = "model" /\ ~w.supports}
  IN  [w EXCEPT !.ran = @ \o SubSeq(queue, 1, stop), !.seq = @ + Cardinality(told),
                !.refused = @ \union {queue[i].n : i \in told}]

FlushUnnamed(w) ==
  /\ \E stop \in 0..Len(queue) : StopsAt(stop) /\ Become(FlushedUnnamed(w, stop))
  /\ queue' = <<>>
  /\ IF \E i \in 1..Len(queue) : queue[i].op = "prompt"
     THEN alive' = FALSE /\ ended' = TRUE
     ELSE UNCHANGED <<alive, ended>>

(* A wanted model that is supported is never asked for: the queue is held  *)
(* back for an answer to no request.                                       *)
HoldUnnamed(w) ==
  Become(w) /\ holding' = TRUE /\ UNCHANGED <<queue, alive, ended>>

SessionUnnamed(rpc, result) ==
  /\ Respond(rpc, "new")
  /\ LET w == Adopted([Answered(Now, rpc) EXCEPT !.status = "idle"], rpc, result)
     IN  IF start.wants /\ w.supports THEN HoldUnnamed(w)
         ELSE /\ FlushUnnamed(IF start.wants THEN [w EXCEPT !.seq = @ + 1] ELSE w)
              /\ UNCHANGED holding
  /\ UNCHANGED <<start, cmds, watched, acp, failed, exited, spoken, sent>>

(* The handshake is over without a session or a failure.                   *)
Unnamed == ~acp /\ ~failed /\ \A rpc \in pending : rpc.kind \notin Handshakes

(* Mutant: only an accepted model releases the queue.                      *)
ReleaseIfAccepted(ok) == holding /\ ok
Release(ok) == holding

(* handle_rpc_error: a refused switch is an Error event, not a failure.    *)
ModelRefused(w) == [w EXCEPT !.seq = @ + 1]

(* session/set_model answered or refused: the queue held back for it is    *)
(* flushed either way.                                                     *)
ModelAnswered(rpc, ok) ==
  /\ Respond(rpc, "set_model")
  /\ LET answered == IF ok THEN Answered(Now, rpc)
                     ELSE ModelRefused(Answered(Now, rpc))
     IN  IF Release(ok)
         THEN Become(Flushed(answered)) /\ queue' = <<>> /\ holding' = FALSE
         ELSE Become(answered) /\ UNCHANGED <<queue, holding>>
  /\ UNCHANGED <<start, cmds, watched, acp, failed, alive, ended, exited, spoken, sent>>

TurnStatus(ok) == IF ok /\ question # 0 THEN "asked" ELSE "idle"

(* session/prompt answered, or failed with an Error event.                 *)
TurnEnded(rpc, ok) ==
  /\ Respond(rpc, "prompt")
  /\ pending' = pending \ {rpc}
  /\ seq' = seq + 1
  /\ status' = TurnStatus(ok)
  /\ UNCHANGED <<start, cmds, nextId, watched, acp, failed, holding, supports,
                 queue, question, alive, ended, exited, spoken, sent, past>>

(* fail: one Error event and status, the child killed, the queue dropped.  *)
Fail(rpc) ==
  /\ pending' = pending \ {rpc}
  /\ IF failed THEN UNCHANGED <<failed, queue, seq, status, alive>>
     ELSE failed' = TRUE /\ queue' = <<>> /\ seq' = seq + 1
          /\ status' = "error" /\ alive' = FALSE
  /\ UNCHANGED <<start, cmds, nextId, watched, acp, holding, supports, question,
                 ended, exited, spoken, sent, past>>

HandshakeRefused(rpc) ==
  /\ Respond(rpc, "initialize") \/ Respond(rpc, "new")
  /\ Fail(rpc)

(* on_handshake_timeout, HANDSHAKE_TIMEOUT after the request.              *)
HandshakeTimeout(rpc) ==
  /\ ~ended
  /\ rpc \in pending /\ rpc.id \in watched
  /\ Fail(rpc)

-----------------------------------------------------------------------------
(* What the agent says on its own, and its end.                            *)

(* handle_line: a line of the agent while the loop runs.  Malformed ones   *)
(* and unknown notifications are ignored, and an unknown request refused,  *)
(* with no change here.                                                    *)
Heard == alive /\ ~ended

(* A session update of a kind that is shown, re-emitted unless it replays  *)
(* loaded history.                                                         *)
SessionUpdate(update) ==
  /\ Heard /\ says < MaxSays
  /\ says' = says + 1
  /\ seq' = IF Mapped(update) /\ ~\E rpc \in pending : rpc.kind = "load" THEN seq + 1 ELSE seq
  /\ UNCHANGED <<start, cmds, handshake, queue, question, alive, ended, exited, status,
                 asks, sent, past>>

(* handle_permission_request: auto-run answers at once and says nothing;   *)
(* otherwise the request is parked, over any other, and shown to the user. *)
PermissionRequest ==
  /\ Heard /\ (acp \/ Unnamed) /\ asks < MaxAsks
  /\ asks' = asks + 1
  /\ IF start.auto THEN UNCHANGED <<question, seq, status>>
     ELSE question' = asks + 1 /\ seq' = seq + 1 /\ status' = "asked"
  /\ UNCHANGED <<start, cmds, handshake, queue, alive, ended, exited, says, sent, past>>

AgentExits ==
  /\ alive
  /\ alive' = FALSE
  /\ UNCHANGED <<start, cmds, handshake, queue, question, ended, exited, report, spoken,
                 sent, past>>

(* on_eof: AgentSessionExited, and the loop is left.                       *)
OnEof ==
  /\ ~alive /\ ~ended
  /\ ended' = TRUE /\ exited' = TRUE
  /\ queue' = <<>>
  /\ UNCHANGED <<start, cmds, handshake, question, alive, report, spoken, sent, past>>

-----------------------------------------------------------------------------
ActorNext ==
  \/ \E op \in {"prompt", "model", "cancel", "kill"} : Forward(op, 0)
  \/ \E to \in 1..asks : Forward("answer", to)
  \/ HandleKill \/ HandleReady \/ HandleEarly
  \/ \E rpc \in pending :
       \/ Initialized(rpc) \/ LoadRefused(rpc) \/ HandshakeRefused(rpc)
       \/ HandshakeTimeout(rpc)
       \/ \E result \in Results : SessionOpened(rpc, result) \/ SessionUnnamed(rpc, result)
       \/ \E ok \in BOOLEAN : ModelAnswered(rpc, ok) \/ TurnEnded(rpc, ok)
  \/ \E update \in Updates : SessionUpdate(update)
  \/ PermissionRequest \/ AgentExits
  \/ OnEof

ActorSpec == ActorInit /\ [][ActorNext]_actorVars

(* The loop handles what it is given, a watchdog's sleep ends, and a dead  *)
(* child's output does.  Nothing is asked of the agent.                    *)
Fairness ==
  /\ WF_actorVars(HandleKill \/ HandleReady \/ HandleEarly)
  /\ \A id \in 1..3, kind \in Handshakes : WF_actorVars(HandshakeTimeout(Rpc(id, kind)))
  /\ WF_actorVars(OnEof)

LiveSpec == ActorSpec /\ Fairness

-----------------------------------------------------------------------------
(* Properties.                                                             *)

ActorTypeOK ==
  /\ start \in Starts
  /\ cmds \in Seq(Commands) /\ queue \in Seq(Commands)
  /\ pending \in SUBSET [id : Nat, kind : Kinds]
  /\ nextId \in Nat /\ watched \in SUBSET Nat
  /\ {acp, failed, holding, supports, alive, ended, exited} \subseteq BOOLEAN
  /\ question \in 0..asks
  /\ seq \in Nat /\ status \in Statuses
  /\ asks \in Nat /\ says \in Nat /\ sent \in Nat
  /\ ran \in Seq(Commands) /\ refused \in SUBSET Nat

Numbers(s) == {s[i].n : i \in 1..Len(s)}

(* The transcript is told what became of every command: until the child is *)
(* gone, a command the actor took was executed, waits in the queue, or was *)
(* refused with an Error event.                                            *)
NothingLost ==
  alive /\ ~failed =>
    \A n \in (1..sent) \ Numbers(cmds) : n \in Numbers(ran) \union Numbers(queue) \union refused

(* Without a create-time model, commands run in the order they were sent,  *)
(* those queued during the handshake included ("flushed in order").        *)
InOrder ==
  ~start.wants => \A i, j \in 1..Len(ran) : i < j => ran[i].n < ran[j].n

(* An open session holds commands back only while a model switch is still  *)
(* to be answered: a refused one must not wedge it.                        *)
QueueOnlyWaits ==
  acp /\ queue # <<>> => holding /\ \E rpc \in pending : rpc.kind = "set_model"

(* A session reported as asking has a question parked, so that the user's  *)
(* answer finds it.                                                        *)
AskedIsAnswerable == alive /\ status = "asked" => question # 0

(* However the agent behaves, the handshake ends: with a session, or with  *)
(* the session's exit reported.  The exception is the agent whose answer   *)
(* to session/new names no session: nothing ends that one, as the watchdog *)
(* has had its answer.                                                     *)
HandshakeEnds == <>(acp \/ exited \/ Unnamed)

(* handle_prompt: "execute_command only runs once the ACP session exists". *)
PromptsHaveSession == (\E i \in 1..Len(ran) : ran[i].op = "prompt") => acp

(* A kill ends the session, even in the middle of the handshake.           *)
KillEnds ==
  (\E i \in 1..Len(cmds) : cmds[i].op = "kill") ~> ended

(* What the source says of the create-time model: queued commands flush    *)
(* after set_model answers, so the first prompt runs on the requested      *)
(* model.  A created session's set_model is its third request.             *)
FirstPromptOnModel ==
  start.wants /\ (\E i \in 1..Len(ran) : ran[i].op = "prompt")
    => Rpc(3, "set_model") \notin pending

=============================================================================
