------------------------- MODULE AgentSessionProofs -------------------------
(***************************************************************************)
(* What holds of an agent session whatever the number of requests,         *)
(* connections, runs and restarts and however short the log: the types, at *)
(* most one agent not on its way out, a log in order that ends at the      *)
(* row's watermark, and that a deleted session stays deleted, its log and  *)
(* read cursor with it (SessionInv).                                       *)
(*                                                                         *)
(* Then of the actor of one run, whatever the queue's limit and however    *)
(* many commands, questions and updates: one step of the handshake at a    *)
(* time, an open session's queue held back only for a model switch on its  *)
(* way, and no command lost (ActorInv).  Flushing runs the queue through a *)
(* recursive function; FlushSteps shows that it is one, by induction over  *)
(* sets.  Last, the order in which the commands run, and the question a    *)
(* report speaks of (OrderInv).                                            *)
(***************************************************************************)
EXTENDS AgentSession, AgentActor, SequenceTheorems, FiniteSetTheorems, WellFoundedInduction,
        TLAPS

\* TypeOK but for the log.
Types ==
  /\ row \in Rows /\ seen \in Nat
  /\ request \in [Requests -> {IdleRequest} \union RequestSteps]
  /\ registered \in {0} \union Conns
  /\ hubEnd \in [Conns -> {"unused", "open", "closed"}]
  /\ machineEnd \in [Conns -> {"unused", "open", "closed"}]
  /\ down \in [Conns -> Seq({"start", "kill", "talk"})]
  /\ up \in [Conns -> Seq(Messages)]
  /\ manager \in [Conns -> {0} \union Runs]
  /\ run \in [Runs -> {NoRun} \union RunStates]
  /\ requests \in Nat /\ restarts \in Nat

Ops == {"create", "resume", "delete"}
Doing(q, op) == request[q] \in RequestSteps /\ request[q].op = op

\* The one request that may create the session does so before any other one
\* can find it.
CreatedOnce ==
  /\ requests = 0 => row = NoRow /\ \A q \in Requests : request[q] = IdleRequest
  /\ \A q \in Requests :
       /\ Doing(q, "create") => row = NoRow
       /\ Doing(q, "resume") \/ Doing(q, "delete") => row # NoRow
  /\ \A p, q \in Requests : Doing(p, "create") /\ Doing(q, "create") => p = q
  /\ ~Present => log = <<>> /\ seen = 0

Entries == [run : Runs, seq : Nat]
OrderedLog == log \in Seq(Entries) /\ LogInOrder

SessionInv == Types /\ CreatedOnce /\ OneAgent /\ OrderedLog

-----------------------------------------------------------------------------
LEMMA InitSessionInv == Init => SessionInv
BY DEF Init, SessionInv, Types, CreatedOnce, OneAgent, Rows, Doing, Present,
       RequestSteps, IdleRequest, Running, NoRun, NoRow, OrderedLog, LogInOrder

LEMMA RowShapes ==
  /\ Present => row # NoRow /\ row # Deleted
  /\ NoRow # Deleted
  /\ \A now, last : Row(now, last).at = "present" /\ Row(now, last).last = last
BY DEF Present, NoRow, Deleted, Row

(* What WithStatus, Resumed and Disconnected leave alone.                  *)
LEMMA StatusKeeps ==
  ASSUME row \in Rows, NEW now \in Live \union Dead,
         row' \in {row, WithStatus(now)}
  PROVE  /\ row' \in Rows
         /\ Present' = Present
         /\ Present => row'.last = row.last
         /\ ~Present => row' = row
BY DEF Rows, WithStatus, Present, NoRow, Deleted

(* Commands to runs keep their types.                                      *)
LEMMA KilledType ==
  ASSUME Types, NEW S
  PROVE  Killed(S) \in [Runs -> {NoRun} \union RunStates]
<1> SUFFICES ASSUME NEW r \in Runs PROVE Killed(S)[r] \in {NoRun} \union RunStates
  BY DEF Killed
<1>1. run[r] \in {NoRun} \union RunStates
  BY DEF Types
<1> QED BY <1>1 DEF Killed, RunStates, NoRun

(* What the actors send is read by the hub as it was sent.                 *)
LEMMA SayType ==
  ASSUME Types, NEW c \in Conns, NEW msgs \in Seq(Messages), Say(c, msgs)
  PROVE  up' \in [Conns -> Seq(Messages)]
BY DEF Types, Say

LEMMA MessageTypes ==
  ASSUME NEW r \in Runs, NEW n \in Nat, NEW s \in {"working", "idle", "error"}
  PROVE  EventMsg(r, n) \in Messages /\ Update(r, s) \in Messages /\ Exited(r) \in Messages
BY DEF EventMsg, Update, Exited, Messages

LEMMA ReceiveType ==
  ASSUME Types, NEW c \in Conns, NEW type, Receive(c, type)
  PROVE  /\ up' \in [Conns -> Seq(Messages)]
         /\ Head(up[c]) \in Messages
         /\ type = "update" => Head(up[c]).status \in Live \union Dead
         /\ type = "event" => Head(up[c]).seq \in Nat
<1>1. up' \in [Conns -> Seq(Messages)] /\ Head(up[c]) \in Messages /\ Head(up[c]).type = type
  BY DEF Types, Receive
<1>2. ASSUME NEW m \in Messages
      PROVE  /\ m.type = "update" => m.status \in Live \union Dead
             /\ m.type = "event" => m.seq \in Nat
  BY DEF Messages, Live, Dead
<1> QED BY <1>1, <1>2

LEMMA TakeDownType ==
  ASSUME Types, NEW c \in Conns, NEW cmd, TakeDown(c, cmd)
  PROVE  down' \in [Conns -> Seq({"start", "kill", "talk"})]
BY DEF Types, TakeDown

LEMMA NextTypes == ASSUME Types, [Next]_vars PROVE Types'
<1> USE DEF Types
<1>1. CASE UNCHANGED vars
  BY <1>1 DEF vars, database, links, bounds
<1>2. ASSUME NEW q \in Requests, NEW op \in Ops,
             CheckRequest(q, op)
      PROVE  Types'
  BY <1>2 DEF CheckRequest, database, links, RequestSteps, Ops
<1>3. ASSUME NEW q \in Requests, SendRequest(q) PROVE Types'
  <2>1. request[q] \in RequestSteps
    BY <1>3 DEF SendRequest, IdleRequest
  <2>2. Command(request[q].op) \in {"start", "kill", "talk"}
    BY DEF Command
  <2>3. request' \in [Requests -> {IdleRequest} \union RequestSteps]
    <3>1. [request[q] EXCEPT !.at = "sent"] \in RequestSteps
      BY <2>1 DEF RequestSteps
    <3> QED BY <1>3, <3>1 DEF SendRequest
  <2>4. down' \in [Conns -> Seq({"start", "kill", "talk"})]
    <3>1. CASE registered = 0
      BY <1>3, <3>1 DEF SendRequest
    <3>2. CASE registered \in Conns
      <4>1. Append(down[registered], Command(request[q].op)) \in Seq({"start", "kill", "talk"})
        BY <2>2, <3>2
      <4>2. registered # 0
        BY <3>2 DEF Conns
      <4> QED BY <1>3, <4>1, <4>2 DEF SendRequest
    <3> QED BY <3>1, <3>2
  <2> QED BY <1>3, <2>3, <2>4 DEF SendRequest, database, bounds
<1>4. ASSUME NEW q \in Requests, FinishCreate(q) \/ FinishResume(q) \/ FinishDelete(q)
      PROVE  Types'
  <2>1. Row("starting", 0) \in Rows /\ Deleted \in Rows /\ Resumed \in Rows
    BY DEF Rows, Row, Resumed, WithStatus, Live, Present, NoRow, Deleted
  <2>2. row' \in Rows /\ seen' \in Nat
    BY <1>4, <2>1 DEF FinishCreate, FinishResume, FinishDelete
  <2>3. \E op : Finish(q, op)
    BY <1>4 DEF FinishCreate, FinishResume, FinishDelete
  <2> QED BY <2>2, <2>3 DEF Finish, links, bounds
<1>5. CASE Talk
  BY <1>5 DEF Talk, database
<1>6. ASSUME NEW upTo \in Nat, MarkSeen(upTo) PROVE Types'
  BY <1>6 DEF MarkSeen, Advanced, links
<1>7. Reports \subseteq Nat
  BY BoundsAssumption
<1>8. ASSUME NEW c \in Conns, HandleUpdate(c) \/ HandleExited(c) \/ HandleEvent(c)
      PROVE  Types'
  <2> DEFINE msg == Head(up[c])
  <2>1. up' \in [Conns -> Seq(Messages)] /\ msg \in Messages
    BY <1>8, ReceiveType DEF HandleUpdate, HandleExited, HandleEvent
  <2>2. row' \in Rows /\ seen' = seen
    <3>1. CASE HandleUpdate(c)
      <4>1. msg.status \in Live \union Dead
        BY <3>1, ReceiveType DEF HandleUpdate
      <4> QED BY <3>1, <4>1, StatusKeeps DEF HandleUpdate
    <3>2. CASE HandleExited(c)
      BY <3>2, StatusKeeps DEF HandleExited, Dead
    <3>3. CASE HandleEvent(c)
      <4>1. msg.seq \in Nat
        BY <3>3, ReceiveType DEF HandleEvent
      <4>2. Bumped(msg.seq) \in Rows
        BY <4>1 DEF Bumped, Rows, Present, NoRow, Deleted
      <4> QED BY <3>3, <4>2 DEF HandleEvent, database
    <3> QED BY <1>8, <3>1, <3>2, <3>3
  <2> QED BY <1>8, <2>1, <2>2 DEF HandleUpdate, HandleExited, HandleEvent, Receive, bounds
<1>9. ASSUME NEW c \in Conns, NEW r \in Runs, StartSession(c, r) \/ StartFails(c, r)
      PROVE  Types'
  <2>1. down' \in [Conns -> Seq({"start", "kill", "talk"})]
    BY <1>9, TakeDownType DEF StartSession, StartFails
  <2>2. run' \in [Runs -> {NoRun} \union RunStates]
    <3>1. ASSUME NEW at \in {"starting", "exited"}, NEW lives \in BOOLEAN, NEW n \in {0, 1}
          PROVE  [at |-> at, conn |-> c, alive |-> lives, kill |-> FALSE, seq |-> n] \in RunStates
      BY DEF RunStates
    <3>2. \E after \in RunStates : run' = [Killed({manager[c]}) EXCEPT ![r] = after]
      BY <1>9, <3>1 DEF StartSession, StartFails
    <3> QED BY <3>2, KilledType
  <2>3. up' \in [Conns -> Seq(Messages)]
    <3>1. <<EventMsg(r, 1), Update(r, "error"), Exited(r)>> \in Seq(Messages)
      BY MessageTypes
    <3> QED BY <1>9, <3>1, SayType DEF StartSession, StartFails
  <2> QED BY <1>9, <2>1, <2>2, <2>3 DEF StartSession, StartFails, database, bounds
<1>10. ASSUME NEW c \in Conns, KillSession(c) \/ TakeTalk(c) PROVE Types'
  BY <1>10, KilledType, TakeDownType DEF KillSession, TakeTalk, database, bounds
<1>11. ASSUME NEW c \in Conns, Connect(c) PROVE Types'
  BY <1>11 DEF Connect, database, bounds
<1>12. ASSUME NEW c \in Conns, MachineDrops(c) PROVE Types'
  BY <1>12, KilledType DEF MachineDrops, database, bounds
<1>13. ASSUME NEW c \in Conns, HubDrops(c) PROVE Types'
  <2>1. row' \in {row, WithStatus("disconnected")}
    BY <1>13 DEF HubDrops, Disconnected
  <2>2. row' \in Rows
    BY <2>1, StatusKeeps DEF Dead
  <2> QED BY <1>13, <2>2 DEF HubDrops, bounds
<1>14. ASSUME NEW r \in Runs, NEW after \in RunStates, NEW msgs \in Seq(Messages),
              run[r] \in RunStates, ActorStep(r, after, msgs)
       PROVE  Types'
  <2>1. run[r].conn \in Conns
    BY <1>14 DEF RunStates
  <2>2. up' \in [Conns -> Seq(Messages)]
    BY <1>14, <2>1, SayType DEF ActorStep
  <2> QED BY <1>14, <2>2 DEF ActorStep, database, bounds
<1>15. ASSUME NEW r \in Runs,
              \/ SessionOpens(r) \/ SessionFails(r) \/ AgentDies(r) \/ Eof(r)
              \/ \E now \in {"working", "idle"} : EmitEvent(r, now)
       PROVE  Types'
  <2>1. run[r] \in RunStates
    BY <1>15 DEF SessionOpens, SessionFails, AgentDies, Eof, EmitEvent, NoRun
  <2>2. run[r].seq + 1 \in Nat
    BY <2>1 DEF RunStates
  <2>3. /\ [run[r] EXCEPT !.at = "open"] \in RunStates
        /\ [run[r] EXCEPT !.seq = @ + 1] \in RunStates
        /\ [run[r] EXCEPT !.at = "failed", !.alive = FALSE, !.seq = @ + 1] \in RunStates
        /\ [run[r] EXCEPT !.alive = FALSE] \in RunStates
        /\ [run[r] EXCEPT !.at = "exited"] \in RunStates
    <3>1. ASSUME NEW at \in {"starting", "open", "failed", "exited"},
                 NEW lives \in BOOLEAN, NEW n \in {run[r].seq, run[r].seq + 1}
          PROVE  [run[r] EXCEPT !.at = at, !.alive = lives, !.seq = n] \in RunStates
      BY <2>1, <2>2 DEF RunStates
    <3>2. /\ [run[r] EXCEPT !.at = "open"]
             = [run[r] EXCEPT !.at = "open", !.alive = run[r].alive, !.seq = run[r].seq]
          /\ [run[r] EXCEPT !.seq = @ + 1]
             = [run[r] EXCEPT !.at = run[r].at, !.alive = run[r].alive, !.seq = run[r].seq + 1]
          /\ [run[r] EXCEPT !.alive = FALSE]
             = [run[r] EXCEPT !.at = run[r].at, !.alive = FALSE, !.seq = run[r].seq]
          /\ [run[r] EXCEPT !.at = "exited"]
             = [run[r] EXCEPT !.at = "exited", !.alive = run[r].alive, !.seq = run[r].seq]
          /\ run[r].at \in {"starting", "open", "failed", "exited"} /\ run[r].alive \in BOOLEAN
      BY <2>1 DEF RunStates
    <3> QED BY <3>1, <3>2
  <2>4. ASSUME NEW now \in {"working", "idle", "error"}
        PROVE  /\ <<Update(r, now)>> \in Seq(Messages)
               /\ <<EventMsg(r, run[r].seq + 1), Update(r, now)>> \in Seq(Messages)
               /\ <<>> \in Seq(Messages) /\ <<Exited(r)>> \in Seq(Messages)
    BY <2>2, MessageTypes
  <2>5. CASE SessionOpens(r)
    BY <1>14, <2>1, <2>3, <2>4, <2>5 DEF SessionOpens
  <2>6. CASE SessionFails(r)
    BY <1>14, <2>1, <2>3, <2>4, <2>6 DEF SessionFails
  <2>7. CASE AgentDies(r) \/ Eof(r)
    BY <1>14, <2>1, <2>3, <2>4, <2>7 DEF AgentDies, Eof
  <2>8. CASE \E now \in {"working", "idle"} : EmitEvent(r, now)
    BY <1>14, <2>1, <2>3, <2>4, <2>8 DEF EmitEvent
  <2> QED BY <1>15, <2>5, <2>6, <2>7, <2>8
<1>16. CASE HubRestarts
  BY <1>16 DEF HubRestarts, database
<1> QED
  BY <1>1, <1>2, <1>3, <1>4, <1>5, <1>6, <1>7, <1>8, <1>9, <1>10, <1>11, <1>12, <1>13,
     <1>15, <1>16 DEF Next, Ops

-----------------------------------------------------------------------------
(* What the steps that do not handle a request do to the database.         *)
LEMMA DatabaseSteps ==
  ASSUME Types, Next,
         ~ \E q \in Requests : FinishCreate(q) \/ FinishResume(q) \/ FinishDelete(q)
  PROVE  /\ Present' = Present
         /\ ~Present => row' = row /\ log' = log /\ seen' = seen
<1> USE DEF Types
<1> DEFINE Goal == /\ Present' = Present
                   /\ ~Present => row' = row /\ log' = log /\ seen' = seen
<1>1. Present => row.last \in Nat
  BY DEF Present, Rows, NoRow, Deleted
<1>2. CASE UNCHANGED database
  BY <1>1, <1>2 DEF database, Present
<1>3. ASSUME NEW now \in Live \union Dead, row' \in {row, WithStatus(now)},
             UNCHANGED <<log, seen>>
      PROVE  Goal
  BY <1>1, <1>3, StatusKeeps
<1>4. CASE \E upTo \in Reports : MarkSeen(upTo)
  BY <1>4 DEF MarkSeen, Present
<1>5. ASSUME NEW c \in Conns, HandleUpdate(c) PROVE Goal
  <2>1. Head(up[c]).status \in Live \union Dead
    BY <1>5, ReceiveType DEF HandleUpdate
  <2> QED BY <1>3, <1>5, <2>1 DEF HandleUpdate
<1>6. ASSUME NEW c \in Conns, HandleEvent(c) PROVE Goal
  <2>1. Head(up[c]).seq \in Nat
    BY <1>6, ReceiveType DEF HandleEvent
  <2>2. Present => Bumped(Head(up[c]).seq).at = "present"
                   /\ Bumped(Head(up[c]).seq).last \in Nat
                   /\ Bumped(Head(up[c]).seq).last >= row.last
    BY <1>1, <2>1 DEF Bumped, Rows, Present, NoRow, Deleted
  <2> QED BY <1>1, <1>2, <1>6, <2>2 DEF HandleEvent, Wanted, Present
<1>7. ASSUME NEW c \in Conns, HandleExited(c) \/ HubDrops(c) PROVE Goal
  BY <1>3, <1>7 DEF HandleExited, HubDrops, Disconnected, Dead
<1> QED
  <2>1. CASE UNCHANGED database \/ Talk \/ HubRestarts
    BY <1>2, <2>1 DEF Talk, HubRestarts
  <2>2. CASE \E q \in Requests : (\E op \in {"create", "resume", "delete"} : CheckRequest(q, op))
                                 \/ SendRequest(q)
    BY <1>2, <2>2 DEF CheckRequest, SendRequest
  <2>3. CASE \E c \in Conns, r \in Runs : StartSession(c, r) \/ StartFails(c, r)
    BY <1>2, <2>3 DEF StartSession, StartFails
  <2>4. CASE \E c \in Conns : KillSession(c) \/ TakeTalk(c) \/ Connect(c) \/ MachineDrops(c)
    BY <1>2, <2>4 DEF KillSession, TakeTalk, Connect, MachineDrops
  <2>5. ASSUME NEW r \in Runs,
               \/ SessionOpens(r) \/ SessionFails(r) \/ AgentDies(r) \/ Eof(r)
               \/ \E now \in {"working", "idle"} : EmitEvent(r, now)
        PROVE  Goal
    BY <1>2, <2>5 DEF SessionOpens, SessionFails, AgentDies, Eof, EmitEvent, ActorStep
  <2> QED
    BY <1>4, <1>5, <1>6, <1>7, <2>1, <2>2, <2>3, <2>4, <2>5 DEF Next

(* Requests that change the database.                                      *)
LEMMA FinishSteps ==
  ASSUME Types, CreatedOnce, NEW q \in Requests,
         FinishCreate(q) \/ FinishResume(q) \/ FinishDelete(q)
  PROVE  \/ /\ Doing(q, "create") /\ row = NoRow
            /\ row' = Row("starting", 0) /\ log' = log /\ seen' = seen
         \/ /\ Doing(q, "resume") /\ row' = WithStatus("starting") /\ log' = log /\ seen' = seen
         \/ /\ Doing(q, "delete") /\ row' = Deleted /\ log' = <<>> /\ seen' = 0
BY DEF Types, CreatedOnce, FinishCreate, FinishResume, FinishDelete, Finish, Doing,
       RequestSteps, IdleRequest, Resumed, LogDeleted

LEMMA NextCreated == ASSUME SessionInv, [Next]_vars PROVE CreatedOnce'
<1> USE DEF SessionInv
<1>1. CASE UNCHANGED vars
  BY <1>1 DEF CreatedOnce, Doing, vars, database, bounds, Present
<1>2. ASSUME NEW q \in Requests, NEW op \in Ops,
             CheckRequest(q, op)
      PROVE  CreatedOnce'
  <2>1. requests' # 0 /\ UNCHANGED <<row, log, seen>> /\ Present' = Present
    BY <1>2 DEF CheckRequest, database, Types, Present
  <2>2. request' = [request EXCEPT ![q] = [at |-> "checked", op |-> op]]
    BY <1>2 DEF CheckRequest
  <2>3. IF op = "create" THEN requests = 0 ELSE row # NoRow
    <3>1. CASE op = "create"
      BY <1>2, <3>1 DEF CheckRequest
    <3>2. CASE op = "resume"
      BY <1>2, <3>2 DEF CheckRequest, Present, NoRow
    <3>3. CASE op = "delete"
      BY <1>2, <3>3 DEF CheckRequest, Present, NoRow
    <3> QED BY <3>1, <3>2, <3>3 DEF Ops
  <2>4. \A p \in Requests : request'[p] = IF p = q THEN [at |-> "checked", op |-> op]
                                          ELSE request[p]
    BY <2>2 DEF Types
  <2>5. \A p \in Requests, o \in Ops :
          Doing(p, o)' <=> IF p = q THEN o = op ELSE Doing(p, o)
    BY <2>4 DEF Doing, RequestSteps, Ops
  <2>6. requests = 0 => \A p \in Requests : ~Doing(p, "create")
    BY DEF CreatedOnce, Doing, IdleRequest, RequestSteps
  <2> QED BY <2>1, <2>3, <2>4, <2>5, <2>6 DEF CreatedOnce, Ops
<1>3. ASSUME UNCHANGED requests,
             \A p \in Requests : \A o \in Ops : Doing(p, o)' => Doing(p, o),
             \A p \in Requests : request[p] = IdleRequest => request'[p] = IdleRequest,
             row' = row \/ (row' # NoRow /\ \A p \in Requests : ~Doing(p, "create")'),
             requests = 0 => row' = NoRow,
             ~Present' => log' = <<>> /\ seen' = 0
      PROVE  CreatedOnce'
  BY <1>3 DEF CreatedOnce, Ops
<1>4. ASSUME NEW q \in Requests, SendRequest(q) PROVE CreatedOnce'
  <2>1. request[q] \in RequestSteps
    BY <1>4 DEF SendRequest, Types, IdleRequest
  <2>2. \/ request' = [request EXCEPT ![q] = IdleRequest]
        \/ request' = [request EXCEPT ![q].at = "sent"]
    BY <1>4 DEF SendRequest, Types
  <2>3. \A p \in Requests : \A o \in Ops : Doing(p, o)' => Doing(p, o)
    <3>1. ASSUME NEW p \in Requests
          PROVE  /\ request'[p] \in {request[p], IdleRequest, [request[p] EXCEPT !.at = "sent"]}
                 /\ p # q => request'[p] = request[p]
      BY <2>2 DEF Types
    <3>2. [request[q] EXCEPT !.at = "sent"].op = request[q].op
      BY <2>1 DEF RequestSteps
    <3> SUFFICES ASSUME NEW p \in Requests, NEW o \in Ops, Doing(p, o)' PROVE Doing(p, o)
      OBVIOUS
    <3>3. CASE p = q
      BY <2>1, <3>1, <3>2, <3>3 DEF Doing, IdleRequest, RequestSteps
    <3> QED BY <3>1, <3>3 DEF Doing
  <2>4. \A p \in Requests : request[p] = IdleRequest => request'[p] = IdleRequest
    BY <2>1, <2>2 DEF Types, IdleRequest, RequestSteps
  <2>5. UNCHANGED <<row, log, seen, requests>> /\ Present' = Present
    BY <1>4 DEF SendRequest, database, bounds, Present
  <2> QED BY <1>3, <2>3, <2>4, <2>5 DEF CreatedOnce
<1>5. ASSUME NEW q \in Requests, FinishCreate(q) \/ FinishResume(q) \/ FinishDelete(q)
      PROVE  CreatedOnce'
  <2>1. request' = [request EXCEPT ![q] = IdleRequest] /\ UNCHANGED requests
    BY <1>5 DEF FinishCreate, FinishResume, FinishDelete, Finish, bounds
  <2>2. \A p \in Requests : \A o \in Ops : Doing(p, o)' => Doing(p, o) /\ p # q
    BY <2>1 DEF Doing, Types, IdleRequest, RequestSteps
  <2>3. \A p \in Requests : request[p] = IdleRequest => request'[p] = IdleRequest
    BY <2>1 DEF Types
  <2>4. requests # 0
    BY <1>5, FinishSteps DEF CreatedOnce, Doing, IdleRequest, RequestSteps
  <2>5. /\ row' = row \/ (row' # NoRow /\ \A p \in Requests : ~Doing(p, "create")')
        /\ ~Present' => log' = <<>> /\ seen' = 0
    <3>1. CASE Doing(q, "create") /\ row' = Row("starting", 0)
      BY <2>2, <3>1 DEF CreatedOnce, Present, Row, NoRow, Ops
    <3>2. CASE row' = WithStatus("starting") /\ log' = log /\ seen' = seen
      <4>1. (row' = row \/ Present') /\ Present' = Present
        BY <3>2, StatusKeeps DEF Types, Live, Present
      <4> QED BY <2>2, <3>2, <4>1, RowShapes DEF CreatedOnce, Present, NoRow, Ops
    <3>3. CASE Doing(q, "delete") /\ row' = Deleted /\ log' = <<>> /\ seen' = 0
      BY <2>2, <3>3 DEF CreatedOnce, NoRow, Deleted, Ops
    <3> QED BY <1>5, <3>1, <3>2, <3>3, FinishSteps
  <2> QED BY <1>3, <2>1, <2>2, <2>3, <2>4, <2>5
<1>6. ASSUME Next,
             ~ \E q \in Requests : FinishCreate(q) \/ FinishResume(q) \/ FinishDelete(q),
             requests' \in Nat, requests' >= requests,
             request' \in {request, [q \in Requests |-> IdleRequest]}
      PROVE  CreatedOnce'
  <2>1. /\ Present' = Present
        /\ ~Present => row' = row /\ log' = log /\ seen' = seen
    BY <1>6, DatabaseSteps
  <2>2. \A p \in Requests : \A o \in Ops : Doing(p, o)' => Doing(p, o)
    BY <1>6 DEF Doing, IdleRequest, RequestSteps
  <2>3. row = NoRow <=> row' = NoRow
    BY <2>1 DEF Present, NoRow
  <2>4. requests' = 0 => requests = 0 /\ \A q \in Requests : request'[q] = IdleRequest
    BY <1>6 DEF CreatedOnce, Types
  <2> QED BY <2>1, <2>2, <2>3, <2>4 DEF CreatedOnce, Ops
<1>7. ASSUME Next,
             ~ \E q \in Requests : \/ FinishCreate(q) \/ FinishResume(q) \/ FinishDelete(q)
                                   \/ SendRequest(q) \/ \E op \in Ops : CheckRequest(q, op)
      PROVE  /\ requests' \in Nat /\ requests' >= requests
             /\ request' \in {request, [q \in Requests |-> IdleRequest]}
  <2> USE DEF Types
  <2>1. CASE Talk \/ HubRestarts \/ (\E upTo \in Reports : MarkSeen(upTo))
    BY <2>1 DEF Talk, HubRestarts, MarkSeen
  <2>2. CASE \E c \in Conns : HandleUpdate(c) \/ HandleEvent(c) \/ HandleExited(c)
    BY <2>2 DEF HandleUpdate, HandleEvent, HandleExited, Receive, bounds
  <2>3. CASE \E c \in Conns : \/ KillSession(c) \/ TakeTalk(c) \/ Connect(c) \/ MachineDrops(c)
                             \/ HubDrops(c)
                             \/ \E r \in Runs : StartSession(c, r) \/ StartFails(c, r)
    <3> SUFFICES requests' = requests /\ request' = request
      OBVIOUS
    <3>1. CASE \E c \in Conns : KillSession(c) \/ TakeTalk(c) \/ Connect(c)
      BY <3>1 DEF KillSession, TakeTalk, Connect, bounds
    <3>2. CASE \E c \in Conns : MachineDrops(c) \/ HubDrops(c)
      BY <3>2 DEF MachineDrops, HubDrops, bounds
    <3>3. CASE \E c \in Conns, r \in Runs : StartSession(c, r) \/ StartFails(c, r)
      BY <3>3 DEF StartSession, StartFails, bounds
    <3> QED BY <2>3, <3>1, <3>2, <3>3
  <2>4. ASSUME NEW r \in Runs,
               \/ SessionOpens(r) \/ SessionFails(r) \/ AgentDies(r) \/ Eof(r)
               \/ \E now \in {"working", "idle"} : EmitEvent(r, now)
        PROVE  requests' = requests /\ request' = request
    BY <2>4 DEF SessionOpens, SessionFails, AgentDies, Eof, EmitEvent, ActorStep, bounds
  <2> QED BY <1>7, <2>1, <2>2, <2>3, <2>4 DEF Next, Ops
<1> QED BY <1>1, <1>2, <1>4, <1>5, <1>6, <1>7

-----------------------------------------------------------------------------
(* At most one agent not on its way out.                                   *)
Kept(r) == Running(r) /\ run[r].alive /\ ~run[r].kill
Held(r) == machineEnd[run[r].conn] = "open" /\ manager[run[r].conn] = r

LEMMA NextOneAgent == ASSUME SessionInv, [Next]_vars PROVE OneAgent'
<1> USE DEF SessionInv, Types
<1>1. OneAgent = \A r \in Runs : Kept(r) => Held(r)
  BY DEF OneAgent, Kept, Held
<1>2. CASE UNCHANGED <<run, manager, machineEnd>>
  BY <1>2 DEF OneAgent, Running
<1>3. ASSUME NEW c \in Conns, run' = Killed({manager[c]}),
             manager' = [manager EXCEPT ![c] = 0],
             \A b \in Conns : b # c => machineEnd'[b] = machineEnd[b]
      PROVE  OneAgent'
  <2> SUFFICES ASSUME NEW r \in Runs, Kept(r)' PROVE Held(r)'
    BY DEF OneAgent, Kept, Held
  <2>1. run[r] \in RunStates /\ run'[r] = run[r] /\ manager[c] # r
    BY <1>3 DEF Kept, Running, Killed, NoRun, RunStates
  <2>2. Held(r)
    BY <1>1, <2>1 DEF Kept, Running
  <2> QED BY <1>3, <2>1, <2>2 DEF Held, RunStates
<1>4. ASSUME NEW c \in Conns, NEW r \in Runs, StartSession(c, r) PROVE OneAgent'
  <2> SUFFICES ASSUME NEW s \in Runs, Kept(s)' PROVE Held(s)'
    BY DEF OneAgent, Kept, Held
  <2>1. CASE s = r
    BY <1>4, <2>1 DEF StartSession, TakeDown, Held, Killed
  <2>2. CASE s # r
    <3>1. run[s] \in RunStates /\ run'[s] = run[s] /\ manager[c] # s
      BY <1>4, <2>2 DEF StartSession, Kept, Running, Killed, NoRun, RunStates
    <3>2. Held(s)
      BY <1>1, <3>1 DEF Kept, Running
    <3> QED BY <1>4, <2>2, <3>1, <3>2 DEF StartSession, Held, RunStates
  <2> QED BY <2>1, <2>2
<1>5. ASSUME NEW c \in Conns, NEW r \in Runs, StartFails(c, r) PROVE OneAgent'
  <2> SUFFICES ASSUME NEW s \in Runs, Kept(s)' PROVE Held(s)'
    BY DEF OneAgent, Kept, Held
  <2>1. s # r
    BY <1>5 DEF StartFails, Kept, Killed
  <2>2. run[s] \in RunStates /\ run'[s] = run[s] /\ manager[c] # s
    BY <1>5, <2>1 DEF StartFails, Kept, Running, Killed, NoRun, RunStates
  <2>3. Held(s)
    BY <1>1, <2>2 DEF Kept, Running
  <2> QED BY <1>5, <2>2, <2>3 DEF StartFails, Held, RunStates
<1>6. ASSUME NEW c \in Conns, Connect(c) PROVE OneAgent'
  <2> SUFFICES ASSUME NEW r \in Runs, Kept(r)' PROVE Held(r)'
    BY DEF OneAgent, Kept, Held
  <2>1. Kept(r) /\ run' = run /\ run[r] \in RunStates
    BY <1>6 DEF Connect, Kept, Running, NoRun
  <2>2. Held(r) /\ run[r].conn \in Conns
    BY <1>1, <2>1 DEF RunStates
  <2> QED BY <1>6, <2>1, <2>2 DEF Connect, Held
<1>7. ASSUME NEW r \in Runs,
             \/ SessionOpens(r) \/ SessionFails(r) \/ AgentDies(r) \/ Eof(r)
             \/ \E now \in {"working", "idle"} : EmitEvent(r, now)
      PROVE  OneAgent'
  <2>1. PICK after : /\ run' = [run EXCEPT ![r] = after]
                     /\ after.conn = run[r].conn
                     /\ after.alive => run[r].alive
                     /\ after.kill = run[r].kill /\ Running(r)
    <3>1. run[r] \in RunStates
      BY <1>7 DEF SessionOpens, SessionFails, AgentDies, Eof, EmitEvent, NoRun
    <3> QED BY <1>7, <3>1 DEF SessionOpens, SessionFails, AgentDies, Eof, EmitEvent,
            ActorStep, Running, RunStates
  <2>2. UNCHANGED <<manager, machineEnd>>
    BY <1>7 DEF SessionOpens, SessionFails, AgentDies, Eof, EmitEvent, ActorStep
  <2> SUFFICES ASSUME NEW s \in Runs, Kept(s)' PROVE Held(s)'
    BY DEF OneAgent, Kept, Held
  <2>3. Kept(s) /\ run'[s].conn = run[s].conn
    BY <2>1 DEF Kept, Running
  <2> QED BY <1>1, <2>2, <2>3 DEF Held
<1> QED
  <2>1. CASE UNCHANGED vars \/ Talk \/ HubRestarts \/ (\E upTo \in Reports : MarkSeen(upTo))
    BY <1>2, <2>1 DEF vars, links, Talk, HubRestarts, MarkSeen
  <2>2. CASE \E q \in Requests : \/ FinishCreate(q) \/ FinishResume(q) \/ FinishDelete(q)
                                \/ SendRequest(q) \/ \E op \in Ops : CheckRequest(q, op)
    BY <1>2, <2>2 DEF FinishCreate, FinishResume, FinishDelete, Finish, SendRequest,
                      CheckRequest, links
  <2>3. CASE \E c \in Conns : HandleUpdate(c) \/ HandleEvent(c) \/ HandleExited(c)
    BY <1>2, <2>3 DEF HandleUpdate, HandleEvent, HandleExited, Receive
  <2>4. CASE \E c \in Conns : KillSession(c) \/ MachineDrops(c)
    BY <1>3, <2>4 DEF KillSession, MachineDrops
  <2>5. CASE \E c \in Conns : TakeTalk(c) \/ HubDrops(c)
    BY <1>2, <2>5 DEF TakeTalk, HubDrops
  <2> QED BY <1>4, <1>5, <1>6, <1>7, <2>1, <2>2, <2>3, <2>4, <2>5 DEF Next, Ops

-----------------------------------------------------------------------------
(* The log.                                                                *)

(* Every set of naturals has a least element, which Min chooses.           *)
LEMMA MinOfNaturals ==
  ASSUME NEW S \in SUBSET Nat, S # {}
  PROVE  Min(S) \in S /\ \A y \in S : Min(S) <= y
<1> DEFINE Less == {p \in Nat \X Nat : p[1] < p[2]}
<1>1. OpToRel(<, Nat) = Less
  BY Zenon DEF OpToRel
<1>2. IsWellFoundedOn(Less, Nat)
  BY <1>1, NatLessThanWellFounded
<1>3. PICK x \in S : \A y \in S : ~ (<<y, x>> \in Less)
  <2> HIDE DEF Less
  <2> QED BY <1>2, WFMin
<1>4. ASSUME NEW y \in S PROVE x <= y
  <2>1. CASE y < x
    <3>1. <<y, x>> \in Less
      BY <2>1
    <3> QED BY <1>3, <3>1
  <2>2. CASE ~(y < x)
    BY <2>2
  <2> QED BY <2>1, <2>2
<1> QED BY <1>3, <1>4 DEF Min

(* An entry past the end of an ordered log leaves it ordered when the log  *)
(* is trimmed, and is its last.                                            *)
LEMMA AppendedInOrder ==
  ASSUME log \in Seq(Entries), NEW entry \in Entries,
         \A i, j \in 1..Len(log) : i < j => log[i].seq < log[j].seq,
         \A i \in 1..Len(log) : log[i].seq < entry.seq
  PROVE  LET new == LogAppended(entry)
         IN  /\ new \in Seq(Entries) /\ new # <<>> /\ new[Len(new)] = entry
             /\ \A i, j \in 1..Len(new) : i < j => new[i].seq < new[j].seq
<1> DEFINE longer == Append(log, entry)
           n == Len(longer)
           newest == {i \in 1..n : longer[i].seq > entry.seq - History}
           first == Min(newest)
           new == SubSeq(longer, first, n)
<1>1. longer \in Seq(Entries) /\ n \in Nat /\ n = Len(log) + 1 /\ longer[n] = entry
      /\ \A i \in 1..Len(log) : longer[i] = log[i]
  BY AppendProperties
<1>2. \A i, j \in 1..n : i < j => longer[i].seq < longer[j].seq
  BY <1>1
<1>3. entry.seq > entry.seq - History
  BY BoundsAssumption DEF Entries
<1>4. newest \in SUBSET Nat /\ n \in newest
  BY <1>1, <1>3
<1>5. first \in 1..n
  <2>1. first \in newest
    BY <1>4, MinOfNaturals
  <2> QED BY <2>1
<1> HIDE DEF newest, first, longer
<1>6. /\ new \in Seq(Entries) /\ Len(new) = n - first + 1
      /\ \A i \in 1..n - first + 1 : new[i] = longer[first + i - 1]
  <2>1. \A i \in first..n : longer[i] \in Entries
    BY <1>1, <1>5
  <2> QED BY <1>1, <1>5, <2>1, SubSeqProperties
<1>7. new # <<>> /\ new[Len(new)] = entry
  BY <1>1, <1>5, <1>6
<1>8. ASSUME NEW i \in 1..Len(new), NEW j \in 1..Len(new), i < j
      PROVE  new[i].seq < new[j].seq
  <2>1. /\ first + i - 1 \in 1..n /\ first + j - 1 \in 1..n
        /\ first + i - 1 < first + j - 1
        /\ new[i] = longer[first + i - 1] /\ new[j] = longer[first + j - 1]
    BY <1>1, <1>5, <1>6, <1>8
  <2> QED BY <1>2, <2>1
<1>9. LogAppended(entry) = new
  BY DEF LogAppended, new, first, newest, longer
<1> QED
  <2> HIDE DEF new
  <2> QED BY <1>6, <1>7, <1>8, <1>9

LEMMA NextLog == ASSUME SessionInv, [Next]_vars PROVE OrderedLog'
<1> USE DEF SessionInv, Types
<1>1. Present => row.last \in Nat
  BY DEF Present, Rows, NoRow, Deleted
<1>2. CASE UNCHANGED log /\ Present' = Present /\ (Present => row'.last = row.last)
  BY <1>2 DEF OrderedLog, LogInOrder
<1>3. ASSUME NEW now \in Live \union Dead, row' \in {row, WithStatus(now)}, UNCHANGED log
      PROVE  OrderedLog'
  BY <1>2, <1>3, StatusKeeps
<1>4. ASSUME NEW q \in Requests, FinishCreate(q) \/ FinishResume(q) \/ FinishDelete(q)
      PROVE  OrderedLog'
  <2>1. CASE row = NoRow /\ row' = Row("starting", 0) /\ log' = log
    <3>1. log' = <<>> /\ row'.last = 0
      BY <2>1, RowShapes DEF CreatedOnce, Present, NoRow
    <3> QED BY <3>1 DEF OrderedLog, LogInOrder
  <2>2. CASE row' = WithStatus("starting") /\ log' = log
    BY <1>3, <2>2 DEF Live
  <2>3. CASE row' = Deleted /\ log' = <<>>
    BY <2>3 DEF OrderedLog, LogInOrder, Present, Deleted
  <2> QED BY <1>4, <2>1, <2>2, <2>3, FinishSteps
<1>5. ASSUME NEW c \in Conns, HandleEvent(c) PROVE OrderedLog'
  <2> DEFINE msg == Head(up[c])
             entry == [run |-> msg.run, seq |-> msg.seq]
  <2>1. CASE ~Wanted(msg)
    BY <1>2, <1>5, <2>1 DEF HandleEvent, database, Present
  <2>2. CASE Wanted(msg)
    <3>1. entry \in Entries /\ msg.seq > row.last /\ Present
      <4>1. msg \in Messages /\ msg.type = "event"
        BY <1>5, ReceiveType DEF HandleEvent, Receive
      <4>2. msg.run \in Runs /\ msg.seq \in Nat
        BY <4>1 DEF Messages
      <4> QED BY <2>2, <4>2 DEF Entries, Wanted
    <3>2. log' = LogAppended(entry) /\ row' = [row EXCEPT !.last = msg.seq]
      BY <1>5, <2>2, <3>1 DEF HandleEvent, Bumped
    <3>3. \A i \in 1..Len(log) : log[i].seq <= row.last
      <4> SUFFICES ASSUME NEW i \in 1..Len(log) PROVE log[i].seq <= row.last
        OBVIOUS
      <4>1. log # <<>> /\ Len(log) \in 1..Len(log) /\ log[i] \in Entries
        BY DEF OrderedLog
      <4>2. row.last = log[Len(log)].seq
        BY <3>1, <4>1 DEF OrderedLog, LogInOrder
      <4>3. i = Len(log) \/ log[i].seq < log[Len(log)].seq
        BY <4>1 DEF OrderedLog, LogInOrder
      <4> QED BY <1>1, <3>1, <4>1, <4>2, <4>3 DEF Entries
    <3>4. \A i \in 1..Len(log) : log[i].seq < entry.seq
      <4> SUFFICES ASSUME NEW i \in 1..Len(log) PROVE log[i].seq < msg.seq
        OBVIOUS
      <4>1. log[i] \in Entries
        BY DEF OrderedLog
      <4> QED BY <1>1, <3>1, <3>3, <4>1 DEF Entries
    <3>5. /\ log' \in Seq(Entries) /\ log' # <<>> /\ log'[Len(log')] = entry
          /\ \A i, j \in 1..Len(log') : i < j => log'[i].seq < log'[j].seq
      <4> HIDE DEF entry
      <4> QED BY <3>1, <3>2, <3>4, AppendedInOrder DEF OrderedLog, LogInOrder
    <3>6. row'.last = msg.seq
      BY <3>1, <3>2 DEF Present, Rows, NoRow, Deleted
    <3> QED BY <3>5, <3>6 DEF OrderedLog, LogInOrder
  <2> QED BY <2>1, <2>2
<1>6. ASSUME NEW c \in Conns, HandleUpdate(c) \/ HandleExited(c) \/ HubDrops(c)
      PROVE  OrderedLog'
  <2>1. CASE HandleUpdate(c)
    <3>1. Head(up[c]).status \in Live \union Dead
      BY <2>1, ReceiveType DEF HandleUpdate
    <3> QED BY <1>3, <2>1, <3>1 DEF HandleUpdate
  <2>2. CASE HandleExited(c) \/ HubDrops(c)
    BY <1>3, <2>2 DEF HandleExited, HubDrops, Disconnected, Dead
  <2> QED BY <1>6, <2>1, <2>2
<1>7. CASE UNCHANGED <<row, log>>
  BY <1>2, <1>7 DEF Present
<1> QED
  <2>1. CASE UNCHANGED vars \/ Talk \/ HubRestarts \/ (\E upTo \in Reports : MarkSeen(upTo))
    BY <1>7, <2>1 DEF vars, database, Talk, HubRestarts, MarkSeen
  <2>2. CASE \E q \in Requests : SendRequest(q) \/ \E op \in Ops : CheckRequest(q, op)
    BY <1>7, <2>2 DEF SendRequest, CheckRequest, database
  <2>3. CASE \E c \in Conns : \/ KillSession(c) \/ TakeTalk(c) \/ Connect(c) \/ MachineDrops(c)
                             \/ \E r \in Runs : StartSession(c, r) \/ StartFails(c, r)
    BY <1>7, <2>3 DEF KillSession, TakeTalk, Connect, MachineDrops, StartSession, StartFails,
                      database
  <2>4. CASE \E r \in Runs : \/ SessionOpens(r) \/ SessionFails(r) \/ AgentDies(r) \/ Eof(r)
                            \/ \E now \in {"working", "idle"} : EmitEvent(r, now)
    BY <1>7, <2>4 DEF SessionOpens, SessionFails, AgentDies, Eof, EmitEvent, ActorStep,
                      database
  <2> QED BY <1>4, <1>5, <1>6, <2>1, <2>2, <2>3, <2>4 DEF Next, Ops

-----------------------------------------------------------------------------
(* The invariant holds throughout, for every number of requests,           *)
(* connections and runs.                                                   *)
THEOREM SessionInvariant == Spec => []SessionInv
<1>1. SessionInv /\ [Next]_vars => SessionInv'
  BY NextTypes, NextCreated, NextOneAgent, NextLog DEF SessionInv
<1> QED BY <1>1, InitSessionInv, PTL DEF Spec

(* Every row, message and request has the shape the code gives it.         *)
THEOREM TypeCorrect == Spec => []TypeOK
<1>1. SessionInv => TypeOK
  BY DEF SessionInv, Types, TypeOK, OrderedLog, Entries
<1> QED BY <1>1, SessionInvariant, PTL

(* No two agents work on a session's directory unless one has been sent a  *)
(* Kill.                                                                   *)
THEOREM OneAgentAtMost == Spec => []OneAgent
  BY SessionInvariant, PTL DEF SessionInv

(* The log ascends and ends at the row's watermark, although runs that      *)
(* overlap or are resumed number their events from 1 independently.        *)
THEOREM TranscriptInOrder == Spec => []LogInOrder
  BY SessionInvariant, PTL DEF SessionInv, OrderedLog

(* A deleted session stays deleted, whatever was under way when it was.    *)
THEOREM DeletionIsFinal == Spec => DeletedStays
<1>1. SessionInv /\ [Next]_vars
        => [/\ row = Deleted => row' = Deleted
            /\ row' = Deleted => log' = <<>> /\ seen' = 0]_vars
  <2> SUFFICES ASSUME SessionInv, Next
               PROVE  /\ row = Deleted => row' = Deleted
                      /\ row' = Deleted => log' = <<>> /\ seen' = 0
    OBVIOUS
  <2>1. row' = Deleted => log' = <<>> /\ seen' = 0
    BY NextCreated DEF CreatedOnce, Present, Deleted
  <2>2. ASSUME NEW q \in Requests, FinishCreate(q) \/ FinishResume(q) \/ FinishDelete(q),
               row = Deleted
        PROVE  row' = Deleted
    BY <2>2, FinishSteps DEF SessionInv, WithStatus, Present, Deleted, NoRow
  <2>3. CASE ~ \E q \in Requests : FinishCreate(q) \/ FinishResume(q) \/ FinishDelete(q)
    BY <2>1, <2>3, DatabaseSteps DEF SessionInv, Present, Deleted
  <2> QED BY <2>1, <2>2, <2>3
<1> QED BY <1>1, SessionInvariant, PTL DEF Spec, DeletedStays

-----------------------------------------------------------------------------
(* The actor of one run.                                                   *)

\* SessionActor's working state, as Execute passes it on.
RpcSets == SUBSET [id : Nat, kind : Kinds]
Log == Seq(Commands)
Marks == SUBSET Nat
Work == [seq : Nat, status : Statuses, pending : RpcSets, nextId : Nat, supports : BOOLEAN,
         question : Nat, ran : Log, refused : Marks]

\* What executing commands makes of w: requests are added, none of them the
\* handshake's, and no command is forgotten.
Onward(w, v) ==
  /\ v \in Work /\ v.question \in {0, w.question}
  /\ w.nextId <= v.nextId
  /\ w.pending \subseteq v.pending
  /\ \A rpc \in v.pending \ w.pending :
       rpc.kind \notin Handshakes /\ w.nextId <= rpc.id /\ rpc.id < v.nextId
  /\ Numbers(w.ran) \subseteq Numbers(v.ran) /\ w.refused \subseteq v.refused

HandshakeIn(S) == {rpc \in S : rpc.kind \in Handshakes}

\* One step of the handshake is under way at a time, until there is a session
\* or a failure; watchdogs are on such steps only.
OneHandshake ==
  /\ \A rpc \in pending : rpc.id < nextId
  /\ \A id \in watched : id < nextId
  /\ \A rpc \in pending : rpc.id \in watched => rpc.kind \in Handshakes
  /\ \A p, q \in HandshakeIn(pending) : p = q
  /\ acp \/ failed => HandshakeIn(pending) = {}

\* The queue is held back for a request that is out, or for none when the
\* agent named no session; never during the handshake.
HeldForModel ==
  /\ holding => HandshakeIn(pending) = {}
  /\ acp /\ holding => \E rpc \in pending : rpc.kind = "set_model"
  /\ acp /\ queue # <<>> => holding

ActorInv == ActorTypeOK /\ OneHandshake /\ HeldForModel /\ NothingLost

LEMMA InitActorInv == ActorInit => ActorInv
<1> SUFFICES ASSUME ActorInit PROVE ActorInv
  OBVIOUS
<1> USE DEF ActorInit, Begun, Rpc
<1>1. ActorTypeOK
  <2>1. /\ pending = {[id |-> 1, kind |-> "initialize"]} /\ watched \in SUBSET Nat
        /\ nextId = 2 /\ queue = <<>> /\ cmds = <<>> /\ ran = <<>> /\ status = "starting"
    OBVIOUS
  <2>2. pending \in SUBSET [id : Nat, kind : Kinds] /\ status \in Statuses
    BY <2>1 DEF Kinds, Handshakes, Statuses
  <2>3. start \in Starts /\ asks = 0 /\ says = 0 /\ sent = 0 /\ seq = 0 /\ question = 0 /\ refused = {}
    OBVIOUS
  <2>4. {acp, failed, holding, supports, alive, ended, exited} \subseteq BOOLEAN
    OBVIOUS
  <2> HIDE DEF ActorInit
  <2> QED BY <2>1, <2>2, <2>3, <2>4 DEF ActorTypeOK
<1>2. OneHandshake
  <2>1. pending = {[id |-> 1, kind |-> "initialize"]} /\ watched \subseteq {1} /\ nextId = 2
        /\ ~acp /\ ~failed
    OBVIOUS
  <2> QED BY <2>1 DEF OneHandshake, HandshakeIn, Handshakes
<1>3. HeldForModel
  BY DEF HeldForModel
<1>4. NothingLost
  BY DEF NothingLost
<1> QED BY <1>1, <1>2, <1>3, <1>4 DEF ActorInv

(* The numbers of a queue that grows at its end or is taken from its head. *)
LEMMA NumbersAppended ==
  ASSUME NEW s \in Seq(Commands), NEW c \in Commands
  PROVE  Append(s, c) \in Seq(Commands) /\ Numbers(Append(s, c)) = Numbers(s) \union {c.n}
BY DEF Numbers

LEMMA NumbersTaken ==
  ASSUME NEW s \in Seq(Commands), s # <<>>
  PROVE  /\ Head(s) \in Commands /\ Tail(s) \in Seq(Commands)
         /\ Numbers(s) = Numbers(Tail(s)) \union {Head(s).n}
<1>1. Numbers(s) \subseteq Numbers(Tail(s)) \union {Head(s).n}
  <2> SUFFICES ASSUME NEW i \in 1..Len(s), i # 1
               PROVE  s[i].n \in Numbers(Tail(s))
    BY DEF Numbers
  <2>1. i - 1 \in 1..Len(Tail(s)) /\ Tail(s)[i - 1] = s[i]
    OBVIOUS
  <2> QED BY <2>1 DEF Numbers
<1>2. Numbers(Tail(s)) \union {Head(s).n} \subseteq Numbers(s)
  <2>1. ASSUME NEW i \in 1..Len(Tail(s)) PROVE i + 1 \in 1..Len(s) /\ Tail(s)[i] = s[i + 1]
    OBVIOUS
  <2> QED BY <2>1 DEF Numbers
<1> QED BY <1>1, <1>2

(* The working state keeps its type as its fields are written.             *)
LEMMA WorkRequested ==
  ASSUME NEW w \in Work, NEW p \in RpcSets, NEW n \in Nat
  PROVE  [w EXCEPT !.pending = p, !.nextId = n] \in Work
BY DEF Work

LEMMA WorkReported ==
  ASSUME NEW w \in Work, NEW s \in Nat, NEW now \in Statuses
  PROVE  /\ [w EXCEPT !.seq = s, !.status = now] \in Work
         /\ [w EXCEPT !.question = 0, !.seq = s, !.status = now] \in Work
<1>1. [w EXCEPT !.seq = s, !.status = now] \in Work
  BY DEF Work
<1>2. [w EXCEPT !.question = 0, !.seq = s, !.status = now] \in Work
  BY DEF Work
<1> QED BY <1>1, <1>2

LEMMA WorkRefused ==
  ASSUME NEW w \in Work, NEW s \in Nat, NEW r \in Marks
  PROVE  [w EXCEPT !.seq = s, !.refused = r] \in Work
BY DEF Work

LEMMA NumbersStayNatural ==
  ASSUME NEW w \in Work
  PROVE  w.seq + 1 \in Nat /\ w.nextId + 1 \in Nat /\ "working" \in Statuses
<1>1. w.seq \in Nat /\ w.nextId \in Nat
  BY DEF Work
<1> QED BY <1>1 DEF Statuses

(* Adding no request, or one, goes onward; so do two steps that do.        *)
LEMMA QuietOnward ==
  ASSUME NEW w \in Work, NEW v \in Work, v.pending = w.pending, v.nextId = w.nextId,
         v.question \in {0, w.question},
         Numbers(w.ran) \subseteq Numbers(v.ran), w.refused \subseteq v.refused
  PROVE  Onward(w, v)
BY DEF Onward, Work, RpcSets, Log, Marks

LEMMA RequestOnward ==
  ASSUME NEW w \in Work, NEW kind \in {"set_model", "prompt"}
  PROVE  Onward(w, Request(w, kind)) /\ Request(w, kind).ran = w.ran
<1>1. Request(w, kind) = [w EXCEPT !.pending = w.pending \union {Rpc(w.nextId, kind)}, !.nextId = w.nextId + 1]
  BY DEF Request
<1>2. Rpc(w.nextId, kind) \in [id : Nat, kind : Kinds]
  BY DEF Rpc, Kinds, Work
<1>3. kind \notin Handshakes
  BY DEF Handshakes
<1> DEFINE v == Request(w, kind)
           sent1 == Rpc(w.nextId, kind)
<1>4. w.pending \union {sent1} \in RpcSets /\ w.nextId \in Nat
  BY <1>2 DEF Work, RpcSets
<1>5. /\ v.pending = w.pending \union {sent1} /\ v.nextId = w.nextId + 1
      /\ v.question = w.question /\ v.ran = w.ran /\ v.refused = w.refused
  BY <1>1 DEF Work
<1>6. v \in Work
  BY <1>1, <1>4, WorkRequested, NumbersStayNatural
<1>7. sent1.id = w.nextId /\ sent1.kind = kind
  BY DEF Rpc
<1> HIDE DEF v, sent1
<1>8. Onward(w, v)
  BY <1>3, <1>4, <1>5, <1>6, <1>7 DEF Onward
<1> QED BY <1>5, <1>8 DEF v

LEMMA OnwardTransitive ==
  ASSUME NEW u \in Work, NEW v, NEW w, Onward(u, v), Onward(v, w)
  PROVE  Onward(u, w)
<1>1. ASSUME NEW rpc \in w.pending \ u.pending
      PROVE  rpc.kind \notin Handshakes /\ u.nextId <= rpc.id /\ rpc.id < w.nextId
  <2>1. u.nextId \in Nat /\ v.nextId \in Nat /\ w.nextId \in Nat /\ rpc.id \in Nat
    BY DEF Onward, Work, RpcSets, Log, Marks
  <2> QED BY <1>1, <2>1 DEF Onward
<1> QED BY <1>1 DEF Onward, Work, RpcSets, Log, Marks

(* Executing a command notes it and adds at most a request to the agent.   *)
LEMMA ExecuteOnward ==
  ASSUME NEW w \in Work, NEW c \in Commands
  PROVE  Onward(w, Execute(w, c)) /\ c.n \in Numbers(Execute(w, c).ran)
<1> DEFINE done == [w EXCEPT !.ran = Append(@, c)]
<1>1. done \in Work /\ done.ran = Append(w.ran, c) /\ Onward(w, done)
  <2>1. Append(w.ran, c) \in Seq(Commands) /\ Numbers(Append(w.ran, c)) = Numbers(w.ran) \union {c.n}
    BY NumbersAppended DEF Work, Log
  <2>2. done \in Work
    BY <2>1 DEF Work, Log
  <2>3. /\ done.pending = w.pending /\ done.nextId = w.nextId /\ done.question = w.question
        /\ done.ran = Append(w.ran, c) /\ done.refused = w.refused
    BY DEF Work
  <2> HIDE DEF done
  <2> QED BY <2>1, <2>2, <2>3, QuietOnward
<1>2. c.n \in Numbers(done.ran)
  BY <1>1, NumbersAppended DEF Work, Log
<1> HIDE DEF done
<1>3. ASSUME NEW v, Onward(done, v), v.ran = done.ran, Execute(w, c) = v
      PROVE  Onward(w, Execute(w, c)) /\ c.n \in Numbers(Execute(w, c).ran)
  BY <1>1, <1>2, <1>3, OnwardTransitive
<1>4. CASE c.op = "prompt"
  <2>1. Execute(w, c) = Prompt(done, c)
    BY <1>4 DEF Execute, done
  <2> DEFINE asked == Request(done, "prompt")
  <2>2. Onward(done, asked) /\ asked.ran = done.ran
    BY <1>1, RequestOnward
  <2> HIDE DEF asked
  <2>3. Prompt(done, c) = [asked EXCEPT !.seq = @ + 1, !.status = "working"]
    BY DEF Prompt, asked
  <2>4. Onward(done, Prompt(done, c)) /\ Prompt(done, c).ran = done.ran
    <3> DEFINE v == Prompt(done, c)
    <3>1. asked \in Work
      BY <2>2 DEF Onward
    <3>2. v \in Work
      <4>1. asked.seq + 1 \in Nat /\ "working" \in Statuses
        BY <3>1, NumbersStayNatural
      <4>2. [asked EXCEPT !.seq = asked.seq + 1, !.status = "working"] \in Work
        BY <3>1, <4>1, WorkReported
      <4> QED BY <2>3, <4>2
    <3>3. /\ v.pending = asked.pending /\ v.nextId = asked.nextId /\ v.question = asked.question
          /\ v.ran = asked.ran /\ v.refused = asked.refused
      BY <2>3, <3>1 DEF Work
    <3> HIDE DEF v
    <3>4. Onward(asked, v)
      BY <3>1, <3>2, <3>3, QuietOnward
    <3> QED BY <1>1, <2>2, <3>3, <3>4, OnwardTransitive DEF v
  <2> QED BY <1>3, <2>1, <2>4
<1>5. CASE c.op = "answer"
  <2>1. Execute(w, c) = Answer(done, c)
    BY <1>5 DEF Execute, done
  <2>2. Onward(done, Answer(done, c)) /\ Answer(done, c).ran = done.ran
    <3> DEFINE v == Answer(done, c)
    <3>1. v \in Work
      BY <1>1, WorkReported, NumbersStayNatural DEF Answer
    <3>2. /\ v.pending = done.pending /\ v.nextId = done.nextId /\ v.question \in {0, done.question}
          /\ v.ran = done.ran /\ v.refused = done.refused
      BY <1>1 DEF Work, Answer
    <3> HIDE DEF v
    <3>3. Onward(done, v)
      BY <1>1, <3>1, <3>2, QuietOnward
    <3> QED BY <3>2, <3>3 DEF v
  <2> QED BY <1>3, <2>1, <2>2
<1>6. CASE c.op = "model"
  <2>1. Execute(w, c) = SetModel(done, c)
    BY <1>6 DEF Execute, done
  <2>2. Onward(done, SetModel(done, c)) /\ SetModel(done, c).ran = done.ran
    <3>1. CASE done.supports
      BY <1>1, <3>1, RequestOnward DEF SetModel
    <3>2. CASE ~done.supports
      <4>1. c.n \in Nat
        BY DEF Commands
      <4> DEFINE v == SetModel(done, c)
      <4>2. v \in Work
        <5>1. done.refused \union {c.n} \in Marks
          BY <1>1, <4>1 DEF Work, Marks
        <5> QED BY <1>1, <3>2, <5>1, WorkRefused, NumbersStayNatural DEF SetModel
      <4>3. /\ v.pending = done.pending /\ v.nextId = done.nextId /\ v.question = done.question
            /\ v.ran = done.ran /\ v.refused = done.refused \union {c.n}
        BY <1>1, <3>2 DEF Work, SetModel
      <4> HIDE DEF v
      <4>4. Onward(done, v)
        BY <1>1, <4>2, <4>3, QuietOnward
      <4> QED BY <4>3, <4>4 DEF v
    <3> QED BY <3>1, <3>2
  <2> QED BY <1>3, <2>1, <2>2
<1>7. CASE c.op \notin {"prompt", "answer", "model"}
  <2>1. Execute(w, c) = done
    BY <1>7 DEF Execute, done
  <2>2. Onward(done, done)
    BY <1>1 DEF Onward, Work, RpcSets, Log, Marks
  <2> QED BY <1>3, <2>1, <2>2
<1> QED BY <1>4, <1>5, <1>6, <1>7

(* Induction over the naturals, by sets.                                   *)
LEMMA Induction ==
  ASSUME NEW S \in SUBSET Nat, 0 \in S, \A n \in S : n + 1 \in S
  PROVE  S = Nat
<1> SUFFICES ASSUME Nat \ S # {} PROVE FALSE
  OBVIOUS
<1> DEFINE Less == {p \in Nat \X Nat : p[1] < p[2]}
<1>1. OpToRel(<, Nat) = Less
  BY Zenon DEF OpToRel
<1>2. IsWellFoundedOn(Less, Nat)
  BY <1>1, NatLessThanWellFounded
<1>3. PICK x \in Nat \ S : \A y \in Nat \ S : ~ (<<y, x>> \in Less)
  <2> HIDE DEF Less
  <2> QED BY <1>2, WFMin
<1>4. x # 0 /\ x - 1 \in Nat
  BY <1>3
<1>5. <<x - 1, x>> \in Less
  BY <1>4
<1>6. x - 1 \in S
  BY <1>3, <1>4, <1>5
<1> QED BY <1>3, <1>4, <1>6

(* The flush runs the queue: each command on what the one before it made   *)
(* of the actor.                                                           *)
LEMMA FlushSteps ==
  ASSUME NEW w, queue \in Seq(Commands)
  PROVE  \E f : /\ f[0] = w /\ Flushed(w) = f[Len(queue)]
                /\ \A i \in 1..Len(queue) : f[i] = Execute(f[i - 1], queue[i])
<1> DEFINE Step(f, n) == [i \in 0..n |-> IF i = 0 THEN w ELSE Execute(f[i - 1], queue[i])]
           S == {n \in Nat : \E f : f = Step(f, n)}
<1>1. 0 \in S
  <2> DEFINE g == [i \in 0..0 |-> w]
  <2>1. g = Step(g, 0)
    OBVIOUS
  <2> QED BY <2>1
<1>2. ASSUME NEW n \in S PROVE n + 1 \in S
  <2>1. PICK g : g = Step(g, n)
    OBVIOUS
  <2> DEFINE f == [i \in 0..n + 1 |-> IF i <= n THEN g[i] ELSE Execute(g[n], queue[n + 1])]
  <2>2. \A i \in 0..n : g[i] = IF i = 0 THEN w ELSE Execute(g[i - 1], queue[i])
    BY <2>1
  <2> HIDE DEF S
  <2>3. n \in Nat
    BY DEF S
  <2>4. ASSUME NEW i \in 0..n + 1
        PROVE  f[i] = IF i = 0 THEN w ELSE Execute(f[i - 1], queue[i])
    <3>1. CASE i = 0
      BY <2>2, <2>3, <3>1
    <3>2. CASE i \in 1..n
      <4>1. i <= n /\ i - 1 <= n /\ i - 1 \in 0..n + 1 /\ i \in 0..n /\ i # 0
        BY <2>3, <3>2
      <4> QED BY <2>2, <4>1
    <3>3. CASE i = n + 1
      <4>1. ~(i <= n) /\ i - 1 = n /\ n \in 0..n + 1 /\ i # 0
        BY <2>3, <3>3
      <4> QED BY <3>3, <4>1
    <3> QED BY <2>3, <3>1, <3>2, <3>3
  <2>5. f = Step(f, n + 1)
    BY <2>4
  <2> HIDE DEF f, Step
  <2>6. \E h : h = Step(h, n + 1)
    BY ONLY <2>5, Zenon
  <2>7. n + 1 \in Nat
    BY ONLY <2>3
  <2> QED BY ONLY <2>6, <2>7 DEF S
<1>3. Len(queue) \in S
  <2> HIDE DEF S
  <2>1. S \in SUBSET Nat
    BY DEF S
  <2>2. S = Nat
    BY <1>1, <1>2, <2>1, Induction
  <2> QED BY <2>2
<1> DEFINE r == CHOOSE f : f = Step(f, Len(queue))
<1>4. r = Step(r, Len(queue))
  <2>1. \E f : f = Step(f, Len(queue))
    BY <1>3
  <2> QED BY <2>1, Zenon
<1>5. Flushed(w) = r[Len(queue)]
  BY DEF Flushed
<1> HIDE DEF r
<1>6. r[0] = w /\ \A i \in 1..Len(queue) : r[i] = Execute(r[i - 1], queue[i])
  BY <1>4
<1> QED BY <1>5, <1>6

(* ... and forgets none.                                                   *)
LEMMA FlushOnward ==
  ASSUME NEW w \in Work, queue \in Seq(Commands)
  PROVE  Onward(w, Flushed(w)) /\ Numbers(queue) \subseteq Numbers(Flushed(w).ran)
<1>1. PICK f : /\ f[0] = w /\ Flushed(w) = f[Len(queue)]
               /\ \A i \in 1..Len(queue) : f[i] = Execute(f[i - 1], queue[i])
  BY FlushSteps
<1> DEFINE Ran(n) == Onward(w, f[n]) /\ \A i \in 1..n : queue[i].n \in Numbers(f[n].ran)
           S == {n \in Nat : n <= Len(queue) => Ran(n)}
<1>2. 0 \in S
  <2>1. Onward(w, w)
    BY DEF Onward, Work
  <2> QED BY <1>1, <2>1
<1>3. ASSUME NEW n \in S PROVE n + 1 \in S
  <2> SUFFICES ASSUME n + 1 <= Len(queue) PROVE Ran(n + 1)
    OBVIOUS
  <2> DEFINE v == f[n]
             c == queue[n + 1]
  <2>1. n \in Nat /\ n + 1 \in 1..Len(queue) /\ Len(queue) \in Nat /\ c \in Commands
    OBVIOUS
  <2>2. Onward(w, v) /\ \A i \in 1..n : queue[i].n \in Numbers(v.ran)
    BY <2>1
  <2>3. v \in Work /\ f[n + 1] = Execute(v, c)
    BY <1>1, <2>1, <2>2 DEF Onward
  <2>4. Onward(v, f[n + 1]) /\ c.n \in Numbers(f[n + 1].ran)
    <3> HIDE DEF c, v
    <3> QED BY <2>1, <2>3, ExecuteOnward
  <2>5. Onward(w, f[n + 1])
    BY <2>2, <2>4, OnwardTransitive
  <2>6. Numbers(v.ran) \subseteq Numbers(f[n + 1].ran)
    BY <2>4 DEF Onward
  <2>7. ASSUME NEW i \in 1..n + 1 PROVE queue[i].n \in Numbers(f[n + 1].ran)
    <3>1. i \in 1..n \/ i = n + 1
      BY <2>1
    <3> QED BY <2>2, <2>4, <2>6, <3>1
  <2> QED BY <2>5, <2>7
<1>4. Ran(Len(queue))
  <2> HIDE DEF Ran
  <2>1. S \in SUBSET Nat
    OBVIOUS
  <2>2. S = Nat
    <3> HIDE DEF S
    <3> QED BY <1>2, <1>3, <2>1, Induction
  <2>3. Len(queue) \in Nat
    OBVIOUS
  <2> QED BY <2>2, <2>3
<1> DEFINE v == f[Len(queue)]
<1>5. Onward(w, v) /\ Numbers(queue) \subseteq Numbers(v.ran)
  <2>1. Onward(w, v) /\ \A i \in 1..Len(queue) : queue[i].n \in Numbers(v.ran)
    BY <1>4
  <2> HIDE DEF v
  <2>2. Numbers(queue) = {queue[i].n : i \in 1..Len(queue)}
    BY DEF Numbers
  <2> QED BY <2>1, <2>2
<1> HIDE DEF v
<1>6. Flushed(w) = v
  BY <1>1 DEF v
<1> QED BY <1>5, <1>6

\* The working state a handler starts from: some request may be answered.
Follows(u) ==
  /\ u \in Work /\ u.nextId = nextId /\ u.pending \subseteq pending
  /\ u.question = question /\ u.ran = ran /\ u.refused = refused

(* A handler starts from the actor's state, less the request answered.     *)
LEMMA NowFollows ==
  ASSUME ActorTypeOK
  PROVE  /\ Follows(Now)
         /\ \A rpc : /\ Follows(Answered(Now, rpc)) /\ Answered(Now, rpc).pending = pending \ {rpc}
<1> DEFINE now == Now
<1>1. /\ now.pending = pending /\ now.nextId = nextId /\ now.question = question
      /\ now.ran = ran /\ now.refused = refused
  BY DEF Now
<1>2. now \in Work
  <2>1. /\ pending \in RpcSets /\ ran \in Log /\ refused \in Marks /\ supports \in BOOLEAN
        /\ seq \in Nat /\ status \in Statuses /\ nextId \in Nat /\ question \in Nat
    BY DEF ActorTypeOK, RpcSets, Log, Marks
  <2> QED BY <2>1 DEF Now, Work
<1>3. Follows(Now)
  BY <1>1, <1>2 DEF Follows
<1> HIDE DEF now
<1>4. ASSUME NEW rpc
      PROVE  /\ Follows(Answered(Now, rpc)) /\ Answered(Now, rpc).pending = pending \ {rpc}
  <2> DEFINE u == Answered(Now, rpc)
  <2>1. u = [now EXCEPT !.pending = pending \ {rpc}]
    BY <1>1 DEF Answered, now
  <2>2. pending \ {rpc} \in RpcSets
    BY DEF ActorTypeOK, RpcSets
  <2>3. u \in Work
    BY <1>2, <2>1, <2>2 DEF Work
  <2>4. /\ u.pending = pending \ {rpc} /\ u.nextId = nextId /\ u.question = question
        /\ u.ran = ran /\ u.refused = refused
    BY <1>1, <1>2, <2>1 DEF Work
  <2> HIDE DEF u
  <2>5. Follows(u) /\ u.pending = pending \ {rpc}
    BY <2>3, <2>4 DEF Follows
  <2> QED BY <2>5 DEF u
<1> QED BY <1>3, <1>4

\* What a handler that executes commands leaves.
Worked ==
  /\ seq' \in Nat /\ status' \in Statuses /\ pending' \in SUBSET [id : Nat, kind : Kinds]
  /\ nextId' \in Nat /\ supports' \in BOOLEAN /\ question' \in {0, question}
  /\ ran' \in Seq(Commands) /\ refused' \in SUBSET Nat
  /\ Numbers(ran) \subseteq Numbers(ran') /\ refused \subseteq refused'

(* Executing commands disturbs neither types nor the handshake.            *)
LEMMA AfterWork ==
  ASSUME ActorTypeOK, OneHandshake, NEW u, Follows(u), NEW v, Onward(u, v), Become(v),
         UNCHANGED <<watched, failed>>, acp' \/ failed => HandshakeIn(u.pending) = {}
  PROVE  OneHandshake' /\ Worked /\ u.pending \subseteq pending'
<1>1. v \in Work /\ u \in Work
  BY DEF Onward, Follows
<1>2. /\ seq' = v.seq /\ status' = v.status /\ pending' = v.pending /\ nextId' = v.nextId
      /\ supports' = v.supports /\ question' = v.question /\ ran' = v.ran /\ refused' = v.refused
  BY DEF Become
<1>3. Worked
  BY <1>1, <1>2 DEF Work, RpcSets, Log, Marks, Onward, Follows, Worked
<1>4. /\ nextId <= nextId' /\ u.pending \subseteq pending' /\ u.pending \subseteq pending
      /\ \A rpc \in pending' \ u.pending :
           rpc.kind \notin Handshakes /\ nextId <= rpc.id /\ rpc.id < nextId'
  BY <1>2 DEF Onward, Follows
<1>5. nextId \in Nat /\ nextId' \in Nat /\ watched \subseteq Nat
      /\ \A rpc \in pending \union pending' : rpc.id \in Nat
  BY <1>3 DEF ActorTypeOK, Worked
<1>6. \A rpc \in pending' : rpc.id < nextId'
  BY <1>4, <1>5 DEF OneHandshake
<1>7. \A id \in watched' : id < nextId'
  BY <1>4, <1>5 DEF OneHandshake
<1>8. \A rpc \in pending' : rpc.id \in watched' => rpc.kind \in Handshakes
  BY <1>4, <1>5 DEF OneHandshake
<1>9. HandshakeIn(pending') = HandshakeIn(u.pending) /\ HandshakeIn(u.pending) \subseteq HandshakeIn(pending)
  BY <1>4 DEF HandshakeIn
<1>10. /\ \A p, q \in HandshakeIn(pending') : p = q
       /\ acp' \/ failed' => HandshakeIn(pending') = {}
  BY <1>9 DEF OneHandshake
<1>11. OneHandshake'
  <2>1. HandshakeIn(pending)' = HandshakeIn(pending')
    BY DEF HandshakeIn
  <2> QED BY <1>6, <1>7, <1>8, <1>10, <2>1 DEF OneHandshake
<1> QED BY <1>3, <1>4, <1>11

LEMMA CommandTaken ==
  ASSUME ActorTypeOK, TakeCommand
  PROVE  /\ Head(cmds) \in Commands /\ Head(cmds).n \in Nat /\ cmds' \in Seq(Commands)
         /\ Numbers(cmds) = Numbers(cmds') \union {Head(cmds).n}
<1>1. cmds \in Seq(Commands) /\ cmds # <<>> /\ cmds' = Tail(cmds)
  BY DEF ActorTypeOK, TakeCommand
<1>2. \A c \in Commands : c.n \in Nat
  BY DEF Commands
<1> QED BY <1>1, <1>2, NumbersTaken

\* What a step may leave of the commands: none that the actor took is lost.
Safekept ==
  alive' /\ ~failed' =>
    /\ alive /\ ~failed
    /\ (1..sent') \subseteq (1..sent) \union Numbers(cmds')
    /\ Numbers(cmds) \union Numbers(ran) \union Numbers(queue) \union refused
         \subseteq Numbers(cmds') \union Numbers(ran') \union Numbers(queue') \union refused'

LEMMA SafekeptLosesNone ==
  ASSUME NothingLost, Safekept
  PROVE  NothingLost'
<1>1. Numbers(cmds)' = Numbers(cmds') /\ Numbers(ran)' = Numbers(ran') /\ Numbers(queue)' = Numbers(queue')
  BY DEF Numbers
<1> QED BY <1>1 DEF NothingLost, Safekept

(* Each handler keeps the invariant.                                       *)
LEMMA ForwardInv ==
  ASSUME ActorInv, NEW op \in {"prompt", "answer", "model", "cancel", "kill"}, NEW to \in Nat,
         Forward(op, to)
  PROVE  ActorInv'
<1> USE DEF ActorInv
<1> DEFINE c == [op |-> op, n |-> sent + 1, to |-> to]
<1>1. c \in Commands /\ c.n = sent + 1 /\ sent \in Nat
  BY DEF Commands, ActorTypeOK
<1>2. cmds' = Append(cmds, c) /\ sent' = sent + 1
      /\ UNCHANGED <<start, pending, nextId, watched, acp, failed, holding, supports, queue, question,
                     alive, ended, exited, seq, status, asks, says, ran, refused>>
  BY DEF Forward, handshake, report, spoken, past
<1> HIDE DEF c
<1>3. cmds' \in Seq(Commands) /\ Numbers(cmds') = Numbers(cmds) \union {sent + 1}
  BY <1>1, <1>2, NumbersAppended DEF ActorTypeOK
<1>4. ActorTypeOK'
  BY <1>1, <1>2, <1>3 DEF ActorTypeOK
<1>5. OneHandshake' /\ HeldForModel'
  BY <1>2 DEF OneHandshake, HeldForModel, HandshakeIn
<1>6. Safekept
  <2>1. 1..sent + 1 = (1..sent) \union {sent + 1}
    BY <1>1
  <2> QED BY <1>2, <1>3, <2>1 DEF Safekept
<1> QED BY <1>4, <1>5, <1>6, SafekeptLosesNone

LEMMA KillInv == ASSUME ActorInv, HandleKill PROVE ActorInv'
<1> USE DEF ActorInv
<1>1. /\ queue' = <<>> /\ ~alive' /\ question' = 0
      /\ UNCHANGED <<start, pending, nextId, watched, acp, failed, holding, supports,
                     ended, exited, seq, status, asks, says, sent, ran, refused>>
  BY DEF HandleKill, KillNow, handshake, report, spoken, past
<1>2. cmds' \in Seq(Commands)
  BY CommandTaken DEF HandleKill
<1>3. alive' \in BOOLEAN /\ queue' \in Seq(Commands)
  <2>1. alive' = FALSE /\ queue' = <<>>
    BY DEF HandleKill, KillNow
  <2> QED BY <2>1, Zenon, EmptySeq
<1>4. ActorTypeOK'
  BY <1>1, <1>2, <1>3 DEF ActorTypeOK
<1>5. OneHandshake' /\ HeldForModel' /\ NothingLost'
  BY <1>1 DEF OneHandshake, HeldForModel, HandshakeIn, NothingLost
<1> QED BY <1>4, <1>5

LEMMA ReadyInv == ASSUME ActorInv, HandleReady PROVE ActorInv'
<1> USE DEF ActorInv
<1> DEFINE c == Head(cmds)
           v == Execute(Now, c)
<1>1. /\ Become(v) /\ acp
      /\ UNCHANGED <<start, watched, acp, failed, holding, queue, alive, ended, exited, asks, says, sent>>
  BY DEF HandleReady, spoken
<1>2. c \in Commands /\ cmds' \in Seq(Commands) /\ Numbers(cmds) = Numbers(cmds') \union {c.n}
  BY CommandTaken DEF HandleReady
<1>3. Follows(Now) /\ Now.pending = pending
  BY NowFollows DEF Now
<1>4. Onward(Now, v) /\ c.n \in Numbers(v.ran)
  BY <1>2, <1>3, ExecuteOnward DEF Follows
<1> HIDE DEF v, c
<1>5. OneHandshake' /\ Worked /\ pending \subseteq pending'
  BY <1>1, <1>3, <1>4, AfterWork DEF OneHandshake
<1>6. c.n \in Numbers(ran')
  BY <1>1, <1>4 DEF Become
<1>7. ActorTypeOK'
  BY <1>1, <1>2, <1>5 DEF ActorTypeOK, Worked
<1>8. HeldForModel'
  BY <1>1, <1>5 DEF HeldForModel, OneHandshake
<1>9. Safekept
  BY <1>1, <1>2, <1>5, <1>6 DEF Safekept, Worked
<1> QED BY <1>5, <1>7, <1>8, <1>9, SafekeptLosesNone

LEMMA EarlyInv == ASSUME ActorInv, HandleEarly PROVE ActorInv'
<1> USE DEF ActorInv
<1> DEFINE c == Head(cmds)
<1>1. /\ ~acp
      /\ UNCHANGED <<start, pending, nextId, watched, acp, failed, holding, supports, question, alive,
                     ended, exited, status, asks, says, sent, ran>>
  BY DEF HandleEarly, handshake, spoken
<1>2. /\ c \in Commands /\ c.n \in Nat /\ cmds' \in Seq(Commands)
      /\ Numbers(cmds) = Numbers(cmds') \union {c.n}
  BY CommandTaken DEF HandleEarly
<1>3. \/ seq' = seq + 1 /\ refused' = refused \union {c.n} /\ queue' = queue
      \/ seq' = seq /\ refused' = refused /\ queue' = Append(queue, c)
  BY DEF HandleEarly, Refuse
<1> HIDE DEF c
<1>4. /\ seq' \in Nat /\ refused' \in SUBSET Nat /\ queue' \in Seq(Commands)
      /\ Numbers(queue) \union refused \union {c.n} \subseteq Numbers(queue') \union refused'
  <2>1. seq \in Nat /\ refused \in SUBSET Nat /\ queue \in Seq(Commands)
    BY DEF ActorTypeOK
  <2>2. Append(queue, c) \in Seq(Commands) /\ Numbers(Append(queue, c)) = Numbers(queue) \union {c.n}
    BY <1>2, <2>1, NumbersAppended
  <2>3. CASE seq' = seq + 1 /\ refused' = refused \union {c.n} /\ queue' = queue
    <3>1. c.n \in Nat
      BY <1>2
    <3>2. refused \union {c.n} \in SUBSET Nat
      BY <2>1, <3>1
    <3>3. seq + 1 \in Nat
      BY <2>1
    <3> QED BY <2>1, <2>3, <3>2, <3>3
  <2>4. CASE seq' = seq /\ refused' = refused /\ queue' = Append(queue, c)
    BY <2>1, <2>2, <2>4
  <2> QED BY <1>3, <2>3, <2>4
<1>5. ActorTypeOK'
  BY <1>1, <1>2, <1>4 DEF ActorTypeOK
<1>6. OneHandshake' /\ HeldForModel'
  BY <1>1 DEF OneHandshake, HeldForModel, HandshakeIn
<1>7. Safekept
  BY <1>1, <1>2, <1>4 DEF Safekept
<1> QED BY <1>5, <1>6, <1>7, SafekeptLosesNone

(* The next step of the handshake takes the place of the one answered.     *)
LEMMA ContinueHandshake ==
  ASSUME ActorTypeOK, OneHandshake, NEW rpc, rpc \in HandshakeIn(pending),
         NEW kind \in {"load", "new"}, Continue(rpc, kind), UNCHANGED <<acp, failed>>
  PROVE  /\ OneHandshake' /\ pending' \in SUBSET [id : Nat, kind : Kinds] /\ nextId' \in Nat
         /\ watched' \in SUBSET Nat /\ HandshakeIn(pending') # {}
         /\ \A q \in pending : q # rpc => q \in pending'
<1> DEFINE sent1 == Rpc(nextId, kind)
<1>1. /\ sent1.id = nextId /\ sent1.kind = kind /\ kind \in Handshakes
      /\ sent1 \in [id : Nat, kind : Kinds] /\ nextId \in Nat
  BY DEF Rpc, Handshakes, Kinds, ActorTypeOK
<1>2. /\ pending' = (pending \ {rpc}) \union {sent1} /\ nextId' = nextId + 1
      /\ watched' = watched \union {nextId}
  BY <1>1 DEF Continue, NeedsWatchdog
<1> HIDE DEF sent1
<1>3. /\ pending' \in SUBSET [id : Nat, kind : Kinds] /\ nextId' \in Nat /\ watched' \in SUBSET Nat
  BY <1>1, <1>2 DEF ActorTypeOK
<1>4. HandshakeIn(pending) = {rpc} /\ ~acp /\ ~failed
  BY DEF OneHandshake
<1>5. HandshakeIn(pending') = {sent1} /\ HandshakeIn(pending)' = HandshakeIn(pending')
  BY <1>1, <1>2, <1>4 DEF HandshakeIn
<1>6. /\ \A q \in pending : q.id \in Nat /\ q.id < nextId
      /\ \A id \in watched : id \in Nat /\ id < nextId
  BY DEF OneHandshake, ActorTypeOK
<1>7. /\ \A q \in pending' : q.id < nextId'
      /\ \A id \in watched' : id < nextId'
      /\ \A q \in pending' : q.id \in watched' => q.kind \in Handshakes
  <2>1. ASSUME NEW q \in pending' PROVE q.id < nextId' /\ (q.id \in watched' => q.kind \in Handshakes)
    BY <1>1, <1>2, <1>6, <2>1 DEF OneHandshake
  <2>2. ASSUME NEW id \in watched' PROVE id < nextId'
    BY <1>1, <1>2, <1>6, <2>2
  <2> QED BY <2>1, <2>2
<1>8. OneHandshake'
  BY <1>4, <1>5, <1>7 DEF OneHandshake
<1> QED BY <1>2, <1>3, <1>5, <1>8

LEMMA HandshakeGoesOn ==
  ASSUME ActorInv, NEW rpc \in pending, Initialized(rpc) \/ LoadRefused(rpc)
  PROVE  ActorInv'
<1> USE DEF ActorInv
<1>1. /\ rpc \in HandshakeIn(pending)
      /\ UNCHANGED <<start, cmds, acp, failed, holding, supports, queue, question, alive, ended, exited, status,
                     asks, says, sent, ran, refused>>
      /\ seq' \in {seq, seq + 1}
  BY DEF Initialized, LoadRefused, Respond, HandshakeIn, Handshakes, report, spoken, past
<1>2. \E kind \in {"load", "new"} : Continue(rpc, kind)
  BY DEF Initialized, LoadRefused
<1>3. /\ OneHandshake' /\ pending' \in SUBSET [id : Nat, kind : Kinds] /\ nextId' \in Nat
      /\ watched' \in SUBSET Nat
  BY <1>1, <1>2, ContinueHandshake
<1>4. ActorTypeOK'
  BY <1>1, <1>3 DEF ActorTypeOK
<1>5. ~acp
  BY <1>1 DEF OneHandshake
<1>6. HeldForModel' /\ NothingLost'
  BY <1>1, <1>5 DEF HeldForModel, NothingLost, Numbers
<1> QED BY <1>3, <1>4, <1>6

LEMMA OpenInv ==
  ASSUME ActorInv, NEW rpc \in pending, NEW result, SessionOpened(rpc, result)
  PROVE  ActorInv'
<1> USE DEF ActorInv
<1>1. /\ rpc \in HandshakeIn(pending) /\ acp' = TRUE
      /\ UNCHANGED <<start, cmds, watched, failed, alive, ended, exited, asks, says, sent>>
  BY DEF SessionOpened, Respond, HandshakeIn, Handshakes, spoken
<1>2. HandshakeIn(pending) = {rpc} /\ ~acp /\ ~holding
  BY <1>1 DEF OneHandshake, HeldForModel
<1> DEFINE a == Answered(Now, rpc)
           i == [a EXCEPT !.status = "idle"]
           u == Adopted(i, rpc, result)
<1>3. Follows(a) /\ a.pending = pending \ {rpc}
  BY NowFollows
<1> HIDE DEF a
<1>4. Follows(i) /\ i.pending = pending \ {rpc}
  <2>1. i \in Work /\ i.pending = a.pending /\ i.nextId = a.nextId /\ i.question = a.question
        /\ i.ran = a.ran /\ i.refused = a.refused
    BY <1>3 DEF Follows, Work, Statuses
  <2> QED BY <1>3, <2>1 DEF Follows
<1> HIDE DEF i
<1>5. Follows(u) /\ u.pending = pending \ {rpc}
  <2>1. u \in Work /\ u.pending = i.pending /\ u.nextId = i.nextId /\ u.question = i.question
        /\ u.ran = i.ran /\ u.refused = i.refused
    <3>1. (result = "models") \in BOOLEAN
      OBVIOUS
    <3> QED BY <1>4, <3>1 DEF Follows, Work, Adopted
  <2> QED BY <1>4, <2>1 DEF Follows
<1>6. ApplyModel(u)
  BY DEF SessionOpened, u, i, a
<1> HIDE DEF u
<1>7. HandshakeIn(u.pending) = {} /\ queue \in Seq(Commands)
  BY <1>2, <1>5 DEF HandshakeIn, ActorTypeOK
<1>8. ASSUME NEW v, NEW w, Follows(w), w.pending = u.pending, Onward(w, v), Become(v)
      PROVE  OneHandshake' /\ Worked
  BY <1>1, <1>7, <1>8, AfterWork
<1>9. CASE start.wants /\ u.supports
  <2> DEFINE v == Request(u, "set_model")
  <2>1. Become(v) /\ holding' = TRUE /\ queue' = queue
    BY <1>6, <1>9 DEF ApplyModel
  <2>2. Onward(u, v) /\ Rpc(u.nextId, "set_model") \in v.pending
    BY <1>5, RequestOnward DEF Follows, Request, Work
  <2> HIDE DEF v
  <2>3. OneHandshake' /\ Worked
    BY <1>5, <1>8, <2>1, <2>2
  <2>4. HeldForModel'
    BY <1>1, <2>1, <2>2, <2>3 DEF HeldForModel, OneHandshake, Become, Rpc
  <2>5. Safekept
    BY <1>1, <2>1, <2>3 DEF Safekept, Worked
  <2>6. ActorTypeOK'
    <3>1. holding' \in BOOLEAN /\ acp' \in BOOLEAN
      BY <1>1, <2>1, Zenon
    <3> QED BY <1>1, <2>1, <2>3, <3>1 DEF ActorTypeOK, Worked
  <2> QED BY <2>3, <2>4, <2>5, <2>6, SafekeptLosesNone
<1>10. CASE ~(start.wants /\ u.supports)
  <2> DEFINE w == IF start.wants THEN [u EXCEPT !.seq = @ + 1] ELSE u
             v == Flushed(w)
  <2>1. Become(v) /\ holding' = holding /\ queue' = <<>>
    BY <1>6, <1>10 DEF ApplyModel
  <2>2. Follows(w) /\ w.pending = u.pending
    <3>1. w \in Work /\ w.pending = u.pending /\ w.nextId = u.nextId /\ w.question = u.question
          /\ w.ran = u.ran /\ w.refused = u.refused
      BY <1>5 DEF Follows, Work
    <3> QED BY <1>5, <3>1 DEF Follows
  <2>3. Onward(w, v) /\ Numbers(queue) \subseteq Numbers(v.ran)
    <3> HIDE DEF w
    <3> QED BY <1>7, <2>2, FlushOnward DEF Follows
  <2> HIDE DEF v, w
  <2>4. OneHandshake' /\ Worked
    BY <1>8, <2>1, <2>2, <2>3
  <2>5. HeldForModel'
    BY <1>2, <2>1 DEF HeldForModel
  <2>6. Numbers(queue) \subseteq Numbers(ran')
    BY <2>1, <2>3 DEF Become
  <2>7. Safekept
    BY <1>1, <2>1, <2>4, <2>6 DEF Safekept, Worked
  <2>8. ActorTypeOK'
    <3>1. acp' \in BOOLEAN /\ queue' \in Seq(Commands)
      BY <1>1, <2>1, Zenon, EmptySeq
    <3> QED BY <1>1, <2>1, <2>4, <3>1 DEF ActorTypeOK, Worked
  <2> QED BY <2>4, <2>5, <2>7, <2>8, SafekeptLosesNone
<1> QED BY <1>9, <1>10

(* A flush without a session executes the queue's first commands, and all  *)
(* of them unless one is a prompt.                                         *)
LEMMA FlushUnnamedOnward ==
  ASSUME NEW w \in Work, queue \in Seq(Commands), NEW stop \in 0..Len(queue), StopsAt(stop)
  PROVE  LET v == FlushedUnnamed(w, stop)
         IN  /\ Onward(w, v) /\ v.ran = w.ran \o SubSeq(queue, 1, stop) /\ v.status = w.status
             /\ v.pending = w.pending /\ v.question = w.question
             /\ \/ Numbers(queue) \subseteq Numbers(v.ran)
                \/ \E i \in 1..Len(queue) : queue[i].op = "prompt"
<1> DEFINE told == {i \in 1..stop : queue[i].op = "model" /\ ~w.supports}
           head == SubSeq(queue, 1, stop)
           v == FlushedUnnamed(w, stop)
<1>1. /\ stop \in Nat /\ head \in Seq(Commands) /\ Len(head) = stop
      /\ \A i \in 1..stop : head[i] = queue[i] /\ queue[i] \in Commands
  OBVIOUS
<1>2. Cardinality(told) \in Nat
  <2>1. IsFiniteSet(1..stop)
    BY <1>1, FS_Interval
  <2> QED BY <2>1, FS_Subset, FS_CardinalityType
<1>3. {queue[i].n : i \in told} \in Marks
  BY <1>1 DEF Marks, Commands
<1>4. w.ran \in Seq(Commands) /\ w.seq \in Nat /\ w.refused \in Marks
  BY DEF Work, Log
<1> DEFINE r == w.ran \o head
           more == {queue[i].n : i \in told}
           n == Cardinality(told)
<1>5. v = [w EXCEPT !.ran = r, !.seq = w.seq + n, !.refused = w.refused \union more]
  BY DEF FlushedUnnamed
<1>6. r \in Log /\ w.seq + n \in Nat /\ w.refused \union more \in Marks
  BY <1>1, <1>2, <1>3, <1>4 DEF Log, Marks
<1>7. Numbers(w.ran) \subseteq Numbers(r) /\ Numbers(head) \subseteq Numbers(r)
  <2>1. /\ \A i \in 1..Len(w.ran) : i \in 1..Len(r) /\ r[i] = w.ran[i]
        /\ \A i \in 1..Len(head) : Len(w.ran) + i \in 1..Len(r) /\ r[Len(w.ran) + i] = head[i]
    <3> HIDE DEF head
    <3>1. \A b, e \in Seq(Commands) :
            /\ Len(b \o e) = Len(b) + Len(e) /\ Len(b) \in Nat /\ Len(e) \in Nat
            /\ \A k \in 1..Len(b) : (b \o e)[k] = b[k]
            /\ \A k \in 1..Len(e) : (b \o e)[Len(b) + k] = e[k]
      OBVIOUS
    <3>2. /\ Len(r) = Len(w.ran) + Len(head) /\ Len(w.ran) \in Nat /\ Len(head) \in Nat
          /\ \A k \in 1..Len(w.ran) : r[k] = w.ran[k]
          /\ \A k \in 1..Len(head) : r[Len(w.ran) + k] = head[k]
      BY <1>1, <1>4, <3>1
    <3> HIDE DEF r
    <3> QED BY <3>2
  <2> HIDE DEF r, head
  <2> QED BY <2>1 DEF Numbers
<1>8. \/ Numbers(queue) \subseteq Numbers(r)
      \/ \E i \in 1..Len(queue) : queue[i].op = "prompt"
  <2>1. CASE stop = Len(queue)
    <3>1. Numbers(queue) \subseteq Numbers(head)
      BY <1>1, <2>1 DEF Numbers
    <3> QED BY <1>7, <3>1
  <2>2. CASE stop < Len(queue)
    BY <1>1, <2>2 DEF StopsAt
  <2> QED BY <1>1, <2>1, <2>2
<1> HIDE DEF r, more, n, told
<1>9. /\ v \in Work /\ v.ran = r /\ v.pending = w.pending /\ v.nextId = w.nextId
      /\ v.question = w.question /\ v.status = w.status /\ w.refused \subseteq v.refused
  BY <1>5, <1>6 DEF Work
<1> HIDE DEF v
<1>10. Onward(w, v)
  BY <1>7, <1>9, QuietOnward
<1> QED BY <1>8, <1>9, <1>10 DEF v, r

LEMMA UnnamedInv ==
  ASSUME ActorInv, NEW rpc \in pending, NEW result, SessionUnnamed(rpc, result)
  PROVE  ActorInv'
<1> USE DEF ActorInv
<1>1. /\ rpc \in HandshakeIn(pending)
      /\ UNCHANGED <<start, cmds, watched, acp, failed, exited, asks, says, sent>>
  BY DEF SessionUnnamed, Respond, HandshakeIn, Handshakes, spoken
<1>2. HandshakeIn(pending) = {rpc} /\ ~acp /\ ~failed /\ ~holding
  BY <1>1 DEF OneHandshake, HeldForModel
<1> DEFINE a == Answered(Now, rpc)
           i == [a EXCEPT !.status = "idle"]
           u == Adopted(i, rpc, result)
<1>3. Follows(a) /\ a.pending = pending \ {rpc}
  BY NowFollows
<1> HIDE DEF a
<1>4. Follows(i) /\ i.pending = pending \ {rpc}
  <2>1. i \in Work /\ i.pending = a.pending /\ i.nextId = a.nextId /\ i.question = a.question
        /\ i.ran = a.ran /\ i.refused = a.refused
    BY <1>3 DEF Follows, Work, Statuses
  <2> QED BY <1>3, <2>1 DEF Follows
<1> HIDE DEF i
<1>5. Follows(u) /\ u.pending = pending \ {rpc}
  <2>1. u \in Work /\ u.pending = i.pending /\ u.nextId = i.nextId /\ u.question = i.question
        /\ u.ran = i.ran /\ u.refused = i.refused
    <3>1. (result = "models") \in BOOLEAN
      OBVIOUS
    <3> QED BY <1>4, <3>1 DEF Follows, Work, Adopted
  <2> QED BY <1>4, <2>1 DEF Follows
<1> DEFINE w == IF start.wants THEN [u EXCEPT !.seq = @ + 1] ELSE u
<1>6. IF start.wants /\ u.supports THEN HoldUnnamed(u) ELSE FlushUnnamed(w) /\ holding' = holding
  BY DEF SessionUnnamed, u, i, a
<1> HIDE DEF u
<1>7. HandshakeIn(u.pending) = {} /\ queue \in Seq(Commands)
  BY <1>2, <1>5 DEF HandshakeIn, ActorTypeOK
<1>8. ASSUME NEW v, NEW x, Follows(x), x.pending = u.pending, Onward(x, v), Become(v),
             v.pending = u.pending
      PROVE  OneHandshake' /\ Worked /\ HandshakeIn(pending') = {}
  <2>1. pending' = u.pending
    BY <1>8 DEF Become
  <2> QED BY <1>1, <1>7, <1>8, <2>1, AfterWork
<1>9. CASE start.wants /\ u.supports
  <2>1. Become(u) /\ holding' = TRUE /\ UNCHANGED <<queue, alive, ended>>
    BY <1>6, <1>9 DEF HoldUnnamed
  <2>2. Onward(u, u)
    BY <1>5, QuietOnward DEF Follows
  <2>3. OneHandshake' /\ Worked /\ HandshakeIn(pending') = {}
    BY <1>5, <1>8, <2>1, <2>2
  <2>4. HeldForModel'
    BY <1>1, <1>2, <2>3 DEF HeldForModel, HandshakeIn
  <2>5. Safekept
    BY <1>1, <2>1, <2>3 DEF Safekept, Worked
  <2>6. ActorTypeOK'
    <3>1. holding' \in BOOLEAN
      BY <2>1, Zenon
    <3> QED BY <1>1, <2>1, <2>3, <3>1 DEF ActorTypeOK, Worked
  <2> QED BY <2>3, <2>4, <2>5, <2>6, SafekeptLosesNone
<1>10. CASE ~(start.wants /\ u.supports)
  <2>1. /\ queue' = <<>> /\ holding' = holding
        /\ \E stop \in 0..Len(queue) : StopsAt(stop) /\ Become(FlushedUnnamed(w, stop))
        /\ IF \E k \in 1..Len(queue) : queue[k].op = "prompt"
           THEN alive' = FALSE /\ ended' = TRUE ELSE UNCHANGED <<alive, ended>>
    BY <1>6, <1>10 DEF FlushUnnamed
  <2>2. Follows(w) /\ w.pending = u.pending
    <3>1. w \in Work /\ w.pending = u.pending /\ w.nextId = u.nextId /\ w.question = u.question
          /\ w.ran = u.ran /\ w.refused = u.refused
      BY <1>5 DEF Follows, Work
    <3> QED BY <1>5, <3>1 DEF Follows
  <2> HIDE DEF w
  <2>3. PICK stop \in 0..Len(queue) : StopsAt(stop) /\ Become(FlushedUnnamed(w, stop))
    BY <2>1
  <2> DEFINE v == FlushedUnnamed(w, stop)
  <2>4. /\ Onward(w, v) /\ v.pending = w.pending
        /\ \/ Numbers(queue) \subseteq Numbers(v.ran)
           \/ \E k \in 1..Len(queue) : queue[k].op = "prompt"
    BY <1>7, <2>2, <2>3, FlushUnnamedOnward DEF Follows
  <2>5. Become(v)
    BY <2>3
  <2> HIDE DEF v
  <2>6. OneHandshake' /\ Worked /\ HandshakeIn(pending') = {}
    BY <1>8, <2>2, <2>4, <2>5
  <2>7. HeldForModel'
    BY <1>1, <1>2, <2>1 DEF HeldForModel
  <2>8. alive' => alive /\ Numbers(queue) \subseteq Numbers(ran')
    BY <2>1, <2>4, <2>5 DEF Become
  <2>9. Safekept
    BY <1>1, <2>1, <2>6, <2>8 DEF Safekept, Worked
  <2>10. ActorTypeOK'
    <3>1. queue' \in Seq(Commands)
      BY <2>1, Zenon, EmptySeq
    <3>2. alive' \in BOOLEAN /\ ended' \in BOOLEAN
      <4>1. alive \in BOOLEAN /\ ended \in BOOLEAN
        BY Zenon DEF ActorTypeOK
      <4>2. (alive' = FALSE /\ ended' = TRUE) \/ (alive' = alive /\ ended' = ended)
        BY <2>1
      <4> QED BY <4>1, <4>2, Zenon
    <3> QED BY <1>1, <2>1, <2>6, <3>1, <3>2 DEF ActorTypeOK, Worked
  <2> QED BY <2>6, <2>7, <2>9, <2>10, SafekeptLosesNone
<1> QED BY <1>9, <1>10

LEMMA ModelInv ==
  ASSUME ActorInv, NEW rpc \in pending, NEW ok \in BOOLEAN, ModelAnswered(rpc, ok)
  PROVE  ActorInv'
<1> USE DEF ActorInv
<1> DEFINE a == Answered(Now, rpc)
           u == IF ok THEN a ELSE ModelRefused(a)
<1>1. /\ rpc.kind = "set_model" /\ UNCHANGED <<start, cmds, watched, acp, failed, alive, ended, exited, asks, says, sent>>
      /\ IF holding THEN Become(Flushed(u)) /\ queue' = <<>> /\ holding' = FALSE
         ELSE Become(u) /\ queue' = queue /\ holding' = holding
  BY DEF ModelAnswered, Respond, Release, spoken
<1>2. Follows(a) /\ a.pending = pending \ {rpc}
  BY NowFollows
<1> HIDE DEF a
<1>3. Follows(u) /\ u.pending = pending \ {rpc}
  <2>1. u \in Work /\ u.pending = a.pending /\ u.nextId = a.nextId /\ u.question = a.question
        /\ u.ran = a.ran /\ u.refused = a.refused
    BY <1>2 DEF Follows, Work, ModelRefused
  <2> QED BY <1>2, <2>1 DEF Follows
<1> HIDE DEF u
<1>4. /\ acp' \/ failed => HandshakeIn(u.pending) = {}
      /\ queue \in Seq(Commands)
  BY <1>1, <1>3 DEF OneHandshake, HandshakeIn, ActorTypeOK
<1>5. CASE holding
  <2> DEFINE v == Flushed(u)
  <2>1. Become(v) /\ queue' = <<>> /\ holding' = FALSE
    BY <1>1, <1>5
  <2>2. Onward(u, v) /\ Numbers(queue) \subseteq Numbers(v.ran)
    BY <1>3, <1>4, FlushOnward DEF Follows
  <2> HIDE DEF v
  <2>3. OneHandshake' /\ Worked
    BY <1>1, <1>3, <1>4, <2>1, <2>2, AfterWork
  <2>4. HeldForModel'
    BY <2>1 DEF HeldForModel
  <2>5. Numbers(queue) \subseteq Numbers(ran')
    BY <2>1, <2>2 DEF Become
  <2>6. Safekept
    BY <1>1, <2>1, <2>3, <2>5 DEF Safekept, Worked
  <2>7. ActorTypeOK'
    <3>1. holding' \in BOOLEAN /\ queue' \in Seq(Commands)
      BY <2>1, Zenon, EmptySeq
    <3> QED BY <1>1, <2>3, <3>1 DEF ActorTypeOK, Worked
  <2> QED BY <2>3, <2>4, <2>6, <2>7, SafekeptLosesNone
<1>6. CASE ~holding
  <2>1. Become(u) /\ queue' = queue /\ holding' = holding
    BY <1>1, <1>6
  <2>2. Onward(u, u)
    BY <1>3, QuietOnward DEF Follows
  <2>3. OneHandshake' /\ Worked
    BY <1>1, <1>3, <1>4, <2>1, <2>2, AfterWork
  <2>4. HeldForModel'
    BY <1>1, <1>6, <2>1 DEF HeldForModel
  <2>5. Safekept
    BY <1>1, <2>1, <2>3 DEF Safekept, Worked
  <2>6. ActorTypeOK'
    BY <1>1, <2>1, <2>3 DEF ActorTypeOK, Worked
  <2> QED BY <2>3, <2>4, <2>5, <2>6, SafekeptLosesNone
<1> QED BY <1>5, <1>6

(* An answer that starts nothing: the request is gone, the rest stays.     *)
LEMMA FewerRequests ==
  ASSUME OneHandshake, NEW rpc, pending' = pending \ {rpc}, UNCHANGED <<nextId, watched, acp>>,
         failed' \/ acp => HandshakeIn(pending) \ {rpc} = {}
  PROVE  OneHandshake'
BY DEF OneHandshake, HandshakeIn

LEMMA TurnInv ==
  ASSUME ActorInv, NEW rpc \in pending, NEW ok \in BOOLEAN, TurnEnded(rpc, ok)
  PROVE  ActorInv'
<1> USE DEF ActorInv
<1>1. /\ rpc.kind = "prompt" /\ pending' = pending \ {rpc} /\ seq' = seq + 1 /\ status' \in {"asked", "idle"}
      /\ UNCHANGED <<start, cmds, nextId, watched, acp, failed, holding, supports, queue, question, alive,
                     ended, exited, asks, says, sent, ran, refused>>
  BY DEF TurnEnded, TurnStatus, Respond, spoken, past
<1>2. ActorTypeOK'
  <2>1. status' \in Statuses /\ seq' \in Nat /\ pending' \in SUBSET [id : Nat, kind : Kinds]
    BY <1>1 DEF ActorTypeOK, Statuses
  <2> QED BY <1>1, <2>1 DEF ActorTypeOK
<1>3. OneHandshake'
  BY <1>1, FewerRequests DEF OneHandshake
<1>4. HeldForModel' /\ NothingLost'
  BY <1>1 DEF HeldForModel, HandshakeIn, NothingLost, Numbers
<1> QED BY <1>2, <1>3, <1>4

LEMMA FailInv ==
  ASSUME ActorInv, NEW rpc \in pending, HandshakeRefused(rpc) \/ HandshakeTimeout(rpc)
  PROVE  ActorInv'
<1> USE DEF ActorInv
<1>1. rpc \in HandshakeIn(pending)
  BY DEF HandshakeRefused, HandshakeTimeout, Respond, HandshakeIn, Handshakes, OneHandshake
<1>2. HandshakeIn(pending) = {rpc} /\ ~acp /\ ~failed
  BY <1>1 DEF OneHandshake
<1>3. /\ pending' = pending \ {rpc} /\ failed' = TRUE /\ queue' = <<>> /\ seq' = seq + 1
      /\ status' = "error" /\ alive' = FALSE
      /\ UNCHANGED <<start, cmds, nextId, watched, acp, holding, supports, question, ended, exited, asks, says,
                     sent, ran, refused>>
  BY <1>2 DEF HandshakeRefused, HandshakeTimeout, Fail, spoken, past
<1>4. ActorTypeOK'
  <2>1. failed' \in BOOLEAN /\ alive' \in BOOLEAN /\ queue' \in Seq(Commands)
    BY <1>3, Zenon, EmptySeq
  <2>2. status' \in Statuses /\ seq' \in Nat /\ pending' \in SUBSET [id : Nat, kind : Kinds]
    BY <1>3 DEF ActorTypeOK, Statuses
  <2> QED BY <1>3, <2>1, <2>2 DEF ActorTypeOK
<1>5. OneHandshake'
  BY <1>2, <1>3, FewerRequests
<1>6. HeldForModel' /\ NothingLost'
  BY <1>2, <1>3 DEF HeldForModel, NothingLost
<1> QED BY <1>4, <1>5, <1>6

LEMMA AgentInv ==
  ASSUME ActorInv, \/ \E update \in Updates : SessionUpdate(update)
                   \/ PermissionRequest \/ AgentExits \/ OnEof \/ UNCHANGED actorVars
  PROVE  ActorInv'
<1> USE DEF ActorInv
<1>1. /\ UNCHANGED <<start, cmds, pending, nextId, watched, acp, failed, holding, supports, sent, ran, refused>>
      /\ queue' = queue \/ (queue' = <<>> /\ ~alive')
      /\ alive' => alive
  BY DEF SessionUpdate, PermissionRequest, AgentExits, OnEof, actorVars, handshake, report, spoken, past
<1>2. ActorTypeOK'
  <2>1. CASE \E update \in Updates : SessionUpdate(update)
    <3>1. seq' \in {seq, seq + 1} /\ says' = says + 1
          /\ UNCHANGED <<queue, question, alive, ended, exited, status, asks>>
      BY <2>1 DEF SessionUpdate
    <3> QED BY <1>1, <3>1 DEF ActorTypeOK
  <2>2. CASE PermissionRequest
    <3>1. /\ asks' = asks + 1 /\ question' \in {question, asks + 1} /\ seq' \in {seq, seq + 1}
          /\ status' \in {status, "asked"} /\ UNCHANGED <<queue, alive, ended, exited, says>>
      BY <2>2 DEF PermissionRequest
    <3>2. question' \in 0..asks' /\ asks' \in Nat /\ seq' \in Nat /\ status' \in Statuses
      BY <3>1 DEF ActorTypeOK, Statuses
    <3> QED BY <1>1, <3>1, <3>2 DEF ActorTypeOK
  <2>3. CASE AgentExits
    <3>1. alive' = FALSE /\ UNCHANGED <<queue, question, ended, exited, seq, status, asks, says>>
      BY <2>3 DEF AgentExits, report, spoken
    <3>2. alive' \in BOOLEAN
      BY <3>1, Zenon
    <3> QED BY <1>1, <3>1, <3>2 DEF ActorTypeOK
  <2>4. CASE OnEof
    <3>1. ended' = TRUE /\ exited' = TRUE /\ queue' = <<>> /\ UNCHANGED <<question, alive, seq, status, asks, says>>
      BY <2>4 DEF OnEof, report, spoken
    <3>2. ended' \in BOOLEAN /\ exited' \in BOOLEAN /\ queue' \in Seq(Commands)
      BY <3>1, Zenon, EmptySeq
    <3> QED BY <1>1, <3>1, <3>2 DEF ActorTypeOK
  <2>5. CASE UNCHANGED actorVars
    BY <2>5 DEF actorVars, handshake, report, spoken, past, ActorTypeOK
  <2> QED BY <2>1, <2>2, <2>3, <2>4, <2>5
<1>3. OneHandshake' /\ HeldForModel' /\ NothingLost'
  BY <1>1 DEF OneHandshake, HeldForModel, HandshakeIn, NothingLost, Numbers
<1> QED BY <1>2, <1>3

LEMMA NextActorInv == ActorInv /\ [ActorNext]_actorVars => ActorInv'
<1> SUFFICES ASSUME ActorInv, [ActorNext]_actorVars PROVE ActorInv'
  OBVIOUS
<1>1. ASSUME NEW op \in {"prompt", "model", "cancel", "kill"}, Forward(op, 0) PROVE ActorInv'
  BY <1>1, ForwardInv
<1>2. ASSUME NEW to \in 1..asks, Forward("answer", to) PROVE ActorInv'
  <2>1. to \in Nat
    BY DEF ActorInv, ActorTypeOK
  <2> QED BY <1>2, <2>1, ForwardInv
<1>3. CASE HandleKill \/ HandleReady \/ HandleEarly
  BY <1>3, KillInv, ReadyInv, EarlyInv
<1>4. ASSUME NEW rpc \in pending,
             \/ Initialized(rpc) \/ LoadRefused(rpc) \/ HandshakeRefused(rpc) \/ HandshakeTimeout(rpc)
             \/ \E result \in Results : SessionOpened(rpc, result) \/ SessionUnnamed(rpc, result)
             \/ \E ok \in BOOLEAN : ModelAnswered(rpc, ok) \/ TurnEnded(rpc, ok)
      PROVE  ActorInv'
  BY <1>4, HandshakeGoesOn, FailInv, OpenInv, UnnamedInv, ModelInv, TurnInv
<1>5. CASE \/ \E update \in Updates : SessionUpdate(update)
           \/ PermissionRequest \/ AgentExits \/ OnEof \/ UNCHANGED actorVars
  BY <1>5, AgentInv
<1> QED BY <1>1, <1>2, <1>3, <1>4, <1>5 DEF ActorNext

(* The actor's invariant, for any queue and any number of commands and     *)
(* requests: one step of the handshake at a time, and an open session's    *)
(* queue held back only for a model switch the agent has yet to answer.    *)
(* An answer that names no session is among the agent's, and leaves a      *)
(* queue held back for nothing.                                            *)
THEOREM ActorInvariant == ActorSpec => []ActorInv
  BY InitActorInv, NextActorInv, PTL DEF ActorSpec

(* No command is lost: until its agent is gone, each one the actor took    *)
(* was executed, waits in the queue or was refused with an Error event.    *)
THEOREM NoCommandLost == ActorSpec => []NothingLost
  BY ActorInvariant, PTL DEF ActorInv

(* An open session holds commands back only for a set_model on its way,    *)
(* and the answer to it, good or bad, lets them go.                        *)
THEOREM QueueFlushes == ActorSpec => []QueueOnlyWaits
<1>1. ActorInv => QueueOnlyWaits
  BY DEF ActorInv, HeldForModel, QueueOnlyWaits
<1> QED BY <1>1, ActorInvariant, PTL

-----------------------------------------------------------------------------
(* The order of commands, and the question a report speaks of.             *)

Ascends(s) == \A i, j \in 1..Len(s) : i < j => s[i].n < s[j].n
Ahead(s, t) == \A m \in Numbers(s), n \in Numbers(t) : m < n

\* Executed, queued and on their way: the commands stand in the order sent.
Lineup ==
  /\ ~holding
  /\ Ascends(ran) /\ Ascends(queue) /\ Ascends(cmds)
  /\ Ahead(ran, queue) /\ Ahead(ran, cmds) /\ Ahead(queue, cmds)
  /\ \A n \in Numbers(ran) \union Numbers(queue) \union Numbers(cmds) : n <= sent

\* A working state that reports a question has one parked.
Parked(w) == w.status = "asked" => w.question # 0

OrderInv == (~start.wants => Lineup) /\ AskedIsAnswerable

LEMMA InitOrderInv == ActorInit => OrderInv
<1> SUFFICES ASSUME ActorInit PROVE OrderInv
  OBVIOUS
<1>1. /\ ~holding /\ Len(ran) = 0 /\ Len(queue) = 0 /\ Len(cmds) = 0 /\ status # "asked"
  BY DEF ActorInit
<1>2. Numbers(ran) = {} /\ Numbers(queue) = {} /\ Numbers(cmds) = {}
  BY <1>1 DEF Numbers
<1> QED BY <1>1, <1>2 DEF OrderInv, Lineup, Ascends, Ahead, AskedIsAnswerable

(* A queue stays in order as it grows by a later command or loses its      *)
(* first; and the first comes before the others.                           *)
LEMMA AscendsAppended ==
  ASSUME NEW s \in Seq(Commands), NEW c \in Commands, Ascends(s), \A m \in Numbers(s) : m < c.n
  PROVE  Ascends(Append(s, c))
<1> SUFFICES ASSUME NEW i \in 1..Len(Append(s, c)), NEW j \in 1..Len(Append(s, c)), i < j
             PROVE  Append(s, c)[i].n < Append(s, c)[j].n
  BY DEF Ascends
<1>1. i \in 1..Len(s) /\ Append(s, c)[i] = s[i] /\ s[i].n \in Numbers(s)
  BY DEF Numbers
<1>2. CASE j = Len(s) + 1
  <2>1. Append(s, c)[j] = c
    BY <1>2
  <2> QED BY <1>1, <2>1
<1>3. CASE j # Len(s) + 1
  <2>1. j \in 1..Len(s) /\ Append(s, c)[j] = s[j]
    BY <1>3
  <2> QED BY <1>1, <2>1 DEF Ascends
<1> QED BY <1>2, <1>3

LEMMA AscendsTaken ==
  ASSUME NEW s \in Seq(Commands), s # <<>>, Ascends(s)
  PROVE  Ascends(Tail(s)) /\ \A n \in Numbers(Tail(s)) : Head(s).n < n
<1>1. /\ Len(Tail(s)) = Len(s) - 1 /\ Len(s) \in Nat /\ Len(s) >= 1 /\ Head(s) = s[1]
      /\ \A i \in 1..Len(Tail(s)) : Tail(s)[i] = s[i + 1] /\ i + 1 \in 1..Len(s)
  OBVIOUS
<1>2. Ascends(Tail(s))
  BY <1>1 DEF Ascends
<1>3. ASSUME NEW n \in Numbers(Tail(s)) PROVE Head(s).n < n
  <2>1. PICK i \in 1..Len(Tail(s)) : n = Tail(s)[i].n
    BY DEF Numbers
  <2>2. i + 1 \in 1..Len(s) /\ n = s[i + 1].n /\ 1 \in 1..Len(s) /\ 1 < i + 1
    BY <1>1, <2>1
  <2> QED BY <1>1, <2>2 DEF Ascends
<1> QED BY <1>2, <1>3

(* A command executed is noted last, and a question answered is reported   *)
(* no more.                                                                *)
LEMMA ExecuteNotes ==
  ASSUME NEW w \in Work, NEW c \in Commands
  PROVE  /\ Execute(w, c) \in Work /\ Execute(w, c).ran = Append(w.ran, c)
         /\ Parked(w) => Parked(Execute(w, c))
<1> DEFINE done == [w EXCEPT !.ran = Append(@, c)]
           v == Execute(w, c)
<1>1. v \in Work
  BY ExecuteOnward DEF Onward
<1>2. /\ done.ran = Append(w.ran, c) /\ done.status = w.status /\ done.question = w.question
      /\ DOMAIN done = DOMAIN w
      /\ DOMAIN w = {"seq", "status", "pending", "nextId", "supports", "question", "ran", "refused"}
  BY DEF Work
<1>3. CASE c.op = "prompt"
  <2>1. v = Prompt(done, c)
    BY <1>3 DEF Execute
  <2> HIDE DEF done, v
  <2>2. v.ran = done.ran /\ v.status = "working"
    BY <1>2, <2>1 DEF Prompt, Request
  <2> QED BY <1>1, <1>2, <2>2 DEF Parked, v
<1>4. CASE c.op = "answer"
  <2>1. v = Answer(done, c)
    BY <1>4 DEF Execute
  <2> HIDE DEF done, v
  <2>2. v.ran = done.ran /\ (v.status = "working" \/ (v.status = done.status /\ v.question = done.question))
    BY <1>2, <2>1 DEF Answer
  <2> QED BY <1>1, <1>2, <2>2 DEF Parked, v
<1>5. CASE c.op = "model"
  <2>1. v = SetModel(done, c)
    BY <1>5 DEF Execute
  <2> HIDE DEF done, v
  <2>2. v.ran = done.ran /\ v.status = done.status /\ v.question = done.question
    BY <1>2, <2>1 DEF SetModel, Request
  <2> QED BY <1>1, <1>2, <2>2 DEF Parked, v
<1>6. CASE c.op \notin {"prompt", "answer", "model"}
  <2>1. v = done
    BY <1>6 DEF Execute
  <2> HIDE DEF done, v
  <2> QED BY <1>1, <1>2, <2>1 DEF Parked, v
<1> QED BY <1>3, <1>4, <1>5, <1>6

(* A flush notes the queue's commands in the queue's order.                *)
LEMMA FlushNotes ==
  ASSUME NEW w \in Work, queue \in Seq(Commands)
  PROVE  LET v == Flushed(w)
         IN  /\ Len(v.ran) = Len(w.ran) + Len(queue)
             /\ \A i \in 1..Len(w.ran) : v.ran[i] = w.ran[i]
             /\ \A i \in 1..Len(queue) : v.ran[Len(w.ran) + i] = queue[i]
             /\ Parked(w) => Parked(v)
<1>1. PICK f : /\ f[0] = w /\ Flushed(w) = f[Len(queue)]
               /\ \A i \in 1..Len(queue) : f[i] = Execute(f[i - 1], queue[i])
  BY FlushSteps
<1> DEFINE Noted(v, n) ==
             /\ v \in Work /\ Len(v.ran) = Len(w.ran) + n
             /\ \A i \in 1..Len(w.ran) : v.ran[i] = w.ran[i]
             /\ \A i \in 1..n : v.ran[Len(w.ran) + i] = queue[i]
             /\ Parked(w) => Parked(v)
           S == {n \in Nat : n <= Len(queue) => Noted(f[n], n)}
<1>0. w.ran \in Seq(Commands) /\ Len(w.ran) \in Nat /\ Len(queue) \in Nat
  BY DEF Work, Log
<1>2. 0 \in S
  BY <1>0, <1>1
<1>3. ASSUME NEW n \in S PROVE n + 1 \in S
  <2> SUFFICES ASSUME n + 1 <= Len(queue) PROVE Noted(f[n + 1], n + 1)
    OBVIOUS
  <2> DEFINE v == f[n]
             u == f[n + 1]
             c == queue[n + 1]
  <2>1. n \in Nat /\ n + 1 \in 1..Len(queue) /\ c \in Commands
    BY <1>0
  <2>2. Noted(v, n)
    BY <1>0, <2>1
  <2>3. u = Execute(v, c)
    BY <1>1, <2>1
  <2> HIDE DEF v, u, c
  <2>4. u \in Work /\ u.ran = Append(v.ran, c) /\ (Parked(w) => Parked(u))
    BY <2>1, <2>2, <2>3, ExecuteNotes
  <2>5. v.ran \in Seq(Commands)
    BY <2>2 DEF Work, Log
  <2>6. /\ Len(u.ran) = Len(w.ran) + (n + 1) /\ u.ran[Len(w.ran) + (n + 1)] = c
        /\ \A i \in 1..Len(w.ran) + n : u.ran[i] = v.ran[i]
    <3>1. \A r \in Seq(Commands), d \in Commands :
            /\ Len(Append(r, d)) = Len(r) + 1 /\ Append(r, d)[Len(r) + 1] = d
            /\ \A i \in 1..Len(r) : Append(r, d)[i] = r[i]
      OBVIOUS
    <3>2. /\ Len(u.ran) = Len(v.ran) + 1 /\ u.ran[Len(v.ran) + 1] = c
          /\ \A i \in 1..Len(v.ran) : u.ran[i] = v.ran[i]
      BY <2>1, <2>4, <2>5, <3>1
    <3>3. Len(v.ran) = Len(w.ran) + n
      BY <2>2
    <3>4. \A l, m \in Nat : (l + m) + 1 = l + (m + 1)
      OBVIOUS
    <3> QED BY <1>0, <2>1, <3>2, <3>3, <3>4
  <2>7. /\ \A i \in 1..Len(w.ran) : i \in 1..Len(w.ran) + n
        /\ \A i \in 1..n : Len(w.ran) + i \in 1..Len(w.ran) + n
        /\ \A i \in 1..n + 1 : i \in 1..n \/ i = n + 1
    BY <1>0, <2>1
  <2>8. Noted(u, n + 1)
    BY <2>2, <2>4, <2>6, <2>7 DEF c
  <2> QED BY <2>8 DEF u
<1>4. Len(queue) \in S
  <2> HIDE DEF S
  <2>1. S \in SUBSET Nat
    BY DEF S
  <2>2. S = Nat
    BY <1>2, <1>3, <2>1, Induction
  <2> QED BY <1>0, <2>2
<1>5. Noted(f[Len(queue)], Len(queue))
  BY <1>0, <1>4
<1> QED BY <1>1, <1>5

-----------------------------------------------------------------------------
(* What a command taken from the channel leaves of the line.               *)
LEMMA TakenInLine ==
  ASSUME ActorTypeOK, Lineup, TakeCommand
  PROVE  LET c == Head(cmds)
         IN  /\ c \in Commands /\ c.n \in Numbers(cmds)
             /\ Ascends(cmds') /\ Numbers(cmds') \subseteq Numbers(cmds)
             /\ \A n \in Numbers(cmds') : c.n < n
             /\ \A m \in Numbers(ran) \union Numbers(queue) : m < c.n
<1>1. cmds \in Seq(Commands) /\ cmds # <<>> /\ cmds' = Tail(cmds)
  BY DEF ActorTypeOK, TakeCommand
<1>2. Head(cmds) \in Commands /\ Numbers(cmds) = Numbers(cmds') \union {Head(cmds).n}
  BY <1>1, NumbersTaken
<1> QED BY <1>1, <1>2, AscendsTaken DEF Lineup, Ahead

(* Three queues in line, for the next state.                               *)
LEMMA InLine ==
  ASSUME ~holding', Ascends(ran'), Ascends(queue'), Ascends(cmds'),
         Ahead(ran', queue'), Ahead(ran', cmds'), Ahead(queue', cmds'),
         \A n \in Numbers(ran') \union Numbers(queue') \union Numbers(cmds') : n <= sent'
  PROVE  Lineup'
BY DEF Lineup, Ascends, Ahead, Numbers

LEMMA ForwardOrder ==
  ASSUME ActorTypeOK, OrderInv, NEW op \in {"prompt", "answer", "model", "cancel", "kill"}, NEW to \in Nat,
         Forward(op, to)
  PROVE  OrderInv'
<1> DEFINE c == [op |-> op, n |-> sent + 1, to |-> to]
<1>1. /\ c \in Commands /\ c.n = sent + 1 /\ sent \in Nat /\ cmds \in Seq(Commands)
      /\ ran \in Seq(Commands) /\ queue \in Seq(Commands)
  BY DEF Commands, ActorTypeOK
<1>2. cmds' = Append(cmds, c) /\ sent' = sent + 1
      /\ UNCHANGED <<start, holding, queue, question, alive, status, ran>>
  BY DEF Forward, handshake, report, past
<1> HIDE DEF c
<1>3. Numbers(cmds') = Numbers(cmds) \union {sent + 1}
  BY <1>1, <1>2, NumbersAppended
<1>4. ASSUME NEW s \in Seq(Commands) PROVE Numbers(s) \subseteq Nat
  <2>1. \A i \in 1..Len(s) : s[i] \in Commands
    OBVIOUS
  <2>2. \A d \in Commands : d.n \in Nat
    BY DEF Commands
  <2> QED BY <2>1, <2>2 DEF Numbers
<1>5. ASSUME Lineup PROVE Lineup'
  <2>1. \A n \in Numbers(ran) \union Numbers(queue) \union Numbers(cmds) : n \in Nat /\ n < sent + 1
    BY <1>1, <1>4, <1>5 DEF Lineup
  <2>2. Ascends(cmds')
    BY <1>1, <1>2, <1>5, <2>1, AscendsAppended DEF Lineup
  <2>3. Ahead(ran', cmds') /\ Ahead(queue', cmds')
    BY <1>2, <1>3, <1>5, <2>1 DEF Lineup, Ahead
  <2>4. \A n \in Numbers(ran') \union Numbers(queue') \union Numbers(cmds') : n <= sent'
    BY <1>1, <1>2, <1>3, <2>1
  <2> QED BY <1>2, <1>5, <2>2, <2>3, <2>4, InLine DEF Lineup
<1> QED BY <1>2, <1>5 DEF OrderInv, AskedIsAnswerable

LEMMA KillOrder == ASSUME ActorTypeOK, OrderInv, HandleKill PROVE OrderInv'
<1>1. /\ queue' = <<>> /\ ~alive' /\ TakeCommand /\ UNCHANGED <<start, holding, sent, ran>>
  BY DEF HandleKill, KillNow, handshake, past
<1>2. ASSUME Lineup PROVE Lineup'
  <2>1. Ascends(queue') /\ Numbers(queue') = {}
    BY <1>1 DEF Ascends, Numbers
  <2>2. Ascends(cmds') /\ Numbers(cmds') \subseteq Numbers(cmds)
    BY <1>1, <1>2, TakenInLine
  <2> QED BY <1>1, <1>2, <2>1, <2>2, InLine DEF Lineup, Ahead
<1> QED BY <1>1, <1>2 DEF OrderInv, AskedIsAnswerable

LEMMA ReadyOrder == ASSUME ActorInv, OrderInv, HandleReady PROVE OrderInv'
<1> USE DEF ActorInv
<1> DEFINE c == Head(cmds)
           v == Execute(Now, c)
<1>1. Become(v) /\ TakeCommand /\ acp /\ UNCHANGED <<start, holding, queue, alive, sent>>
  BY DEF HandleReady
<1>2. c \in Commands /\ Now \in Work /\ ran \in Seq(Commands)
  BY <1>1, CommandTaken, NowFollows DEF Follows, ActorTypeOK
<1>3. Now.ran = ran /\ Now.status = status /\ Now.question = question
  BY DEF Now
<1> HIDE DEF c
<1>4. v.ran = Append(ran, c) /\ (Parked(Now) => Parked(v))
  BY <1>2, <1>3, ExecuteNotes
<1>5. ran' = Append(ran, c) /\ status' = v.status /\ question' = v.question
  BY <1>1, <1>4 DEF Become
<1> HIDE DEF v
<1>6. AskedIsAnswerable'
  BY <1>1, <1>3, <1>4, <1>5 DEF OrderInv, AskedIsAnswerable, Parked
<1>7. ASSUME Lineup PROVE Lineup'
  <2>1. queue = <<>>
    BY <1>1, <1>7 DEF HeldForModel, Lineup
  <2>2. /\ c.n \in Numbers(cmds) /\ Ascends(cmds') /\ Numbers(cmds') \subseteq Numbers(cmds)
        /\ \A n \in Numbers(cmds') : c.n < n
        /\ \A m \in Numbers(ran) : m < c.n
    BY <1>1, <1>7, TakenInLine DEF c
  <2>3. Ascends(ran') /\ Numbers(ran') = Numbers(ran) \union {c.n}
    BY <1>2, <1>5, <1>7, <2>2, AscendsAppended, NumbersAppended DEF Lineup
  <2>4. Numbers(queue') = {} /\ Ascends(queue')
    BY <1>1, <2>1 DEF Numbers, Ascends
  <2> QED BY <1>1, <1>7, <2>2, <2>3, <2>4, InLine DEF Lineup, Ahead
<1> QED BY <1>1, <1>6, <1>7 DEF OrderInv

LEMMA EarlyOrder == ASSUME ActorTypeOK, OrderInv, HandleEarly PROVE OrderInv'
<1> DEFINE c == Head(cmds)
<1>1. /\ TakeCommand /\ UNCHANGED <<start, holding, question, alive, status, sent, ran>>
      /\ queue' \in {queue, Append(queue, c)} /\ queue \in Seq(Commands)
  BY DEF HandleEarly, handshake, ActorTypeOK
<1>2. ASSUME Lineup PROVE Lineup'
  <2>1. /\ c \in Commands /\ c.n \in Numbers(cmds) /\ Ascends(cmds') /\ Numbers(cmds') \subseteq Numbers(cmds)
        /\ \A n \in Numbers(cmds') : c.n < n
        /\ \A m \in Numbers(ran) \union Numbers(queue) : m < c.n
    BY <1>1, <1>2, TakenInLine
  <2> HIDE DEF c
  <2>2. Ascends(queue') /\ Numbers(queue') \subseteq Numbers(queue) \union {c.n}
    <3>1. Ascends(Append(queue, c)) /\ Numbers(Append(queue, c)) = Numbers(queue) \union {c.n}
      BY <1>1, <1>2, <2>1, AscendsAppended, NumbersAppended DEF Lineup
    <3>2. CASE queue' = Append(queue, c)
      BY <3>1, <3>2
    <3>3. CASE queue' = queue
      BY <1>2, <3>3 DEF Lineup
    <3> QED BY <1>1, <3>2, <3>3
  <2> QED BY <1>1, <1>2, <2>1, <2>2, InLine DEF Lineup, Ahead
<1> QED BY <1>1, <1>2 DEF OrderInv, AskedIsAnswerable

(* The first commands of the queue, put behind those executed before.      *)
LEMMA FrontInOrder ==
  ASSUME ActorTypeOK, Lineup, NEW stop \in 0..Len(queue), ran' \in Seq(Commands),
         Len(ran') = Len(ran) + stop,
         \A i \in 1..Len(ran) : ran'[i] = ran[i],
         \A i \in 1..stop : ran'[Len(ran) + i] = queue[i],
         queue' = <<>>, UNCHANGED <<holding, cmds, sent>>
  PROVE  Lineup'
<1>1. /\ queue \in Seq(Commands) /\ ran \in Seq(Commands) /\ Len(ran) \in Nat /\ Len(queue) \in Nat
      /\ stop \in Nat /\ stop <= Len(queue)
  BY DEF ActorTypeOK
<1>2. /\ Len(ran') = Len(ran) + stop
      /\ \A i \in 1..Len(ran) : ran'[i] = ran[i]
      /\ \A i \in 1..stop : ran'[Len(ran) + i] = queue[i]
  OBVIOUS
<1>3. ASSUME NEW i \in 1..Len(ran')
      PROVE  \/ i \in 1..Len(ran) /\ ran'[i] = ran[i] /\ ran[i].n \in Numbers(ran)
             \/ i - Len(ran) \in 1..Len(queue) /\ ran'[i] = queue[i - Len(ran)] /\ queue[i - Len(ran)].n \in Numbers(queue)
  <2>1. CASE i <= Len(ran)
    BY <1>1, <1>2, <2>1 DEF Numbers
  <2>2. CASE i > Len(ran)
    <3>1. i - Len(ran) \in 1..stop /\ i - Len(ran) \in 1..Len(queue) /\ Len(ran) + (i - Len(ran)) = i
      BY <1>1, <1>2, <2>2
    <3>2. ran'[Len(ran) + (i - Len(ran))] = queue[i - Len(ran)]
      BY <1>2, <3>1
    <3> QED BY <3>1, <3>2 DEF Numbers
  <2> QED BY <1>1, <1>2, <2>1, <2>2
<1>4. Numbers(ran') \subseteq Numbers(ran) \union Numbers(queue)
  BY <1>3 DEF Numbers
<1>5. Ascends(ran')
  <2> SUFFICES ASSUME NEW i \in 1..Len(ran'), NEW j \in 1..Len(ran'), i < j PROVE ran'[i].n < ran'[j].n
    BY DEF Ascends
  <2>1. CASE i \in 1..Len(ran) /\ j \in 1..Len(ran)
    BY <1>2, <2>1 DEF Lineup, Ascends
  <2>2. CASE i \in 1..Len(ran) /\ j \notin 1..Len(ran)
    <3>1. ran'[i].n \in Numbers(ran)
      BY <1>3, <2>2
    <3>2. ran'[j].n \in Numbers(queue)
      BY <1>3, <2>2
    <3> QED BY <3>1, <3>2 DEF Lineup, Ahead
  <2>3. CASE i \notin 1..Len(ran)
    <3>1. j \notin 1..Len(ran) /\ i - Len(ran) < j - Len(ran)
      BY <1>1, <1>2, <2>3
    <3> QED BY <1>3, <2>3, <3>1 DEF Lineup, Ascends
  <2> QED BY <2>1, <2>2, <2>3
<1>6. Ascends(queue') /\ Numbers(queue') = {}
  BY DEF Ascends, Numbers
<1> QED BY <1>4, <1>5, <1>6, InLine DEF Lineup, Ahead

(* So with a flush, of the whole queue or cut short.                       *)
LEMMA FlushOrder ==
  ASSUME ActorTypeOK, Lineup, NEW w \in Work, w.ran = ran, Become(Flushed(w)), queue' = <<>>,
         UNCHANGED <<holding, cmds, sent>>
  PROVE  Lineup'
<1>1. queue \in Seq(Commands) /\ Len(queue) \in 0..Len(queue)
  BY DEF ActorTypeOK
<1>2. /\ Len(ran') = Len(ran) + Len(queue)
      /\ \A i \in 1..Len(ran) : ran'[i] = ran[i]
      /\ \A i \in 1..Len(queue) : ran'[Len(ran) + i] = queue[i]
  BY <1>1, FlushNotes DEF Become
<1>3. ran' \in Seq(Commands)
  BY <1>1, FlushOnward DEF Become, Onward, Work, Log
<1> QED BY <1>1, <1>2, <1>3, FrontInOrder

LEMMA FlushUnnamedOrder ==
  ASSUME ActorTypeOK, Lineup, NEW stop \in 0..Len(queue), ran' = ran \o SubSeq(queue, 1, stop),
         queue' = <<>>, UNCHANGED <<holding, cmds, sent>>
  PROVE  Lineup'
<1> DEFINE head == SubSeq(queue, 1, stop)
<1>1. /\ ran \in Seq(Commands) /\ head \in Seq(Commands) /\ Len(head) = stop
      /\ \A i \in 1..stop : head[i] = queue[i]
  BY DEF ActorTypeOK
<1> HIDE DEF head
<1>2. ran' = ran \o head
  BY DEF head
<1>3. /\ ran' \in Seq(Commands) /\ Len(ran') = Len(ran) + stop
      /\ \A i \in 1..Len(ran) : ran'[i] = ran[i]
      /\ \A i \in 1..stop : ran'[Len(ran) + i] = queue[i]
  BY <1>1, <1>2
<1> QED BY <1>3, FrontInOrder

LEMMA OpenOrder ==
  ASSUME ActorInv, OrderInv, NEW rpc \in pending, NEW result, SessionOpened(rpc, result)
  PROVE  OrderInv'
<1> USE DEF ActorInv
<1> DEFINE a == Answered(Now, rpc)
           i == [a EXCEPT !.status = "idle"]
           u == Adopted(i, rpc, result)
           w == IF start.wants THEN [u EXCEPT !.seq = @ + 1] ELSE u
<1>1. UNCHANGED <<start, cmds, alive, sent>> /\ ApplyModel(u)
  BY DEF SessionOpened, spoken
<1>2. a \in Work /\ a.ran = ran
  BY NowFollows DEF Follows
<1> HIDE DEF a
<1>3. i \in Work /\ i.ran = ran /\ i.status = "idle"
  BY <1>2 DEF Work, Statuses
<1> HIDE DEF i
<1>4. u \in Work /\ u.ran = ran /\ u.status = "idle"
  <2>1. (result = "models") \in BOOLEAN
    OBVIOUS
  <2> QED BY <1>3, <2>1 DEF Work, Adopted
<1> HIDE DEF u
<1>5. w \in Work /\ w.ran = ran /\ Parked(w)
  BY <1>4 DEF Work, Parked
<1> HIDE DEF w
<1>6. CASE start.wants /\ u.supports
  <2>1. Become(Request(u, "set_model"))
    BY <1>1, <1>6 DEF ApplyModel
  <2>2. Request(u, "set_model").status = u.status
    BY <1>4 DEF Request, Work
  <2>3. status' = "idle" /\ start'.wants
    BY <1>1, <1>4, <1>6, <2>1, <2>2 DEF Become
  <2> QED BY <2>3 DEF OrderInv, AskedIsAnswerable
<1>7. CASE ~(start.wants /\ u.supports)
  <2>1. Become(Flushed(w)) /\ queue' = <<>> /\ holding' = holding
    BY <1>1, <1>7 DEF ApplyModel, w
  <2>2. Parked(Flushed(w))
    BY <1>5, FlushNotes DEF ActorTypeOK
  <2>3. AskedIsAnswerable'
    BY <2>1, <2>2 DEF AskedIsAnswerable, Become, Parked
  <2>4. Lineup => Lineup'
    BY <1>1, <1>5, <2>1, FlushOrder
  <2> QED BY <1>1, <2>3, <2>4 DEF OrderInv
<1> QED BY <1>6, <1>7

LEMMA UnnamedOrder ==
  ASSUME ActorInv, OrderInv, NEW rpc \in pending, NEW result, SessionUnnamed(rpc, result)
  PROVE  OrderInv'
<1> USE DEF ActorInv
<1> DEFINE a == Answered(Now, rpc)
           i == [a EXCEPT !.status = "idle"]
           u == Adopted(i, rpc, result)
           w == IF start.wants THEN [u EXCEPT !.seq = @ + 1] ELSE u
<1>1. /\ UNCHANGED <<start, cmds, sent>>
      /\ IF start.wants /\ u.supports THEN HoldUnnamed(u) ELSE FlushUnnamed(w) /\ holding' = holding
  BY DEF SessionUnnamed, spoken
<1>2. a \in Work /\ a.ran = ran
  BY NowFollows DEF Follows
<1> HIDE DEF a
<1>3. i \in Work /\ i.ran = ran /\ i.status = "idle"
  BY <1>2 DEF Work, Statuses
<1> HIDE DEF i
<1>4. u \in Work /\ u.ran = ran /\ u.status = "idle"
  <2>1. (result = "models") \in BOOLEAN
    OBVIOUS
  <2> QED BY <1>3, <2>1 DEF Work, Adopted
<1> HIDE DEF u
<1>5. w \in Work /\ w.ran = ran /\ w.status = "idle"
  BY <1>4 DEF Work
<1> HIDE DEF w
<1>6. CASE start.wants /\ u.supports
  <2>1. Become(u)
    BY <1>1, <1>6 DEF HoldUnnamed
  <2>2. status' = "idle" /\ start'.wants
    BY <1>1, <1>4, <1>6, <2>1 DEF Become
  <2> QED BY <2>2 DEF OrderInv, AskedIsAnswerable
<1>7. CASE ~(start.wants /\ u.supports)
  <2>1. /\ queue' = <<>> /\ holding' = holding
        /\ \E stop \in 0..Len(queue) : StopsAt(stop) /\ Become(FlushedUnnamed(w, stop))
    BY <1>1, <1>7 DEF FlushUnnamed
  <2>2. PICK stop \in 0..Len(queue) : StopsAt(stop) /\ Become(FlushedUnnamed(w, stop))
    BY <2>1
  <2>3. status' = "idle" /\ ran' = ran \o SubSeq(queue, 1, stop)
    BY <1>5, <2>2, FlushUnnamedOnward DEF Become, ActorTypeOK
  <2>4. Lineup => Lineup'
    BY <1>1, <2>1, <2>3, FlushUnnamedOrder
  <2> QED BY <1>1, <2>3, <2>4 DEF OrderInv, AskedIsAnswerable
<1> QED BY <1>6, <1>7

LEMMA ModelOrder ==
  ASSUME ActorInv, OrderInv, NEW rpc \in pending, NEW ok \in BOOLEAN, ModelAnswered(rpc, ok)
  PROVE  OrderInv'
<1> USE DEF ActorInv
<1> DEFINE a == Answered(Now, rpc)
           u == IF ok THEN a ELSE ModelRefused(a)
<1>1. /\ UNCHANGED <<start, cmds, alive, sent>>
      /\ IF holding THEN Become(Flushed(u)) /\ queue' = <<>> /\ holding' = FALSE
         ELSE Become(u) /\ queue' = queue /\ holding' = holding
  BY DEF ModelAnswered, Release, spoken
<1>2. a \in Work /\ a.ran = ran /\ a.status = status /\ a.question = question
  <2>1. a.status = status /\ a.question = question
    BY DEF Answered, Now
  <2> QED BY <2>1, NowFollows DEF Follows
<1> HIDE DEF a
<1>3. u \in Work /\ u.ran = ran /\ u.status = status /\ u.question = question
  BY <1>2 DEF Work, ModelRefused
<1> HIDE DEF u
<1>4. AskedIsAnswerable'
  <2>1. alive' => Parked(u)
    BY <1>1, <1>3 DEF OrderInv, AskedIsAnswerable, Parked
  <2>2. CASE holding
    BY <1>1, <1>3, <2>1, <2>2, FlushNotes DEF AskedIsAnswerable, Become, Parked, ActorTypeOK
  <2>3. CASE ~holding
    BY <1>1, <2>1, <2>3 DEF AskedIsAnswerable, Become, Parked
  <2> QED BY <2>2, <2>3
<1>5. ASSUME Lineup PROVE Lineup'
  <2>1. UNCHANGED <<holding, queue, ran>>
    BY <1>1, <1>3, <1>5 DEF Lineup, Become
  <2> QED BY <1>1, <1>5, <2>1, InLine DEF Lineup
<1> QED BY <1>1, <1>4, <1>5 DEF OrderInv

(* Steps that execute nothing.                                             *)
LEMMA QuietOrder ==
  ASSUME OrderInv, UNCHANGED <<start, cmds, holding, sent, ran>>,
         queue' \in {queue, <<>>}, AskedIsAnswerable'
  PROVE  OrderInv'
<1>1. ASSUME Lineup PROVE Lineup'
  <2>1. Ascends(queue') /\ Numbers(queue') \subseteq Numbers(queue)
    BY <1>1 DEF Lineup, Ascends, Numbers
  <2> QED BY <1>1, <2>1, InLine DEF Lineup, Ahead
<1> QED BY <1>1 DEF OrderInv

LEMMA OtherOrder ==
  ASSUME ActorInv, OrderInv,
         \/ \E rpc \in pending :
              \/ Initialized(rpc) \/ LoadRefused(rpc) \/ HandshakeRefused(rpc) \/ HandshakeTimeout(rpc)
              \/ \E ok \in BOOLEAN : TurnEnded(rpc, ok)
         \/ \E update \in Updates : SessionUpdate(update)
         \/ PermissionRequest \/ AgentExits \/ OnEof \/ UNCHANGED actorVars
  PROVE  OrderInv'
<1> USE DEF ActorInv, report, spoken, past, handshake
<1>1. ASSUME NEW rpc \in pending, Initialized(rpc) \/ LoadRefused(rpc) PROVE OrderInv'
  <2>1. UNCHANGED <<start, cmds, holding, sent, ran, queue, question, alive, status>>
    BY <1>1 DEF Initialized, LoadRefused
  <2> QED BY <2>1, QuietOrder DEF OrderInv, AskedIsAnswerable
<1>2. ASSUME NEW rpc \in pending, HandshakeRefused(rpc) \/ HandshakeTimeout(rpc) PROVE OrderInv'
  <2>1. /\ UNCHANGED <<start, cmds, holding, sent, ran, question>>
        /\ \/ queue' = <<>> /\ status' = "error" /\ alive' = FALSE
           \/ UNCHANGED <<queue, status, alive>>
    BY <1>2 DEF HandshakeRefused, HandshakeTimeout, Fail
  <2> QED BY <2>1, QuietOrder DEF OrderInv, AskedIsAnswerable
<1>3. ASSUME NEW rpc \in pending, NEW ok \in BOOLEAN, TurnEnded(rpc, ok) PROVE OrderInv'
  <2>1. /\ UNCHANGED <<start, cmds, holding, sent, ran, queue, question, alive>>
        /\ status' = "asked" => question # 0
    BY <1>3 DEF TurnEnded, TurnStatus
  <2> QED BY <2>1, QuietOrder DEF OrderInv, AskedIsAnswerable
<1>4. ASSUME NEW update \in Updates, SessionUpdate(update) PROVE OrderInv'
  <2>1. UNCHANGED <<start, cmds, holding, sent, ran, queue, question, alive, status>>
    BY <1>4 DEF SessionUpdate
  <2> QED BY <2>1, QuietOrder DEF OrderInv, AskedIsAnswerable
<1>5. CASE PermissionRequest
  <2>1. /\ UNCHANGED <<start, cmds, holding, sent, ran, queue, alive>>
        /\ UNCHANGED <<question, status>> \/ question' = asks + 1
    BY <1>5 DEF PermissionRequest
  <2>2. asks + 1 # 0
    BY DEF ActorTypeOK
  <2> QED BY <2>1, <2>2, QuietOrder DEF OrderInv, AskedIsAnswerable
<1>6. CASE AgentExits \/ OnEof
  <2>1. /\ UNCHANGED <<start, cmds, holding, sent, ran>> /\ ~alive' /\ queue' \in {queue, <<>>}
    BY <1>6 DEF AgentExits, OnEof
  <2> QED BY <2>1, QuietOrder DEF AskedIsAnswerable
<1>7. CASE UNCHANGED actorVars
  <2>1. UNCHANGED <<start, cmds, holding, sent, ran, queue, question, alive, status>>
    BY <1>7 DEF actorVars
  <2> QED BY <2>1, QuietOrder DEF OrderInv, AskedIsAnswerable
<1> QED BY <1>1, <1>2, <1>3, <1>4, <1>5, <1>6, <1>7

LEMMA NextOrderInv == ActorInv /\ OrderInv /\ [ActorNext]_actorVars => OrderInv'
<1> SUFFICES ASSUME ActorInv, OrderInv, [ActorNext]_actorVars PROVE OrderInv'
  OBVIOUS
<1>1. ActorTypeOK
  BY DEF ActorInv
<1>2. ASSUME NEW op \in {"prompt", "model", "cancel", "kill"}, Forward(op, 0) PROVE OrderInv'
  BY <1>1, <1>2, ForwardOrder
<1>3. ASSUME NEW to \in 1..asks, Forward("answer", to) PROVE OrderInv'
  <2>1. to \in Nat
    BY <1>1 DEF ActorTypeOK
  <2> QED BY <1>1, <1>3, <2>1, ForwardOrder
<1>4. CASE HandleKill \/ HandleReady \/ HandleEarly
  BY <1>1, <1>4, KillOrder, ReadyOrder, EarlyOrder
<1>5. ASSUME NEW rpc \in pending,
             \/ \E result \in Results : SessionOpened(rpc, result) \/ SessionUnnamed(rpc, result)
             \/ \E ok \in BOOLEAN : ModelAnswered(rpc, ok)
      PROVE  OrderInv'
  BY <1>5, OpenOrder, UnnamedOrder, ModelOrder
<1> QED BY <1>2, <1>3, <1>4, <1>5, OtherOrder DEF ActorNext

(* Unless a model was asked for when the session was created, commands run *)
(* in the order they were sent, those of the handshake's time included.    *)
THEOREM CommandsRunInOrder == ActorSpec => []InOrder
<1>1. ActorInv /\ OrderInv => InOrder
  BY DEF OrderInv, Lineup, Ascends, InOrder
<1>2. ActorInv /\ OrderInv /\ [ActorNext]_actorVars => (ActorInv /\ OrderInv)'
  BY NextActorInv, NextOrderInv
<1> QED BY <1>1, <1>2, InitActorInv, InitOrderInv, PTL DEF ActorSpec

(* A session reported as asking has a question that an answer will find.   *)
THEOREM QuestionsAreParked == ActorSpec => []AskedIsAnswerable
<1>1. ActorInv /\ OrderInv => AskedIsAnswerable
  BY DEF OrderInv
<1>2. ActorInv /\ OrderInv /\ [ActorNext]_actorVars => (ActorInv /\ OrderInv)'
  BY NextActorInv, NextOrderInv
<1> QED BY <1>1, <1>2, InitActorInv, InitOrderInv, PTL DEF ActorSpec
=============================================================================
