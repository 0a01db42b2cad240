---------------------------- MODULE ComposerProofs ----------------------------
(***************************************************************************)
(* Theorems of Composer, for every number of ids, checks and faults.  IInv *)
(* is inductive.  Its heart is Dead: an id whose reservation is spent and  *)
(* that can no longer reach the terminal.  "failed" is only ever said of a *)
(* dead id, and the browser makes up a new id only after "failed", so that *)
(* all ids but the last are dead.                                          *)
(***************************************************************************)
EXTENDS Composer, TLAPS

(* The id is reserved and was not typed, and nobody is left to type it.    *)
Dead(m) ==
  /\ row[m] # "none"
  /\ task[m] \notin {"reserved", "waiting"}
  /\ cmd[m] \in {"none", "done"}
  /\ typed[m] = 0

(* How far the row, the task, the command and the answer of one id can be  *)
(* apart.                                                                  *)
InStep(m) ==
  /\ row[m] = "none" => task[m] = "none" /\ cmd[m] = "none"
  /\ task[m] # "none" => row[m] = "unknown"
  /\ task[m] = "reserved" => cmd[m] = "none"
  /\ cmd[m] \in {"none", "wire", "held"} => m \notin silent
  /\ cmd[m] # "done" => typed[m] = 0
  /\ m \notin silent => answer[m] = "none"
  /\ answer[m] = "failed" => cmd[m] = "done" /\ typed[m] = 0
  /\ answer[m] = "delivered" => typed[m] > 0

(* What an outcome says of the id it is about.                             *)
Tells(m, status) ==
  /\ status = "failed" => Dead(m)
  /\ status = "delivered" => typed[m] > 0

Said(m, status) == \E i \in DOMAIN toBrowser : toBrowser[i] = [id |-> m, status |-> status]

Honest ==
  \A m \in Ids :
    /\ Tells(m, row[m]) /\ Tells(m, task[m])
    /\ \A status \in Statuses : Said(m, status) => Tells(m, status)

(* Ids not made up yet are nowhere; all ids but the last are dead, and the *)
(* last too before another one is made up.                                 *)
OneAlive ==
  /\ pending \in {0, used}
  /\ busy => draft = "open"
  /\ \A m \in Ids : m > used => row[m] = "none" /\ m \notin late
  /\ \A i \in DOMAIN toHub : toHub[i] <= used
  /\ \A m \in Ids : m < used \/ (m = used /\ draft = "open" /\ pending = 0) => Dead(m)

IInv == TypeOK /\ (\A m \in Ids : InStep(m)) /\ Honest /\ OneAlive

-----------------------------------------------------------------------------
(* The steps of one id's task, command and answer.                         *)
HubStep(m) == Dispatch(m) \/ TakeAnswer(m) \/ HubTimeout(m) \/ Finish(m)
MachineStep(m) ==
  \/ TakeCommand(m) \/ RefuseCommand(m) \/ Enqueue(m)
  \/ WriterTypes(m) \/ WriterStops(m) \/ AckTimeout(m)
BrowserStep ==
  Send \/ Receive \/ StopWaiting \/ DiscardDraft \/ LoseSocket \/ OpenSocket

(* Every step is one of the browser's, of a fault, or of one id's task or  *)
(* command.                                                                *)
LEMMA NextSplit ==
  Next <=> \/ BrowserStep \/ SubmitHere
           \/ LoseMachine \/ LinkMachine \/ RestartHub
           \/ \E m \in Ids : SubmitLate(m) \/ HubStep(m) \/ MachineStep(m)
  BY DEF Next, BrowserStep, HubStep, MachineStep

(* What the browser does leaves every row, task and command as it is.      *)
LEMMA BrowserLeaves == BrowserStep => UNCHANGED <<row, task, node>>
  BY DEF BrowserStep, Send, Receive, StopWaiting, DiscardDraft, LoseSocket, OpenSocket, socket

(* A submitted id is reserved if it has no row, and else changes nothing.  *)
LEMMA SubmitReserves ==
  SubmitHere \/ (\E m \in Ids : SubmitLate(m)) =>
    /\ UNCHANGED node
    /\ \/ UNCHANGED <<row, task>>
       \/ \E m : row[m] = "none" /\ Reserve(m)
  BY DEF SubmitHere, SubmitLate, Fresh

-----------------------------------------------------------------------------
(* No step lets an id's row, task, command and answer drift apart.         *)
LEMMA InStepStep ==
  ASSUME TypeOK, \A m \in Ids : InStep(m), Next
  PROVE  \A m \in Ids : InStep(m)'
<1> USE DEF TypeOK, InStep, Statuses
<1>1. CASE UNCHANGED <<row, task, node>>
  BY <1>1 DEF node
<1>2. ASSUME NEW m, row[m] = "none", Reserve(m), UNCHANGED node PROVE \A n \in Ids : InStep(n)'
  BY <1>2 DEF Reserve, node
<1>3. ASSUME NEW m \in Ids, HubStep(m) PROVE \A n \in Ids : InStep(n)'
  <2>1. CASE Dispatch(m)
    BY <2>1 DEF Dispatch
  <2>2. CASE TakeAnswer(m)
    BY <2>2 DEF TakeAnswer
  <2>3. CASE HubTimeout(m)
    BY <2>3 DEF HubTimeout, AfterTimeout, node
  <2>4. CASE Finish(m)
    BY <2>4 DEF Finish, node
  <2> QED BY <1>3, <2>1, <2>2, <2>3, <2>4 DEF HubStep
<1>4. ASSUME NEW m \in Ids, MachineStep(m) PROVE \A n \in Ids : InStep(n)'
  <2>1. CASE TakeCommand(m)
    BY <2>1 DEF TakeCommand
  <2>2. CASE RefuseCommand(m)
    BY <2>2 DEF RefuseCommand, Answer
  <2>3. CASE Enqueue(m)
    BY <2>3 DEF Enqueue
  <2>4. CASE WriterTypes(m)
    BY <2>4 DEF WriterTypes, Answer, Outcomes
  <2>5. CASE WriterStops(m)
    BY <2>5 DEF WriterStops, Answer
  <2>6. CASE AckTimeout(m)
    BY <2>6 DEF AckTimeout, Answer
  <2> QED BY <1>4, <2>1, <2>2, <2>3, <2>4, <2>5, <2>6 DEF MachineStep
<1>5. CASE LoseMachine \/ LinkMachine \/ RestartHub
  BY <1>5 DEF LoseMachine, LinkMachine, RestartHub, Unlinked
<1> QED BY <1>1, <1>2, <1>3, <1>4, <1>5, NextSplit, BrowserLeaves, SubmitReserves

(* The dead stay dead and the typed stay typed: what was told stays true.  *)
LEMMA TellsStays ==
  ASSUME TypeOK, \A m \in Ids : InStep(m), Next, NEW m \in Ids, NEW status, Tells(m, status)
  PROVE  Tells(m, status)'
<1> USE DEF TypeOK, InStep, Tells, Dead, Statuses
<1>1. CASE UNCHANGED <<row, task, node>>
  BY <1>1 DEF node
<1>2. ASSUME NEW n, row[n] = "none", Reserve(n), UNCHANGED node PROVE Tells(m, status)'
  BY <1>2 DEF Reserve, node
<1>3. ASSUME NEW n \in Ids, HubStep(n) PROVE Tells(m, status)'
  <2>1. CASE Dispatch(n)
    BY <2>1 DEF Dispatch
  <2>2. CASE TakeAnswer(n)
    BY <2>2 DEF TakeAnswer
  <2>3. CASE HubTimeout(n)
    BY <2>3 DEF HubTimeout, AfterTimeout, node
  <2>4. CASE Finish(n)
    BY <2>4 DEF Finish, node
  <2> QED BY <1>3, <2>1, <2>2, <2>3, <2>4 DEF HubStep
<1>4. ASSUME NEW n \in Ids, MachineStep(n) PROVE Tells(m, status)'
  BY <1>4 DEF MachineStep, TakeCommand, RefuseCommand, Enqueue, WriterTypes, WriterStops, AckTimeout
<1>5. CASE LoseMachine \/ LinkMachine \/ RestartHub
  BY <1>5 DEF LoseMachine, LinkMachine, RestartHub, Unlinked
<1> QED BY <1>1, <1>2, <1>3, <1>4, <1>5, NextSplit, BrowserLeaves, SubmitReserves

-----------------------------------------------------------------------------
(* Counting a check or a fault keeps the counters natural numbers.         *)
LEMMA BumpKeeps ==
  ASSUME count \in [{"check", "fault"} -> Nat], NEW what \in {"check", "fault"}, NEW max,
         Bump(what, max)
  PROVE  count' \in [{"check", "fault"} -> Nat]
  BY DEF Bump

(* A receipt sent keeps the socket's queue a sequence of receipts.         *)
LEMMA ReplyType ==
  ASSUME toBrowser \in Seq(Receipts), NEW m \in Ids, NEW status \in Statuses, Reply(m, status)
  PROVE  toBrowser' \in Seq(Receipts)
<1>1. [id |-> m, status |-> status] \in Receipts
  BY DEF Receipts
<1> QED BY <1>1 DEF Reply

(* Losing the machine's connection keeps its part of the state well typed. *)
LEMMA UnlinkedType ==
  ASSUME TypeOK, Unlinked
  PROVE  /\ linked' \in BOOLEAN /\ orphan' \subseteq Ids
         /\ cmd' \in [Ids -> {"none", "wire", "held", "queued", "done"}]
         /\ answer' \in [Ids -> Statuses \union {"none"}]
  BY DEF TypeOK, Unlinked

(* Every action keeps every variable's type.                               *)
LEMMA TypeStep == TypeOK /\ [Next]_vars => TypeOK'
<1> SUFFICES ASSUME TypeOK, Next PROVE TypeOK'
  BY DEF TypeOK, vars, browser, socket, node
<1> USE BoundsAssumption DEF TypeOK, browser, socket, node
<1>1. CASE Send
  <2>1. IdToSend \in Ids /\ pending' = IdToSend /\ used' \in 0..MaxIds /\ IdToSend <= used'
    BY <1>1 DEF Send, IdToSend, Ids
  <2>2. pending' \in 0..used'
    BY <2>1 DEF Ids
  <2>3. toHub' \in Seq(Ids)
    <3>1. toHub' = toHub \/ toHub' = Append(toHub, IdToSend)
      BY <1>1 DEF Send
    <3>2. Append(toHub, IdToSend) \in Seq(Ids)
      BY <2>1
    <3> QED BY <3>1, <3>2
  <2>5. busy' \in BOOLEAN
    BY <1>1 DEF Send
  <2>4. count' \in [{"check", "fault"} -> Nat]
    BY <1>1, BumpKeeps DEF Send
  <2> QED BY <1>1, <2>1, <2>2, <2>3, <2>4, <2>5 DEF Send
<1>2. CASE Receive
  <2>1. toBrowser' \in Seq(Receipts)
    BY <1>2 DEF Receive
  <2>2. pending' \in 0..used /\ draft' \in {"open", "delivered", "discarded"}
    BY <1>2 DEF Receive, Settled
  <2>3. busy' \in BOOLEAN
    BY <1>2 DEF Receive
  <2> QED BY <1>2, <2>1, <2>2, <2>3 DEF Receive
<1>3. CASE StopWaiting \/ DiscardDraft
  <2>1. pending' \in 0..used' /\ draft' \in {"open", "delivered", "discarded"}
    BY <1>3 DEF StopWaiting, DiscardDraft
  <2>2. busy' \in BOOLEAN
    BY <1>3 DEF StopWaiting, DiscardDraft
  <2> QED BY <1>3, <2>1, <2>2 DEF StopWaiting, DiscardDraft
<1>4. CASE OpenSocket
  BY <1>4 DEF OpenSocket
<1>5. CASE LoseSocket
  <2>1. count' \in [{"check", "fault"} -> Nat]
    BY <1>5, BumpKeeps DEF LoseSocket
  <2>2. {toHub[i] : i \in DOMAIN toHub} \subseteq Ids
    OBVIOUS
  <2>3. late' \subseteq Ids
    BY <1>5, <2>2 DEF LoseSocket
  <2>4. toHub' \in Seq(Ids) /\ toBrowser' \in Seq(Receipts)
    BY <1>5 DEF LoseSocket
  <2> QED BY <1>5, <2>1, <2>3, <2>4 DEF LoseSocket
<1>6. CASE SubmitHere
  <2>1. Head(toHub) \in Ids /\ toHub' \in Seq(Ids)
    BY <1>6 DEF SubmitHere
  <2>2. toBrowser' \in Seq(Receipts)
    BY <1>6, <2>1, ReplyType DEF SubmitHere, Fresh, Statuses
  <2>3. slot' \in 0..MaxIds
    <3>1. slot' = slot \/ slot' = Head(toHub)
      BY ONLY <1>6 DEF SubmitHere
    <3>2. slot \in 0..MaxIds
      BY ONLY TypeOK DEF TypeOK
    <3> QED BY ONLY BoundsAssumption, <2>1, <3>1, <3>2 DEF Ids
  <2>4. /\ row' \in [Ids -> Statuses \union {"none"}]
        /\ task' \in [Ids -> Statuses \union {"none", "reserved", "waiting"}]
    BY <1>6, SubmitReserves DEF Reserve, Statuses
  <2> QED BY <1>6, <2>1, <2>2, <2>3, <2>4 DEF SubmitHere
<1>7. ASSUME NEW m \in Ids, SubmitLate(m) PROVE TypeOK'
  BY <1>7 DEF SubmitLate, Reserve, Statuses
<1>8. ASSUME NEW m \in Ids, HubStep(m) PROVE TypeOK'
  <2>1. CASE Dispatch(m)
    BY <2>1 DEF Dispatch, Statuses
  <2>2. CASE TakeAnswer(m)
    BY <2>2 DEF TakeAnswer, Statuses
  <2>3. CASE HubTimeout(m)
    BY <2>3 DEF HubTimeout, AfterTimeout, Statuses
  <2>4. CASE Finish(m)
    <3>1. toBrowser' \in Seq(Receipts)
      BY <2>4, ReplyType DEF Finish
    <3>2. slot' \in 0..MaxIds
      BY <2>4 DEF Finish
    <3>3. row' \in [Ids -> Statuses \union {"none"}]
      BY <2>4 DEF Finish
    <3> QED BY <2>4, <3>1, <3>2, <3>3 DEF Finish
  <2> QED BY <1>8, <2>1, <2>2, <2>3, <2>4 DEF HubStep
<1>9. ASSUME NEW m \in Ids, MachineStep(m) PROVE TypeOK'
  <2>1. CASE TakeCommand(m) \/ RefuseCommand(m) \/ Enqueue(m)
    BY <2>1 DEF TakeCommand, RefuseCommand, Enqueue, Answer, Statuses
  <2>2. CASE WriterTypes(m)
    <3>1. typed' \in [Ids -> Nat]
      BY <2>2 DEF WriterTypes
    <3>2. silent' \subseteq Ids /\ answer' \in [Ids -> Statuses \union {"none"}]
      BY <2>2 DEF WriterTypes, Answer, Outcomes, Statuses
    <3> QED BY <2>2, <3>1, <3>2 DEF WriterTypes
  <2>3. CASE WriterStops(m) \/ AckTimeout(m)
    BY <2>3 DEF WriterStops, AckTimeout, Answer, Statuses
  <2> QED BY <1>9, <2>1, <2>2, <2>3 DEF MachineStep
<1>10. CASE LoseMachine
  BY <1>10, UnlinkedType, BumpKeeps DEF LoseMachine
<1>11. CASE LinkMachine
  BY <1>11 DEF LinkMachine
<1>12. CASE RestartHub
  <2>1. count' \in [{"check", "fault"} -> Nat]
    BY <1>12, BumpKeeps DEF RestartHub
  <2>2. toHub' \in Seq(Ids) /\ toBrowser' \in Seq(Receipts) /\ late' \subseteq Ids /\ slot' \in 0..MaxIds
    BY <1>12 DEF RestartHub
  <2>3. task' \in [Ids -> Statuses \union {"none", "reserved", "waiting"}]
    BY <1>12 DEF RestartHub
  <2>4. Unlinked /\ UNCHANGED <<draft, pending, used, row, silent, typed>> /\ sock' = FALSE /\ busy' = FALSE
    BY <1>12 DEF RestartHub
  <2> QED BY <2>1, <2>2, <2>3, <2>4, UnlinkedType
<1> QED
  BY <1>1, <1>2, <1>3, <1>4, <1>5, <1>6, <1>7, <1>8, <1>9, <1>10, <1>11, <1>12, NextSplit
     DEF BrowserStep

-----------------------------------------------------------------------------
(* What the browser may be told after a step: what it was, and the reply.  *)
LEMMA ReplySays ==
  ASSUME toBrowser \in Seq(Receipts), NEW m \in Ids, NEW status \in Statuses,
         Reply(m, status), NEW n, NEW told, Said(n, told)'
  PROVE  Said(n, told) \/ (n = m /\ told = status)
<1>1. PICK i \in DOMAIN toBrowser' : toBrowser'[i] = [id |-> n, status |-> told]
  BY DEF Said
<1>2. CASE i \in DOMAIN toBrowser /\ toBrowser'[i] = toBrowser[i]
  BY <1>1, <1>2 DEF Said
<1>3. CASE sock /\ i = Len(toBrowser) + 1
  BY <1>1, <1>3 DEF Reply
<1> QED BY <1>1, <1>2, <1>3 DEF Reply

(* Rows, tasks and receipts only ever say of an id what is true of it: an  *)
(* outcome is passed on by TakeAnswer, Finish and the replies unchanged.   *)
LEMMA HonestStep ==
  ASSUME TypeOK, \A m \in Ids : InStep(m), Honest, Next
  PROVE  Honest'
<1> SUFFICES ASSUME NEW m \in Ids
             PROVE  /\ Tells(m, row[m])' /\ Tells(m, task[m])'
                    /\ \A told \in Statuses : Said(m, told)' => Tells(m, told)'
  BY DEF Honest
<1>1. ASSUME NEW status, Tells(m, status) PROVE Tells(m, status)'
  BY <1>1, TellsStays
<1>2. Tells(m, "unknown") /\ Tells(m, row[m]) /\ Tells(m, task[m])
  BY DEF Tells, Honest
<1>3. Tells(m, row[m])'
  <2>1. row'[m] \in {row[m], "unknown", task[m]}
    <3>1. CASE \E n \in Ids : Finish(n)
      BY <3>1 DEF Finish, TypeOK
    <3>2. CASE UNCHANGED row \/ \E n : Reserve(n)
      BY <3>2 DEF Reserve, TypeOK
    <3>3. (\E n \in Ids : Finish(n)) \/ UNCHANGED row \/ (\E n : Reserve(n))
      <4>1. ASSUME NEW n \in Ids, HubStep(n), ~Finish(n) PROVE UNCHANGED row
        BY <4>1 DEF HubStep, Dispatch, TakeAnswer, HubTimeout
      <4>2. ASSUME NEW n \in Ids, MachineStep(n) PROVE UNCHANGED row
        BY <4>2 DEF MachineStep, TakeCommand, RefuseCommand, Enqueue, WriterTypes,
                    WriterStops, AckTimeout
      <4>3. LoseMachine \/ LinkMachine \/ RestartHub => UNCHANGED row
        BY DEF LoseMachine, LinkMachine, RestartHub
      <4> QED BY <4>1, <4>2, <4>3, NextSplit, BrowserLeaves, SubmitReserves
    <3> QED BY <3>1, <3>2, <3>3
  <2>2. ASSUME NEW status, Tells(m, status), row'[m] = status PROVE Tells(m, row[m])'
    <3>1. Tells(m, status)'
      BY <1>1, <2>2
    <3> QED BY <2>2, <3>1 DEF Tells
  <2> QED BY <1>2, <2>1, <2>2
<1>4. Tells(m, task[m])'
  <2>1. ASSUME NEW status, Tells(m, status), task'[m] = status PROVE Tells(m, task[m])'
    <3>1. Tells(m, status)'
      BY <1>1, <2>1
    <3> QED BY <2>1, <3>1 DEF Tells
  <2>2. CASE UNCHANGED task
    BY <1>2, <2>1, <2>2
  <2>3. ASSUME NEW n, Reserve(n) PROVE Tells(m, task[m])'
    BY <1>2, <2>1, <2>3 DEF Reserve, TypeOK, Tells
  <2>4. ASSUME NEW n \in Ids, HubStep(n) PROVE Tells(m, task[m])'
    <3>1. CASE Dispatch(n)
      BY <1>2, <3>1 DEF Dispatch, TypeOK, InStep, Tells, Dead, Statuses
    <3>2. CASE TakeAnswer(n)
      BY <1>2, <3>2 DEF TakeAnswer, TypeOK, InStep, Tells, Dead, Statuses
    <3>3. CASE HubTimeout(n) \/ Finish(n)
      <4>1. task'[m] \in {task[m], "unknown", "none"}
        BY <3>3 DEF HubTimeout, Finish, AfterTimeout, TypeOK
      <4> QED BY <1>2, <2>1, <4>1 DEF Tells
    <3> QED BY <2>4, <3>1, <3>2, <3>3 DEF HubStep
  <2>5. ASSUME NEW n \in Ids, MachineStep(n) PROVE UNCHANGED task
    BY <2>5 DEF MachineStep, TakeCommand, RefuseCommand, Enqueue, WriterTypes, WriterStops,
                AckTimeout
  <2>6. CASE LoseMachine \/ LinkMachine
    BY <2>2, <2>6 DEF LoseMachine, LinkMachine
  <2>7. CASE RestartHub
    BY <2>7 DEF RestartHub, Tells
  <2> QED BY <2>2, <2>3, <2>4, <2>5, <2>6, <2>7, NextSplit, BrowserLeaves, SubmitReserves
<1>5. ASSUME NEW told \in Statuses, Said(m, told)' PROVE Tells(m, told)'
  <2>1. CASE Said(m, told)
    BY <1>1, <2>1 DEF Honest
  <2>2. ASSUME NEW n \in Ids, NEW status \in Statuses, Reply(n, status), Tells(n, status)
        PROVE  Tells(m, told)'
    <3>1. Said(m, told) \/ (n = m /\ told = status)
      BY <1>5, <2>2, ReplySays DEF TypeOK
    <3> QED BY <1>1, <2>1, <2>2, <3>1
  <2>3. CASE SubmitHere
    <3>1. Head(toHub) \in Ids
      BY <2>3 DEF SubmitHere, TypeOK
    <3>2. CASE UNCHANGED toBrowser
      BY <1>5, <2>1, <3>2 DEF Said
    <3>3. CASE Reply(Head(toHub), "unknown")
      BY <2>2, <3>1, <3>3 DEF Tells, Statuses
    <3>4. CASE Reply(Head(toHub), row[Head(toHub)]) /\ ~Fresh(Head(toHub))
      BY <2>2, <3>1, <3>4 DEF Honest, Fresh, TypeOK
    <3> QED BY <2>3, <3>2, <3>3, <3>4 DEF SubmitHere
  <2>4. ASSUME NEW n \in Ids, Finish(n) PROVE Tells(m, told)'
    <3>1. CASE UNCHANGED toBrowser
      BY <1>5, <2>1, <3>1 DEF Said
    <3>2. CASE Reply(n, task[n]) /\ task[n] \in Statuses
      BY <2>2, <3>2 DEF Honest
    <3> QED BY <2>4, <3>1, <3>2 DEF Finish
  <2>5. CASE Receive
    <3>1. PICK i \in DOMAIN toBrowser' : toBrowser'[i] = [id |-> m, status |-> told]
      BY <1>5 DEF Said
    <3>2. i + 1 \in DOMAIN toBrowser /\ toBrowser'[i] = toBrowser[i + 1]
      BY <2>5, <3>1 DEF Receive, TypeOK
    <3> QED BY <2>1, <3>1, <3>2 DEF Said
  <2>6. CASE LoseSocket \/ RestartHub
    BY <1>5, <2>6 DEF LoseSocket, RestartHub, Said
  <2>7. CASE UNCHANGED toBrowser
    BY <1>5, <2>1, <2>7 DEF Said
  <2>8. ASSUME NEW n \in Ids, SubmitLate(n) \/ MachineStep(n) \/ (HubStep(n) /\ ~Finish(n))
        PROVE  UNCHANGED toBrowser
    BY <2>8 DEF SubmitLate, HubStep, Dispatch, TakeAnswer, HubTimeout, MachineStep,
                TakeCommand, RefuseCommand, Enqueue, WriterTypes, WriterStops, AckTimeout, socket
  <2>9. CASE Send \/ StopWaiting \/ DiscardDraft \/ OpenSocket \/ LoseMachine \/ LinkMachine
    BY <2>7, <2>9 DEF Send, StopWaiting, DiscardDraft, OpenSocket, LoseMachine, LinkMachine, socket
  <2> QED BY <2>3, <2>4, <2>5, <2>6, <2>7, <2>8, <2>9, NextSplit DEF BrowserStep
<1> QED BY <1>3, <1>4, <1>5

-----------------------------------------------------------------------------
(* No action revives a dead id.                                            *)
LEMMA DeadStays ==
  ASSUME TypeOK, \A m \in Ids : InStep(m), Next, NEW m \in Ids, Dead(m)
  PROVE  Dead(m)'
<1>1. Tells(m, "failed")
  BY DEF Tells
<1>2. Tells(m, "failed")'
  BY <1>1, TellsStays
<1> QED BY <1>2 DEF Tells

(* An id without a row gets one only from the reservation of its own.      *)
LEMMA RowsAppear ==
  ASSUME TypeOK, \A m \in Ids : InStep(m), NEW n \in Ids, HubStep(n) \/ MachineStep(n),
         NEW m \in Ids, row[m] = "none"
  PROVE  row'[m] = "none"
<1>1. CASE Finish(n)
  BY <1>1 DEF Finish, TypeOK, InStep, Statuses
<1>2. CASE HubStep(n) /\ ~Finish(n)
  BY <1>2 DEF HubStep, Dispatch, TakeAnswer, HubTimeout
<1>3. CASE MachineStep(n)
  BY <1>3 DEF MachineStep, TakeCommand, RefuseCommand, Enqueue, WriterTypes, WriterStops,
              AckTimeout
<1> QED BY <1>1, <1>2, <1>3

(* The browser makes up an id only after the last one is dead, so that all *)
(* ids but the last stay dead.                                             *)
LEMMA OneAliveStep == IInv /\ Next => OneAlive'
<1> SUFFICES ASSUME IInv, Next PROVE OneAlive'
  OBVIOUS
<1> USE DEF IInv
<1>1. ASSUME NEW m \in Ids, Dead(m) PROVE Dead(m)'
  BY <1>1, DeadStays
<1>2. CASE Send
  <2>1. UNCHANGED <<row, task, node, late, draft>> /\ draft = "open"
    BY <1>2 DEF Send
  <2>2. pending' = IdToSend /\ used' = (IF IdToSend > used THEN IdToSend ELSE used)
    BY <1>2 DEF Send
  <2>3. \A i \in DOMAIN toHub' : (i \in DOMAIN toHub /\ toHub'[i] = toHub[i]) \/ toHub'[i] = IdToSend
    <3>1. CASE toHub' = toHub
      BY <3>1
    <3>2. CASE toHub' = Append(toHub, IdToSend)
      BY <3>2 DEF TypeOK
    <3> QED BY <1>2, <3>1, <3>2 DEF Send
  <2>4. CASE pending # 0
    <3>1. IdToSend = used /\ used' = used /\ pending' = used
      BY <2>2, <2>4 DEF OneAlive, IdToSend, TypeOK
    <3> QED BY <1>1, <2>1, <2>3, <2>4, <3>1 DEF OneAlive, TypeOK, Ids
  <2>5. CASE pending = 0
    <3>1. IdToSend = used + 1 /\ used' = used + 1 /\ pending' = used + 1
      BY <2>2, <2>5 DEF IdToSend, TypeOK
    <3>2. \A m \in Ids : m < used + 1 => Dead(m)
      BY <2>1, <2>5 DEF OneAlive, TypeOK, Ids
    <3>3. \A m \in Ids : m > used + 1 => row'[m] = "none" /\ m \notin late'
      BY <2>1 DEF OneAlive, TypeOK, Ids
    <3>4. \A i \in DOMAIN toHub' : toHub'[i] <= used + 1
      <4> SUFFICES ASSUME NEW i \in DOMAIN toHub' PROVE toHub'[i] <= used + 1
        OBVIOUS
      <4>1. CASE i \in DOMAIN toHub /\ toHub'[i] = toHub[i]
        <5>1. toHub[i] <= used
          BY <4>1 DEF OneAlive
        <5>2. toHub[i] \in Ids /\ used \in Nat
          BY <4>1 DEF TypeOK
        <5> QED BY <4>1, <5>1, <5>2 DEF Ids
      <4>2. CASE toHub'[i] = IdToSend
        BY <3>1, <4>2 DEF TypeOK
      <4> QED BY <2>3, <4>1, <4>2
    <3>5. \A m \in Ids : m < used + 1 => Dead(m)'
      BY <1>1, <3>2
    <3> QED BY <2>1, <3>1, <3>3, <3>4, <3>5 DEF OneAlive, TypeOK, Ids
  <2> QED BY <2>4, <2>5
<1>3. CASE Receive
  <2>1. UNCHANGED <<used, row, late, toHub>>
    BY <1>3 DEF Receive
  <2>2. CASE UNCHANGED <<busy, draft, pending>>
    BY <1>1, <2>1, <2>2 DEF OneAlive
  <2>3. CASE busy /\ Head(toBrowser).id = pending /\ busy' = FALSE /\ Settled(Head(toBrowser).status)
    <3>1. Head(toBrowser) \in Receipts /\ 1 \in DOMAIN toBrowser /\ Head(toBrowser) = toBrowser[1]
      BY <1>3 DEF Receive, TypeOK
    <3>2. pending \in Ids /\ pending = used
      BY <2>3, <3>1 DEF Receipts, OneAlive, Ids
    <3>3. Said(pending, Head(toBrowser).status)
      BY <2>3, <3>1 DEF Said, Receipts
    <3>4. Head(toBrowser).status = "failed" => Dead(pending)
      BY <3>1, <3>2, <3>3 DEF Honest, Tells, Receipts
    <3>5. draft' = "open" /\ pending' = 0 => Dead(used)
      BY <2>3, <3>1, <3>2, <3>4 DEF Settled, Receipts, Statuses, Ids
    <3>6. pending' \in {0, used}
      BY <2>3, <3>2 DEF Settled
    <3> QED BY <1>1, <2>1, <2>3, <3>2, <3>5, <3>6 DEF OneAlive
  <2> QED BY <1>3, <2>2, <2>3 DEF Receive
<1>4. CASE StopWaiting \/ DiscardDraft
  BY <1>1, <1>4 DEF StopWaiting, DiscardDraft, OneAlive, socket
<1>5. CASE LoseSocket
  <2>1. UNCHANGED <<draft, pending, used, row>> /\ busy' = FALSE /\ toHub' = <<>>
    BY <1>5 DEF LoseSocket
  <2>2. \A m \in late' : m \in late \/ \E i \in DOMAIN toHub : m = toHub[i]
    BY <1>5 DEF LoseSocket
  <2>3. \A m \in Ids : m > used => m \notin late'
    BY <2>2 DEF OneAlive, TypeOK, Ids
  <2> QED BY <1>1, <2>1, <2>3 DEF OneAlive
<1>6. CASE OpenSocket
  BY <1>1, <1>6 DEF OpenSocket, OneAlive, browser
<1>7. CASE SubmitHere
  <2>1. UNCHANGED <<draft, pending, used, busy, late>> /\ toHub # <<>> /\ toHub' = Tail(toHub)
    BY <1>7 DEF SubmitHere, browser
  <2>2. \A i \in DOMAIN toHub' : toHub'[i] <= used
    BY <2>1 DEF OneAlive, TypeOK
  <2>3. Head(toHub) \in Ids /\ Head(toHub) <= used
    BY <2>1 DEF OneAlive, TypeOK
  <2>4. UNCHANGED row \/ Reserve(Head(toHub))
    BY <1>7 DEF SubmitHere
  <2>5. ASSUME NEW m \in Ids, m > used PROVE row'[m] = "none"
    <3>1. row[m] = "none" /\ m # Head(toHub)
      BY <2>3, <2>5 DEF OneAlive, TypeOK, Ids
    <3> QED BY <2>4, <3>1 DEF Reserve, TypeOK
  <2> QED BY <1>1, <2>1, <2>2, <2>5 DEF OneAlive
<1>8. ASSUME NEW m \in Ids, SubmitLate(m) PROVE OneAlive'
  <2>1. UNCHANGED <<draft, pending, used, busy, toHub>> /\ late' \subseteq late /\ m \in late
    BY <1>8 DEF SubmitLate, browser
  <2>2. UNCHANGED row \/ Reserve(m)
    BY <1>8 DEF SubmitLate
  <2>3. \A n \in Ids : n > used => row'[n] = "none"
    BY <2>1, <2>2 DEF OneAlive, Reserve, TypeOK, Ids
  <2> QED BY <1>1, <2>1, <2>3 DEF OneAlive
<1>9. ASSUME NEW m \in Ids, HubStep(m) \/ MachineStep(m) PROVE OneAlive'
  <2>1. UNCHANGED <<draft, pending, used, busy, toHub, late>>
    <3>1. CASE HubStep(m)
      BY <3>1 DEF HubStep, Dispatch, TakeAnswer, HubTimeout, Finish, browser, socket
    <3>2. CASE MachineStep(m)
      BY <3>2 DEF MachineStep, TakeCommand, RefuseCommand, Enqueue, WriterTypes, WriterStops,
                  AckTimeout, browser, socket
    <3> QED BY <1>9, <3>1, <3>2
  <2> QED BY <1>1, <1>9, <2>1, RowsAppear DEF OneAlive
<1>10. CASE LoseMachine \/ LinkMachine
  BY <1>1, <1>10 DEF LoseMachine, LinkMachine, OneAlive, browser, socket
<1>11. CASE RestartHub
  BY <1>1, <1>11 DEF RestartHub, OneAlive
<1> QED
  BY <1>2, <1>3, <1>4, <1>5, <1>6, <1>7, <1>8, <1>9, <1>10, <1>11, NextSplit DEF BrowserStep

-----------------------------------------------------------------------------
(* The invariant holds before anything is sent.                            *)
LEMMA InitIInv == Init => IInv
<1> SUFFICES ASSUME Init PROVE IInv
  OBVIOUS
<1>1. TypeOK
  <2>1. draft \in {"open", "delivered", "discarded"} /\ pending \in 0..used /\ used \in 0..MaxIds
    BY BoundsAssumption DEF Init
  <2>2. toHub \in Seq(Ids) /\ late \subseteq Ids /\ toBrowser \in Seq(Receipts) /\ slot \in 0..MaxIds
    BY BoundsAssumption DEF Init
  <2>3. busy \in BOOLEAN /\ sock \in BOOLEAN /\ linked \in BOOLEAN
    BY DEF Init
  <2>4. /\ row \in [Ids -> Statuses \union {"none"}]
        /\ task \in [Ids -> Statuses \union {"none", "reserved", "waiting"}]
        /\ cmd \in [Ids -> {"none", "wire", "held", "queued", "done"}]
        /\ orphan \subseteq Ids /\ silent \subseteq Ids
        /\ answer \in [Ids -> Statuses \union {"none"}]
        /\ typed \in [Ids -> Nat]
        /\ count \in [{"check", "fault"} -> Nat]
    BY DEF Init
  <2> QED BY <2>1, <2>2, <2>3, <2>4 DEF TypeOK
<1>2. \A m \in Ids : InStep(m)
  BY DEF Init, InStep
<1>3. Honest
  BY DEF Init, Honest, Tells, Said
<1>4. OneAlive
  BY DEF Init, OneAlive, Ids
<1> QED BY <1>1, <1>2, <1>3, <1>4 DEF IInv

(* Every step preserves the invariant.                                     *)
LEMMA NextIInv == IInv /\ [Next]_vars => IInv'
<1>1. CASE Next
  BY <1>1, TypeStep, InStepStep, HonestStep, OneAliveStep DEF IInv
<1>2. CASE UNCHANGED vars
  <2>1. IInv => TypeOK'
    BY <1>2, TypeStep DEF IInv
  <2>2. ASSUME IInv PROVE (\A m \in Ids : InStep(m)') /\ Honest' /\ OneAlive'
    BY <1>2, <2>2 DEF vars, browser, socket, node, IInv, InStep, Honest, Said, Tells, Dead,
                      OneAlive
  <2> QED BY <2>1, <2>2 DEF IInv
<1> QED BY <1>1, <1>2

(* The invariant holds: in particular, outcomes are honest and only the    *)
(* last id is alive.                                                       *)
THEOREM ComposerInvariant == Spec => []IInv
  BY InitIInv, NextIInv, PTL DEF Spec

(* The variables keep their types.                                         *)
THEOREM ComposerTypes == Spec => []TypeOK
<1>1. IInv => TypeOK
  BY DEF IInv
<1> QED BY <1>1, ComposerInvariant, PTL

(* A send whose receipt says failed was not typed and never will be.       *)
THEOREM FailureIsFinal == Spec => []FailedIsFinal
<1>1. IInv => FailedIsFinal
  <2> SUFFICES ASSUME IInv, NEW m \in Ids,
                      \/ row[m] = "failed" \/ task[m] = "failed"
                      \/ \E i \in DOMAIN toBrowser : toBrowser[i] = [id |-> m, status |-> "failed"]
               PROVE  Dead(m)
    BY DEF FailedIsFinal, Dead
  <2> QED BY DEF IInv, Honest, Tells, Said, Statuses
<1> QED BY <1>1, ComposerInvariant, PTL

(* A stored receipt that says delivered or failed is never changed.        *)
THEOREM ReceiptsAreFinal == Spec => ReceiptIsFinal
<1>1. IInv /\ [Next]_vars =>
        [\A m \in Ids : row[m] \in {"delivered", "failed"} => row'[m] = row[m]]_vars
  <2> SUFFICES ASSUME IInv, Next, NEW m \in Ids, row[m] \in {"delivered", "failed"}
               PROVE  row'[m] = row[m]
    OBVIOUS
  <2>1. ASSUME NEW n, row[n] = "none", Reserve(n) PROVE row'[m] = row[m]
    BY <2>1 DEF Reserve, IInv, TypeOK
  <2>2. ASSUME NEW n \in Ids, HubStep(n) PROVE row'[m] = row[m]
    BY <2>2 DEF HubStep, Dispatch, TakeAnswer, HubTimeout, Finish, IInv, TypeOK, InStep,
                Statuses
  <2>3. ASSUME NEW n \in Ids, MachineStep(n) PROVE row'[m] = row[m]
    BY <2>3 DEF MachineStep, TakeCommand, RefuseCommand, Enqueue, WriterTypes, WriterStops,
                AckTimeout
  <2>4. CASE LoseMachine \/ LinkMachine \/ RestartHub
    BY <2>4 DEF LoseMachine, LinkMachine, RestartHub
  <2> QED BY <2>1, <2>2, <2>3, <2>4, NextSplit, BrowserLeaves, SubmitReserves
<1> QED BY <1>1, ComposerInvariant, PTL DEF Spec, ReceiptIsFinal

(* Whatever is lost, repeated or restarted, the draft is typed at most     *)
(* once, and cleared as delivered only then.                               *)
THEOREM DraftIsSentOnce == Spec => SendsOnce
<1>1. Init => Promise!Init
  BY DEF Init, Promise!Init
<1>2. IInv /\ [Next]_vars => [Promise!Next]_<<typed, draft>>
  <2> SUFFICES ASSUME IInv, Next, ~UNCHANGED <<typed, draft>>
               PROVE  Promise!Next
    BY DEF vars, node, browser
  <2> USE DEF IInv
  <2>1. ASSUME NEW m \in Ids, WriterTypes(m) PROVE Promise!Type(m)
    <3>1. cmd[m] = "queued" /\ typed[m] = 0 /\ UNCHANGED draft
      BY <2>1 DEF WriterTypes, InStep, browser
    <3>2. ASSUME NEW n \in Ids PROVE typed[n] = 0
      <4>1. m = used
        BY <3>1 DEF OneAlive, Dead, InStep, TypeOK, Ids
      <4>2. CASE n < used
        BY <4>2 DEF OneAlive, Dead
      <4>3. CASE n > used
        BY <4>3 DEF OneAlive, InStep
      <4> QED BY <3>1, <4>1, <4>2, <4>3 DEF TypeOK, Ids
    <3>3. typed' = [typed EXCEPT ![m] = 1]
      BY <2>1, <3>1 DEF WriterTypes, TypeOK
    <3> QED BY <3>1, <3>2, <3>3 DEF Promise!Type, Promise!Nowhere
  <2>2. CASE Receive
    <3>1. busy /\ Head(toBrowser).id = pending /\ Head(toBrowser).status = "delivered" /\ draft' = "delivered"
      BY <2>2, BrowserLeaves DEF Receive, Settled, node
    <3>2. Head(toBrowser) \in Receipts /\ 1 \in DOMAIN toBrowser /\ Head(toBrowser) = toBrowser[1]
      BY <2>2 DEF Receive, TypeOK
    <3>3. pending \in Ids /\ Said(pending, "delivered")
      BY <3>1, <3>2 DEF Said, Receipts
    <3>4. typed[pending] > 0
      BY <3>3 DEF Honest, Tells, Statuses
    <3>5. UNCHANGED typed /\ draft = "open"
      BY <2>2, <3>1 DEF Receive, node, OneAlive
    <3> QED BY <3>1, <3>3, <3>4, <3>5 DEF Promise!Next, Promise!Clear, Promise!Nowhere
  <2>3. CASE DiscardDraft
    BY <2>3 DEF DiscardDraft, node, Promise!Next, Promise!Discard
  <2>4. CASE Send \/ StopWaiting \/ LoseSocket \/ OpenSocket \/ SubmitHere
    BY <2>4 DEF Send, StopWaiting, LoseSocket, OpenSocket, SubmitHere, node, browser
  <2>5. CASE LoseMachine \/ LinkMachine \/ RestartHub
    BY <2>5 DEF LoseMachine, LinkMachine, RestartHub, browser
  <2>6. ASSUME NEW m \in Ids, SubmitLate(m) \/ HubStep(m) \/ (MachineStep(m) /\ ~WriterTypes(m))
        PROVE  FALSE
    <3>1. CASE SubmitLate(m)
      BY <3>1 DEF SubmitLate, node, browser
    <3>2. CASE HubStep(m)
      BY <3>2 DEF HubStep, Dispatch, TakeAnswer, HubTimeout, Finish, node, browser
    <3>3. CASE MachineStep(m) /\ ~WriterTypes(m)
      BY <3>3 DEF MachineStep, TakeCommand, RefuseCommand, Enqueue, WriterStops, AckTimeout,
                  browser
    <3> QED BY <2>6, <3>1, <3>2, <3>3
  <2> QED BY <2>1, <2>2, <2>3, <2>4, <2>5, <2>6, NextSplit DEF BrowserStep, Promise!Next
<1> QED BY <1>1, <1>2, ComposerInvariant, PTL DEF Spec, SendsOnce, Promise!Spec
=============================================================================
