------------------------------- MODULE Composer -------------------------------
(***************************************************************************)
(* The local editor's send path, from the draft in the browser to the      *)
(* writer of the terminal's PTY.  The browser stores the id before it      *)
(* sends and keeps asking with the same id; the hub reserves a row per id  *)
(* and lets only the reserving task dispatch; the machine queues the paste *)
(* for the attach's writer thread.  Reloads, lost sockets, hub restarts,   *)
(* lost answers and three timeouts come in between (LocalTerminalComposer  *)
(* .tsx, composerTransport.ts, crates/hub/src/composer.rs, crates/machine/ *)
(* src/attach.rs).                                                         *)
(*                                                                         *)
(* One draft and one browser are followed.  Contents are left out: the     *)
(* browser never reuses an id for another content, so the digest check of  *)
(* the reservation never refuses it, and what validate refuses leaves no   *)
(* trace.                                                                  *)
(***************************************************************************)
EXTENDS Naturals, Sequences

CONSTANTS
  MaxIds,     \* bound: ids the browser makes up for the draft
  MaxChecks,  \* bound: times the user sends or checks
  MaxFaults   \* bound: reloads, lost connections, restarts

ASSUME BoundsAssumption == {MaxIds, MaxChecks, MaxFaults} \subseteq Nat

VARIABLES
  draft,    \* what the user sees of the draft
  pending,  \* the id stored with it, 0 if none
  used,     \* ids made up so far
  busy,     \* the transport waits for a receipt
  sock,     \* the terminal socket is open
  toHub,    \* ids on their way to the hub, on the open socket
  late,     \* ids still on their way on sockets the browser gave up
  toBrowser,\* receipts on the open socket
  row,      \* composer_receipts: id -> status, "none" without a row
  task,     \* id -> where the task that reserved it stands
  slot,     \* the task holding the open socket's permit, 0 if free
  linked,   \* the machine is connected to the hub
  cmd,      \* id -> where AttachComposer stands on the machine
  orphan,   \* ids whose machine connection is gone
  silent,   \* ids the machine has answered
  answer,   \* id -> the ComposerResult on its way, "none" without one
  typed,    \* id -> how often it was written to the PTY
  count     \* checks and faults so far

browser == <<draft, pending, used, busy>>
socket == <<sock, toHub, late, toBrowser, slot>>
node == <<linked, cmd, orphan, silent, answer, typed>>
vars == <<browser, socket, row, task, node, count>>

-----------------------------------------------------------------------------
Ids == 1..MaxIds
Statuses == {"delivered", "failed", "unknown"}
Receipts == [id : Ids, status : Statuses]

\* Types of the variables (trivially kept; the other properties rely on it).
TypeOK ==
  /\ draft \in {"open", "delivered", "discarded"}
  /\ pending \in 0..used /\ used \in 0..MaxIds /\ busy \in BOOLEAN
  /\ sock \in BOOLEAN /\ toHub \in Seq(Ids) /\ late \subseteq Ids
  /\ toBrowser \in Seq(Receipts) /\ slot \in 0..MaxIds
  /\ row \in [Ids -> Statuses \union {"none"}]
  /\ task \in [Ids -> Statuses \union {"none", "reserved", "waiting"}]
  /\ linked \in BOOLEAN
  /\ cmd \in [Ids -> {"none", "wire", "held", "queued", "done"}]
  /\ orphan \subseteq Ids /\ silent \subseteq Ids
  /\ answer \in [Ids -> Statuses \union {"none"}]
  /\ typed \in [Ids -> Nat]
  /\ count \in [{"check", "fault"} -> Nat]

Init ==
  /\ draft = "open" /\ pending = 0 /\ used = 0 /\ busy = FALSE
  /\ sock = TRUE /\ toHub = <<>> /\ late = {} /\ toBrowser = <<>> /\ slot = 0
  /\ row = [m \in Ids |-> "none"] /\ task = [m \in Ids |-> "none"]
  /\ linked = TRUE /\ cmd = [m \in Ids |-> "none"]
  /\ orphan = {} /\ silent = {} /\ answer = [m \in Ids |-> "none"]
  /\ typed = [m \in Ids |-> 0]
  /\ count = [what \in {"check", "fault"} |-> 0]

Bump(what, max) == count[what] < max /\ count' = [count EXCEPT ![what] = @ + 1]

-----------------------------------------------------------------------------
(* The browser.                                                            *)

\* send: the stored id, or else a new one.
IdToSend == IF pending # 0 THEN pending ELSE used + 1

\* Enter or "Check delivery": the id is stored, then sent on the open socket.
Send ==
  /\ draft = "open" /\ ~busy
  /\ IdToSend \in Ids
  /\ Bump("check", MaxChecks)
  /\ pending' = IdToSend
  /\ used' = IF IdToSend > used THEN IdToSend ELSE used
  /\ IF sock
     THEN toHub' = Append(toHub, IdToSend) /\ busy' = TRUE
     ELSE UNCHANGED <<toHub, busy>>
  /\ UNCHANGED <<draft, sock, late, toBrowser, slot, row, task, node>>

\* What a receipt does to the draft: delivered clears it, failed frees it
\* for another send under a new id, unknown keeps it locked.
Settled(status) ==
  /\ draft' = IF status = "delivered" THEN "delivered" ELSE draft
  /\ pending' = IF status = "unknown" THEN pending ELSE 0

\* receive: only the receipt of the pending id counts.
Receive ==
  /\ toBrowser # <<>>
  /\ LET receipt == Head(toBrowser) IN
       IF busy /\ receipt.id = pending
       THEN busy' = FALSE /\ Settled(receipt.status)
       ELSE UNCHANGED <<busy, draft, pending>>
  /\ toBrowser' = Tail(toBrowser)
  /\ UNCHANGED <<used, sock, toHub, late, slot, row, task, node, count>>

\* The transport stops waiting after 35 s.
StopWaiting ==
  /\ busy
  /\ busy' = FALSE
  /\ UNCHANGED <<draft, pending, used, socket, row, task, node, count>>

\* "Discard pending draft".
DiscardDraft ==
  /\ draft = "open" /\ pending # 0 /\ ~busy
  /\ draft' = "discarded" /\ pending' = 0
  /\ UNCHANGED <<used, busy, socket, row, task, node, count>>

\* The socket is lost, or the page reloaded: what was sent may still reach
\* the hub, receipts do not come back.
LoseSocket ==
  /\ sock
  /\ Bump("fault", MaxFaults)
  /\ sock' = FALSE /\ busy' = FALSE
  /\ \E some \in SUBSET {toHub[i] : i \in DOMAIN toHub} : late' = late \union some
  /\ toHub' = <<>> /\ toBrowser' = <<>>
  /\ UNCHANGED <<draft, pending, used, slot, row, task, node>>

\* A new socket, with a permit of its own.
OpenSocket ==
  /\ ~sock
  /\ sock' = TRUE /\ slot' = 0
  /\ UNCHANGED <<browser, toHub, late, toBrowser, row, task, node, count>>

-----------------------------------------------------------------------------
(* The hub.                                                                *)

Reply(m, status) ==
  toBrowser' = IF sock THEN Append(toBrowser, [id |-> m, status |-> status])
                       ELSE toBrowser

\* Mutant: an unconfirmed id may be sent again.
FreshOrUnknown(m) == row[m] \in {"none", "unknown"}

\* reserve: INSERT OR IGNORE inserts only for an id without a row.
Fresh(m) == row[m] = "none"

Reserve(m) ==
  /\ row' = [row EXCEPT ![m] = "unknown"]
  /\ task' = [task EXCEPT ![m] = "reserved"]

\* A composer message on the open socket: answered unknown while the permit is
\* taken or when the database fails, from the row if there is one, else reserved.
SubmitHere ==
  /\ toHub # <<>>
  /\ LET m == Head(toHub) IN
       \/ /\ Reply(m, "unknown")
          /\ UNCHANGED <<slot, row, task>>
       \/ /\ slot = 0 /\ ~Fresh(m)
          /\ Reply(m, row[m])
          /\ UNCHANGED <<slot, row, task>>
       \/ /\ slot = 0 /\ Fresh(m)
          /\ Reserve(m)
          /\ slot' = m
          /\ UNCHANGED toBrowser
  /\ toHub' = Tail(toHub)
  /\ UNCHANGED <<browser, sock, late, node, count>>

\* The same on a socket the browser has given up: no receipt comes back.
SubmitLate(m) ==
  /\ m \in late
  /\ late' = late \ {m}
  /\ IF Fresh(m) THEN Reserve(m) ELSE UNCHANGED <<row, task>>
  /\ UNCHANGED <<browser, sock, toHub, toBrowser, slot, node, count>>

\* submit, submit_composer: refused without control or support, failed
\* without a machine to send to, else sent.
Dispatch(m) ==
  /\ task[m] = "reserved"
  /\ \/ /\ task' = [task EXCEPT ![m] = "failed"]
        /\ UNCHANGED cmd
     \/ /\ linked
        /\ task' = [task EXCEPT ![m] = "waiting"]
        /\ cmd' = [cmd EXCEPT ![m] = "wire"]
  /\ UNCHANGED <<browser, socket, row, linked, orphan, silent, answer, typed, count>>

\* ComposerResult: taken by the task if it still waits.
TakeAnswer(m) ==
  /\ answer[m] # "none"
  /\ task' = IF task[m] = "waiting" THEN [task EXCEPT ![m] = answer[m]] ELSE task
  /\ answer' = [answer EXCEPT ![m] = "none"]
  /\ UNCHANGED <<browser, socket, row, linked, cmd, orphan, silent, typed, count>>

\* Mutants: the hub waits without limit; it calls a silent machine a failure.
AfterTimeoutNever == "waiting"
AfterTimeoutFailed == "failed"

\* What 30 s without an answer mean.
AfterTimeout == "unknown"

HubTimeout(m) ==
  /\ task[m] = "waiting"
  /\ task' = [task EXCEPT ![m] = AfterTimeout]
  /\ UNCHANGED <<browser, socket, row, node, count>>

\* submit's end: the receipt stored, or not if the database refuses, the
\* permit given back, the receipt sent on the socket it came from.
Finish(m) ==
  /\ task[m] \in Statuses
  /\ row' \in {row, [row EXCEPT ![m] = task[m]]}
  /\ task' = [task EXCEPT ![m] = "none"]
  /\ IF slot = m
     THEN slot' = 0 /\ Reply(m, task[m])
     ELSE UNCHANGED <<slot, toBrowser>>
  /\ UNCHANGED <<browser, sock, toHub, late, node, count>>

-----------------------------------------------------------------------------
(* The machine.                                                            *)

\* The machine's task answers once, unless its connection is gone.
Answer(m, status) ==
  /\ m \notin silent
  /\ silent' = silent \union {m}
  /\ answer' = IF m \in orphan THEN answer ELSE [answer EXCEPT ![m] = status]

\* AttachComposer arrives and a task of its own prepares the paste.
TakeCommand(m) ==
  /\ cmd[m] = "wire"
  /\ cmd' = [cmd EXCEPT ![m] = "held"]
  /\ UNCHANGED <<browser, socket, row, task, linked, orphan, silent, answer, typed, count>>

\* prepare_composer fails, the attach is gone, or its writer is.
RefuseCommand(m) ==
  /\ cmd[m] = "held"
  /\ cmd' = [cmd EXCEPT ![m] = "done"]
  /\ Answer(m, "failed")
  /\ UNCHANGED <<browser, socket, row, task, linked, orphan, typed, count>>

\* write_composer: into the writer's queue.
Enqueue(m) ==
  /\ cmd[m] = "held"
  /\ cmd' = [cmd EXCEPT ![m] = "queued"]
  /\ UNCHANGED <<browser, socket, row, task, linked, orphan, silent, answer, typed, count>>

\* The acknowledgements of a write: Enter may fail after the paste.
Outcomes == {"delivered", "unknown"}

\* The writer thread types paste and Enter and acknowledges, to nobody if
\* the task has stopped waiting.
WriterTypes(m) ==
  /\ cmd[m] = "queued"
  /\ cmd' = [cmd EXCEPT ![m] = "done"]
  /\ typed' = [typed EXCEPT ![m] = @ + 1]
  /\ \/ m \in silent /\ UNCHANGED <<silent, answer>>
     \/ \E status \in Outcomes : Answer(m, status)
  /\ UNCHANGED <<browser, socket, row, task, linked, orphan, count>>

\* The writer stops at an earlier error and the queued paste goes with it.
WriterStops(m) ==
  /\ cmd[m] = "queued"
  /\ cmd' = [cmd EXCEPT ![m] = "done"]
  /\ \/ m \in silent /\ UNCHANGED <<silent, answer>>
     \/ Answer(m, "unknown")
  /\ UNCHANGED <<browser, socket, row, task, linked, orphan, typed, count>>

\* What 20 s without an acknowledgement mean; the paste stays queued.
AckTimeout(m) ==
  /\ cmd[m] = "queued"
  /\ Answer(m, "unknown")
  /\ UNCHANGED <<browser, socket, row, task, linked, cmd, orphan, typed, count>>

\* Everything between the hub and the machine is lost; tasks and writers of
\* the machine go on for nobody.
Unlinked ==
  /\ linked' = FALSE
  /\ cmd' = [m \in Ids |-> IF cmd[m] = "wire" THEN "done" ELSE cmd[m]]
  /\ orphan' = orphan \union {m \in Ids : cmd[m] # "none"}
  /\ answer' = [m \in Ids |-> "none"]

LoseMachine ==
  /\ linked
  /\ Bump("fault", MaxFaults)
  /\ Unlinked
  /\ UNCHANGED <<browser, socket, row, task, silent, typed>>

LinkMachine ==
  /\ ~linked
  /\ linked' = TRUE
  /\ UNCHANGED <<browser, socket, row, task, cmd, orphan, silent, answer, typed, count>>

\* The hub restarts: its tasks, sockets and connections are gone, its rows stay.
RestartHub ==
  /\ Bump("fault", MaxFaults)
  /\ task' = [m \in Ids |-> "none"]
  /\ Unlinked
  /\ sock' = FALSE /\ busy' = FALSE /\ slot' = 0
  /\ toHub' = <<>> /\ late' = {} /\ toBrowser' = <<>>
  /\ UNCHANGED <<draft, pending, used, row, silent, typed>>

-----------------------------------------------------------------------------
Next ==
  \/ Send \/ Receive \/ StopWaiting \/ DiscardDraft \/ LoseSocket \/ OpenSocket
  \/ SubmitHere \/ LoseMachine \/ LinkMachine \/ RestartHub
  \/ \E m \in Ids :
       \/ SubmitLate(m) \/ Dispatch(m) \/ TakeAnswer(m) \/ HubTimeout(m) \/ Finish(m)
       \/ TakeCommand(m) \/ RefuseCommand(m) \/ Enqueue(m)
       \/ WriterTypes(m) \/ WriterStops(m) \/ AckTimeout(m)

\* The hub's tasks run and its 30 s timer fires; nothing is asked of the
\* browser, the network or the machine.
Fairness ==
  \A m \in Ids : WF_vars(Dispatch(m)) /\ WF_vars(HubTimeout(m)) /\ WF_vars(Finish(m))

Spec == Init /\ [][Next]_vars /\ Fairness

-----------------------------------------------------------------------------
\* The draft is typed at most once, and cleared as delivered only then, no
\* matter how often it is checked, under how many ids it is sent again after
\* a failure, and what is lost on the way.
Promise == INSTANCE SendOnce
SendsOnce == Promise!Spec

\* "failed" is a promise: a send whose receipt says so, in the row or on its
\* way, was not typed and never will be, so that sending again is safe.
FailedIsFinal ==
  \A m \in Ids :
    \/ row[m] = "failed" \/ task[m] = "failed"
    \/ \E i \in DOMAIN toBrowser : toBrowser[i] = [id |-> m, status |-> "failed"]
    => typed[m] = 0 /\ cmd[m] \notin {"wire", "held", "queued"}

\* A receipt that says delivered or failed is never taken back, nor turned
\* into the other (the tombstone only ever goes from unknown to an outcome).
ReceiptIsFinal ==
  [][\A m \in Ids : row[m] \in {"delivered", "failed"} => row'[m] = row[m]]_vars

\* No send holds its socket's permit for ever, even if the machine never
\* answers: otherwise every later message would only hear "in progress".
PermitComesBack == (slot # 0) ~> (slot = 0)
=============================================================================
