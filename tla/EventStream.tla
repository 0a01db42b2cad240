---------------------------- MODULE EventStream ----------------------------
(***************************************************************************)
(* How a browser follows the hub's state: it takes a snapshot over HTTP    *)
(* (snapshot_for_user), opens the events socket with the snapshot's        *)
(* sequence number, gets the missed events replayed from the hub's history *)
(* and then the live ones, and starts over whenever it sees a gap          *)
(* (crates/hub/src/machine_manager.rs and ws.rs, packages/app/lib/         *)
(* bootstrapState.ts and components/TerminalCanvas.web.tsx).               *)
(*                                                                         *)
(* The state is one version number per key (a machine, a terminal, a       *)
(* group...).  A handler changes a key, lets go of its lock and calls      *)
(* send_event, which allocates the number, records the event in the        *)
(* history and broadcasts it in three steps no lock joins: the events of   *)
(* two changes, of one key too, may be numbered in either order, and be    *)
(* recorded and broadcast out of the order of their numbers.  One browser  *)
(* is followed; its socket is a reliable ordered channel that may drop.    *)
(***************************************************************************)
EXTENDS Integers, Sequences, FiniteSets

CONSTANTS
  Keys,          \* what the state is made of
  Mine,          \* the keys whose events the browser's user may see
  HistoryLimit,  \* EVENT_HISTORY_LIMIT (1024)
  ChannelCap,    \* capacity of the broadcast channel (256)
  Offset,        \* SEQ_RECOVERY_OFFSET (200)
  MaxSeq,        \* bound: sequence numbers handed out
  MaxDrops       \* bound: lost connections and hub crashes

ASSUME KeysAssumption == Mine \subseteq Keys
ASSUME LimitsAssumption ==
  /\ HistoryLimit \in Nat \ {0}
  /\ ChannelCap \in Nat \ {0}
  /\ Offset \in Nat
  /\ MaxSeq \in Nat
  /\ MaxDrops \in Nat

VARIABLES
  state,      \* key -> version, in the hub's memory and database
  nextSeq,    \* next_event_seq: the last number handed out
  persisted,  \* hub_state["next_event_seq"]
  history,    \* event_history
  sending,    \* the changes whose send_event has not ended, and where it is
  told,       \* key -> its value in the last event numbered (history)
  lost,       \* the last number the history let go of unnoticeably (history)
  burst,      \* a crash found as many numbers unflushed as the offset (history)
  life,       \* which life of the hub process this is
  client,     \* the browser: its step, view and last number
  replay,     \* history events the send task has not sent yet
  rx,         \* the connection's broadcast receiver
  lagged,     \* the receiver overflowed
  drops       \* lost connections and crashes so far

hub == <<state, nextSeq, persisted, history, sending, told, lost, burst, life>>
socket == <<replay, rx, lagged>>
vars == <<hub, client, socket, drops>>

-----------------------------------------------------------------------------
Events == [seq : Nat, key : Keys, val : Nat]
Changes == [key : Keys, val : Nat, at : {"changed", "numbered", "recorded"}, seq : Nat]
Views == [Mine -> Nat]

(* A browser that is not connected ("down"); reading the snapshot, with    *)
(* the keys still to read; holding it ("ready"); subscribed to the         *)
(* broadcast but not yet given its replay; live.                           *)
Steps == {"down", "reading", "ready", "subscribed", "live"}
Clients == [at : Steps, lastSeq : Nat, view : Views, life : Nat,
            snapSeq : Nat, got : Views, unread : SUBSET Mine]

Event(s) == [seq |-> s.seq, key |-> s.key, val |-> s.val]

(* event_visible_to: the connection's user may see the event.              *)
Visible(e) == e.key \in Mine

NothingRead == [k \in Mine |-> 0]
NoSocket == replay' = <<>> /\ rx' = <<>> /\ lagged' = FALSE

Init ==
  /\ state = [k \in Keys |-> 0]
  /\ nextSeq = 0
  /\ persisted = 0
  /\ history = <<>>
  /\ sending = {}
  /\ told = state
  /\ lost = 0
  /\ burst = FALSE
  /\ life = 1
  /\ client = [at |-> "down", lastSeq |-> 0, view |-> [k \in Mine |-> 0],
               life |-> 1, snapSeq |-> 0, got |-> NothingRead,
               unread |-> {}]
  /\ replay = <<>>
  /\ rx = <<>>
  /\ lagged = FALSE
  /\ drops = 0

-----------------------------------------------------------------------------
(* The hub's handlers and send_event.                                      *)

Unnumbered == {s \in sending : s.at = "changed"}
Moved(s, to) == sending' = (sending \ {s}) \union {to}

(* A handler changes its part of the state and releases the lock on it,    *)
(* whether or not an earlier change of it has been sent.                   *)
ChangeState(k) ==
  /\ nextSeq + Cardinality(Unnumbered) < MaxSeq
  /\ state' = [state EXCEPT ![k] = @ + 1]
  /\ sending' = sending \union {[key |-> k, val |-> state[k] + 1, at |-> "changed", seq |-> 0]}
  /\ UNCHANGED <<nextSeq, persisted, history, told, lost, burst, life, client, socket, drops>>

(* next_event_seq.fetch_add.                                               *)
NumberEvent(s) ==
  /\ s.at = "changed"
  /\ nextSeq' = nextSeq + 1
  /\ Moved(s, [s EXCEPT !.at = "numbered", !.seq = nextSeq + 1])
  /\ told' = [told EXCEPT ![s.key] = s.val]
  /\ UNCHANGED <<state, persisted, history, lost, burst, life, client, socket, drops>>

(* The entry a full history lets go of has a later number than the one     *)
(* that becomes the first, and than every entry the user may see: nobody   *)
(* can tell that it is missing.                                            *)
Misleads(longer) ==
  /\ Len(longer) > HistoryLimit
  /\ longer[2].seq <= longer[1].seq
  /\ \A i \in 2..Len(longer) : Visible(longer[i]) => longer[i].seq < longer[1].seq

(* event_history push_back, and pop_front past the limit.                  *)
RecordEvent(s) ==
  /\ s.at = "numbered"
  /\ LET longer == Append(history, Event(s))
     IN  /\ history' = IF Len(longer) > HistoryLimit THEN Tail(longer) ELSE longer
         /\ lost' = IF Misleads(longer) /\ longer[1].seq > lost THEN longer[1].seq ELSE lost
  /\ Moved(s, [s EXCEPT !.at = "recorded"])
  /\ UNCHANGED <<state, nextSeq, persisted, told, burst, life, client, socket, drops>>

(* event_tx.send: a receiver that is full loses its oldest event, and      *)
(* knows.                                                                  *)
BroadcastEvent(s) ==
  /\ s.at = "recorded"
  /\ sending' = sending \ {s}
  /\ IF client.at \in {"subscribed", "live"}
     THEN LET longer == Append(rx, Event(s))
              full == Len(longer) > ChannelCap
          IN  /\ rx' = IF full THEN Tail(longer) ELSE longer
              /\ lagged' = (lagged \/ full)
     ELSE UNCHANGED <<rx, lagged>>
  /\ UNCHANGED <<state, nextSeq, persisted, history, told, lost, burst, life, client, replay, drops>>

(* flush_event_seq, every five seconds.                                    *)
FlushSeq ==
  /\ persisted # nextSeq
  /\ persisted' = nextSeq
  /\ UNCHANGED <<state, nextSeq, history, sending, told, lost, burst, life, client, socket, drops>>

-----------------------------------------------------------------------------
(* The browser's snapshot (GET /api/bootstrap).                            *)

(* snapshot_for_user loads the number first...                             *)
SnapshotSeq ==
  /\ client.at = "down"
  /\ client' = [client EXCEPT !.at = "reading", !.snapSeq = nextSeq,
                              !.unread = Mine]
  /\ UNCHANGED <<hub, socket, drops>>

(* ... and then each part of the state, under locks of its own.            *)
SnapshotKey(k) ==
  /\ client.at = "reading"
  /\ k \in client.unread
  /\ client' = [client EXCEPT !.got[k] = state[k], !.unread = @ \ {k}]
  /\ UNCHANGED <<hub, socket, drops>>

(* Mutant: the snapshot bears the number of its end, not of its beginning. *)
ApplyLateNumber ==
  /\ client.at = "reading"
  /\ client.unread = {}
  /\ client' = [client EXCEPT !.at = "ready", !.lastSeq = nextSeq,
                              !.view = client.got, !.life = life,
                              !.got = NothingRead]
  /\ UNCHANGED <<hub, socket, drops>>

(* applyBootstrapSnapshot replaces what the browser showed.                *)
ApplySnapshot ==
  /\ client.at = "reading"
  /\ client.unread = {}
  /\ client' = [client EXCEPT !.at = "ready", !.lastSeq = client.snapSeq,
                              !.view = client.got, !.life = life,
                              !.got = NothingRead]
  /\ UNCHANGED <<hub, socket, drops>>

-----------------------------------------------------------------------------
(* The events socket: handle_events and the browser's end of it.           *)

(* build_event_subscription subscribes to the broadcast first...           *)
Subscribe ==
  /\ client.at = "ready"
  /\ client' = [client EXCEPT !.at = "subscribed"]
  /\ NoSocket
  /\ UNCHANGED <<hub, drops>>

HasGap(after) ==
  /\ after # 0
  /\ history # <<>>
  /\ after + 1 < Head(history).seq

(* The history's visible entries past a number, one after the other.       *)
Missed(after) ==
  LET kept[i \in 0..Len(history)] ==
        IF i = 0 THEN <<>>
        ELSE IF history[i].seq > after /\ Visible(history[i])
             THEN Append(kept[i - 1], history[i])
             ELSE kept[i - 1]
  IN  kept[Len(history)]

(* ... then takes the replay from the history, or asks for a new snapshot  *)
(* by ending the socket.                                                   *)
TakeReplay ==
  /\ client.at = "subscribed"
  /\ \/ /\ HasGap(client.lastSeq)
        /\ client' = [client EXCEPT !.at = "down"]
        /\ NoSocket
     \/ /\ ~HasGap(client.lastSeq)
        /\ client' = [client EXCEPT !.at = "live"]
        /\ replay' = Missed(client.lastSeq)
        /\ UNCHANGED <<rx, lagged>>
  /\ UNCHANGED <<hub, drops>>

(* Mutant: an event after a gap is ignored for good.                       *)
ReceiveIgnoring(e) ==
  client' = IF client.lastSeq > 0 /\ e.seq = client.lastSeq + 1
            THEN [client EXCEPT !.view[e.key] = e.val, !.lastSeq = e.seq]
            ELSE client

(* shouldResyncForEnvelope.                                                *)
ShouldResync(e) == client.lastSeq > 0 /\ e.seq > client.lastSeq + 1

(* applyBrowserEventEnvelope; a gap closes the socket instead.             *)
Receive(e) ==
  \/ /\ ShouldResync(e)
     /\ client' = [client EXCEPT !.at = "down"]
  \/ /\ ~ShouldResync(e) /\ e.seq <= client.lastSeq
     /\ client' = client
  \/ /\ ~ShouldResync(e) /\ e.seq > client.lastSeq
     /\ client' = [client EXCEPT !.view[e.key] = e.val, !.lastSeq = e.seq]

(* The send task: the replay first, then the receiver's events, those of   *)
(* other users left out; an overflowed receiver ends the socket.           *)
SendReplay ==
  /\ client.at = "live"
  /\ replay # <<>>
  /\ Receive(Head(replay))
  /\ IF client'.at = "down" THEN NoSocket
     ELSE replay' = Tail(replay) /\ UNCHANGED <<rx, lagged>>
  /\ UNCHANGED <<hub, drops>>

SendLive ==
  /\ client.at = "live"
  /\ replay = <<>>
  /\ rx # <<>>
  /\ \/ /\ lagged
        /\ client' = [client EXCEPT !.at = "down"]
        /\ NoSocket
     \/ /\ ~lagged
        /\ IF Visible(Head(rx)) THEN Receive(Head(rx)) ELSE client' = client
        /\ IF client'.at = "down" THEN NoSocket
           ELSE rx' = Tail(rx) /\ UNCHANGED <<replay, lagged>>
  /\ UNCHANGED <<hub, drops>>

-----------------------------------------------------------------------------
(* Failures.                                                               *)

(* The socket drops; onclose starts over with a snapshot.                  *)
Disconnect ==
  /\ client.at \in {"subscribed", "live"}
  /\ drops < MaxDrops
  /\ drops' = drops + 1
  /\ client' = [client EXCEPT !.at = "down"]
  /\ NoSocket
  /\ UNCHANGED hub

(* Mutant: the safety offset left out.                                     *)
RecoveredPlain == persisted

RecoveredSeq == persisted + Offset

(* The hub dies and starts again: MachineManager::new recovers the number, *)
(* and the flush task's first tick, which is immediate, persists it before *)
(* the listener is bound.  What the database holds stays.  A browser that  *)
(* has its snapshot and has not opened the socket yet notices nothing.     *)
CrashAndRestart ==
  /\ drops < MaxDrops
  /\ RecoveredSeq <= MaxSeq
  /\ drops' = drops + 1
  /\ nextSeq' = RecoveredSeq
  /\ persisted' = RecoveredSeq
  /\ history' = <<>>
  /\ sending' = {}
  /\ told' = state
  /\ lost' = 0
  /\ burst' = (burst \/ nextSeq - persisted >= Offset)
  /\ life' = life + 1
  /\ client' = IF client.at = "ready" THEN client
               ELSE [client EXCEPT !.at = "down", !.got = NothingRead, !.unread = {}]
  /\ NoSocket
  /\ UNCHANGED state

-----------------------------------------------------------------------------
SendEventStep == \E s \in sending : NumberEvent(s) \/ RecordEvent(s) \/ BroadcastEvent(s)
ClientStep ==
  \/ SnapshotSeq
  \/ \E k \in Mine : SnapshotKey(k)
  \/ ApplySnapshot
  \/ Subscribe
  \/ TakeReplay
  \/ SendReplay
  \/ SendLive

Next ==
  \/ \E k \in Keys : ChangeState(k)
  \/ SendEventStep
  \/ FlushSeq
  \/ ClientStep
  \/ Disconnect
  \/ CrashAndRestart

Spec == Init /\ [][Next]_vars

(* The flush timer ticks, a handler that began send_event ends it, and the *)
(* browser retries and the sockets deliver for as long as it is open.      *)
Fairness ==
  /\ WF_vars(FlushSeq)
  /\ WF_vars(SendEventStep)
  /\ WF_vars(ClientStep)

LiveSpec == Spec /\ Fairness

-----------------------------------------------------------------------------
(* Properties.                                                             *)

TypeOK ==
  /\ state \in [Keys -> Nat]
  /\ nextSeq \in Nat
  /\ persisted \in Nat
  /\ history \in Seq(Events)
  /\ sending \subseteq Changes
  /\ told \in [Keys -> Nat]
  /\ lost \in Nat
  /\ burst \in BOOLEAN
  /\ life \in Nat
  /\ client \in Clients
  /\ replay \in Seq(Events)
  /\ rx \in Seq(Events)
  /\ lagged \in BOOLEAN
  /\ drops \in Nat

(* A browser that has received all there is, while nothing is on its way,  *)
(* shows of every key the hub's state or what the last event of it told:   *)
(* between snapshot, history, broadcast and the duplicates and reorderings *)
(* of send_event, nothing the hub has said is lost.  The two differ only   *)
(* where the events of two changes of a key were numbered in the reverse   *)
(* order.  Not so for a snapshot of a hub that has never numbered an event *)
(* (number 0 switches the gap detection off at both ends), nor below a     *)
(* number the history let go of unnoticeably (Misleads).                   *)
CaughtUp ==
  /\ client.at = "live" /\ client.life = life /\ client.snapSeq > 0 /\ client.lastSeq >= lost
  /\ replay = <<>> /\ rx = <<>> /\ sending = {}

InSync == CaughtUp => \A k \in Mine : client.view[k] \in {state[k], told[k]}

(* A browser whose snapshot is of an earlier life of the hub never applies *)
(* an event of a later one to it: it takes a new snapshot, because the     *)
(* numbers go on past the old ones (SEQ_RECOVERY_OFFSET).  Not after a     *)
(* crash that found as many numbers unflushed as the offset.               *)
OldSnapshotRejected ==
  [][~burst /\ client.life # life /\ client.snapSeq > 0 /\ client'.view # client.view
       => client'.life = life]_vars

(* When the changes and the failures stop, the browser ends up connected,  *)
(* and showing what InSync says (with the exceptions CaughtUp makes).      *)
Converges ==
  <>[](client.at = "live" /\ (client.life = life /\ client.snapSeq > 0 /\ client.lastSeq >= lost =>
                                \A k \in Mine : client.view[k] \in {state[k], told[k]}))

(* The comment on SEQ_RECOVERY_OFFSET: it "must exceed the maximum number  *)
(* of events that can go unflushed (flush cadence is every 100 events or 5 *)
(* seconds)" (machine_manager.rs:55-57).  It does not hold: only the timer *)
(* flushes, and send_event waits for nothing.                              *)
UnflushedFitsOffset == nextSeq - persisted < Offset

=============================================================================
