---------------------------- MODULE ControlLease ----------------------------
(***************************************************************************)
(* The control leases of one user (crates/hub/src/machine_manager.rs,      *)
(* ModeState) and the two places that drive them: the events WebSocket,    *)
(* whose life connects and disconnects a device, and the terminal          *)
(* WebSocket, whose messages are gated by the lease and may claim it       *)
(* (crates/hub/src/ws.rs).  ModeState is keyed by user and no operation    *)
(* touches two users, so one user is the whole component.                  *)
(***************************************************************************)
EXTENDS Naturals, FiniteSets

CONSTANTS
  Devices,      \* device ids of one user (browser tabs, phones)
  Machines,     \* machine ids visible to that user
  None,         \* no controller: the key is absent from control_leases
  MaxSockets    \* bound: events sockets plus grace timers alive per device

ASSUME NoneAssumption == None \notin Devices
ASSUME MaxSocketsAssumption == MaxSockets \in Nat

VARIABLES
  leases,       \* control_leases: machine -> controlling device or None
  count,        \* connected_devices: device -> events connections (0: absent)
  stash,        \* released_leases: device -> machines (empty: absent)
  sockets,      \* open events sockets of a device
  timers,       \* grace timers asleep in schedule_unregister_device
  inflight,     \* the terminal-socket message a device is having handled
  lastClaim,    \* history: machine -> last device that asked for control
  renounced     \* history: device -> machines it released since it last asked

modeVars == <<leases, count, stash>>
history  == <<lastClaim, renounced>>
vars == <<leases, count, stash, sockets, timers, inflight,
          lastClaim, renounced>>

-----------------------------------------------------------------------------
(* Terminal-socket messages.  Input, CommandInput and ImagePaste claim the *)
(* lease ("claiming"); Resize and Composer only need it ("gated").         *)

Kinds == {"claiming", "gated"}
Idle == [at |-> "idle"]

Message == [at : {"checked", "admitted"}, machine : Machines, kind : Kinds,
            can : BOOLEAN]

Held(d) == {m \in Machines : leases[m] = d}

Init ==
  /\ leases = [m \in Machines |-> None]
  /\ count = [d \in Devices |-> 0]
  /\ stash = [d \in Devices |-> {}]
  /\ sockets = [d \in Devices |-> 0]
  /\ timers = [d \in Devices |-> 0]
  /\ inflight = [d \in Devices |-> Idle]
  /\ lastClaim = [m \in Machines |-> None]
  /\ renounced = [d \in Devices |-> {}]

-----------------------------------------------------------------------------
(* The events socket.                                                      *)

Counted(d) == [count EXCEPT ![d] = @ + 1]
StashTaken(d) == [stash EXCEPT ![d] = {}]
Restored(d) ==
  [m \in Machines |-> IF m \in stash[d] /\ leases[m] = None THEN d ELSE leases[m]]

(* handle_events calls register_device: one more connection, and the       *)
(* device's stash is consumed, each machine nobody holds restored to it.   *)
RegisterDevice(d) ==
  /\ sockets[d] + timers[d] < MaxSockets
  /\ sockets' = [sockets EXCEPT ![d] = @ + 1]
  /\ count' = Counted(d)
  /\ stash' = StashTaken(d)
  /\ leases' = Restored(d)
  /\ UNCHANGED <<timers, inflight, lastClaim, renounced>>

(* The handler ends (closed, lagged, or a resync asked for): it schedules  *)
(* the device's cleanup after DEVICE_DISCONNECT_GRACE_PERIOD.              *)
SocketEnds(d) ==
  /\ sockets[d] > 0
  /\ sockets' = [sockets EXCEPT ![d] = @ - 1]
  /\ timers' = [timers EXCEPT ![d] = @ + 1]
  /\ UNCHANGED <<modeVars, inflight, history>>

LoseOne(d) ==
  /\ count' = [count EXCEPT ![d] = @ - 1]
  /\ UNCHANGED <<leases, stash>>

LoseLast(d) ==
  /\ count' = [count EXCEPT ![d] = 0]
  /\ stash' = IF Held(d) # {} THEN [stash EXCEPT ![d] = Held(d)] ELSE stash
  /\ leases' = [m \in Machines |-> IF leases[m] = d THEN None ELSE leases[m]]

(* Mutants: the first of several connections to end releases; the last one *)
(* does not (> 0 for > 1).                                                 *)
UnregisterFirst(d) == IF count[d] > 0 THEN LoseLast(d) ELSE UNCHANGED modeVars
UnregisterNever(d) == IF count[d] > 0 THEN LoseOne(d) ELSE UNCHANGED modeVars

(* unregister_device: a device with other connections only loses one; the  *)
(* last one gone, its leases are released and stashed for its return.  A   *)
(* device that is not counted loses nothing.                               *)
UnregisterDevice(d) ==
  IF count[d] > 1 THEN LoseOne(d)
  ELSE IF count[d] = 1 THEN LoseLast(d) ELSE UNCHANGED modeVars

GraceTimerFires(d) ==
  /\ timers[d] > 0
  /\ timers' = [timers EXCEPT ![d] = @ - 1]
  /\ UnregisterDevice(d)
  /\ UNCHANGED <<sockets, inflight, history>>

-----------------------------------------------------------------------------
(* Asking for, releasing and losing control.                               *)

(* request_control: last writer wins.                                      *)
Claim(d, m) ==
  /\ leases' = [leases EXCEPT ![m] = d]
  /\ lastClaim' = [lastClaim EXCEPT ![m] = d]
  /\ renounced' = [renounced EXCEPT ![d] = @ \ {m}]

(* POST /api/mode/control; it needs no events socket.                      *)
RequestControl(d, m) ==
  /\ Claim(d, m)
  /\ UNCHANGED <<count, stash, sockets, timers, inflight>>

(* Mutant: the stash left alone by an explicit release.                    *)
StashUnrenounced(d, m) == stash
StashWithout(d, m) == [stash EXCEPT ![d] = @ \ {m}]

(* release_control (POST /api/mode/release and its beacon): the stash is   *)
(* cleared even when the lease is not held.                                *)
ReleaseControl(d, m) ==
  /\ stash' = StashWithout(d, m)
  /\ leases' = IF leases[m] = d THEN [leases EXCEPT ![m] = None] ELSE leases
  /\ renounced' = [renounced EXCEPT ![d] = @ \union {m}]
  /\ UNCHANGED <<count, sockets, timers, inflight, lastClaim>>

(* remove_machine / clear_machine_mode: the machine is forgotten.          *)
ClearMachineMode(m) ==
  /\ leases' = [leases EXCEPT ![m] = None]
  /\ stash' = [d \in Devices |-> stash[d] \ {m}]
  /\ UNCHANGED <<count, sockets, timers, inflight, history>>

-----------------------------------------------------------------------------
(* The terminal socket: the receive task handles one message of a device   *)
(* at a time, in three steps other tasks may come between.                 *)

IsController(d, m) == leases[m] = d

(* is_controller is read once, at the top of the handler.                  *)
CheckControl(d, m, kind) ==
  /\ inflight[d] = Idle
  /\ inflight' = [inflight EXCEPT ![d] =
                    [at |-> "checked", machine |-> m, kind |-> kind,
                     can |-> IsController(d, m)]]
  /\ UNCHANGED <<modeVars, sockets, timers, history>>

(* client_message_claims_control, then client_message_allowed: a claiming  *)
(* message of a device that is not the controller takes the lease; any     *)
(* other message of such a device is dropped.                              *)
AdmitMessage(d) ==
  LET msg == inflight[d] IN
  /\ msg.at = "checked"
  /\ \/ /\ ~msg.can /\ msg.kind = "claiming"
        /\ Claim(d, msg.machine)
        /\ inflight' = [inflight EXCEPT ![d] = [msg EXCEPT !.at = "admitted", !.can = TRUE]]
     \/ /\ ~msg.can /\ msg.kind # "claiming"
        /\ inflight' = [inflight EXCEPT ![d] = Idle]
        /\ UNCHANGED <<leases, history>>
     \/ /\ msg.can
        /\ inflight' = [inflight EXCEPT ![d] = [msg EXCEPT !.at = "admitted"]]
        /\ UNCHANGED <<leases, history>>
  /\ UNCHANGED <<count, stash, sockets, timers>>

(* send_to_machine, after the awaits in between, and whoever holds the     *)
(* machine by then.                                                        *)
SendMessage(d) ==
  /\ inflight[d].at = "admitted"
  /\ inflight' = [inflight EXCEPT ![d] = Idle]
  /\ UNCHANGED <<modeVars, sockets, timers, history>>

-----------------------------------------------------------------------------
Next ==
  \/ \E d \in Devices :
       \/ RegisterDevice(d)
       \/ SocketEnds(d)
       \/ GraceTimerFires(d)
       \/ AdmitMessage(d)
       \/ SendMessage(d)
  \/ \E d \in Devices, m \in Machines :
       \/ RequestControl(d, m)
       \/ ReleaseControl(d, m)
       \/ \E kind \in Kinds : CheckControl(d, m, kind)
  \/ \E m \in Machines : ClearMachineMode(m)

Spec == Init /\ [][Next]_vars

(* A spawned sleep always wakes and its task always runs.                  *)
Fairness == \A d \in Devices : WF_vars(GraceTimerFires(d))

LiveSpec == Spec /\ Fairness

-----------------------------------------------------------------------------
(* Properties.                                                             *)

TypeOK ==
  /\ leases \in [Machines -> Devices \union {None}]
  /\ count \in [Devices -> Nat]
  /\ stash \in [Devices -> SUBSET Machines]
  /\ sockets \in [Devices -> Nat]
  /\ timers \in [Devices -> Nat]
  /\ inflight \in [Devices -> {Idle} \union Message]
  /\ lastClaim \in [Machines -> Devices \union {None}]
  /\ renounced \in [Devices -> SUBSET Machines]

(* connected_devices counts each connection exactly once, from its         *)
(* register_device to the end of its grace period: a count that drifted    *)
(* would release a connected device or never release a gone one.           *)
CountMatches == \A d \in Devices : count[d] = sockets[d] + timers[d]

(* A device that is connected, or still in its grace period, has nothing   *)
(* left to restore: released_leases only waits for devices that are gone.  *)
StashOnlyWhenGone == \A d \in Devices : stash[d] # {} => count[d] = 0

(* An explicit release is final (the tests explicit_release_prevents_      *)
(* reconnect_restore and ..._after_grace_period_...): until the device     *)
(* asks again, no reconnect gives it the machine back.                     *)
ReleaseIsFinal ==
  \A d \in Devices, m \in Machines :
    leases[m] = d \/ m \in stash[d] => m \notin renounced[d]

(* No grace timer, of whichever earlier connection, takes a lease from a   *)
(* device that has an events socket open.                                  *)
TimerSparesConnected ==
  [][\A d \in Devices, m \in Machines :
       sockets[d] > 0 /\ leases[m] = d /\ timers' # timers
         => leases'[m] = d]_vars

(* A lease passes from one device straight to another only because the     *)
(* latter asked for it: a reconnect never takes one over.                  *)
OnlyClaimsTransfer ==
  [][\A m \in Machines :
       leases[m] # None /\ leases'[m] \notin {None, leases[m]}
         => lastClaim'[m] = leases'[m]]_vars

(* A device whose last events socket ended loses every lease, unless it    *)
(* opens a socket again: the grace period does end.                        *)
DisconnectReleases ==
  \A d \in Devices :
    (sockets[d] = 0 /\ count[d] > 0) ~> (sockets[d] > 0 \/ Held(d) = {})

(* What register_device's comment says of the restore ("as long as no      *)
(* other device has claimed them since"): whoever holds a machine was the  *)
(* last to ask for it.                                                     *)
HolderAskedLast ==
  \A m \in Machines : leases[m] # None => lastClaim[m] = leases[m]

=============================================================================
