------------------------- MODULE ManagedConnection -------------------------
(***************************************************************************)
(* The managed connection of a Hub (crates/hub/src/cloud.rs): the commands *)
(* `offdesk-hub cloud login | enroll | install | check | disable`, each a  *)
(* process of its own that may die at any step, and the connector they     *)
(* install as ONE user service "offdesk-cloud"                             *)
(* (crates/protocol/src/service.rs).  Several Hubs of one user - several   *)
(* databases - compete for that unit, for the port of the encrypted-only   *)
(* listener and for the lock of a running connector.                       *)
(*                                                                         *)
(* What a process does between two points at which another process, the    *)
(* network or a kill can come in between is one action.  A lock is held as *)
(* long as its owner is at the steps that follow the lock in the code:     *)
(* flock goes away with the process, so a kill releases it.                *)
(***************************************************************************)
EXTENDS Naturals, FiniteSets

CONSTANTS
    Hubs,         \* databases of this user, each with its own Hub key
    Shells,       \* terminals the user may type a command in
    Svc,          \* the one process the service manager runs for the unit
    Nil,
    MaxCommands,  \* how many commands are typed
    MaxFaults     \* how many times a request is lost, a process is killed or
                  \* the service manager fails

ASSUME ManagedAssumption ==
    /\ Svc \notin Shells
    /\ Nil \notin Hubs
    /\ MaxCommands \in Nat
    /\ MaxFaults \in Nat

VARIABLES
    saved,     \* registration.json of a Hub: "none", "off" or "on" (enabled)
    url,       \* whether the Hub's verified-url file is there
    remote,    \* what the service knows of the Hub
    listener,  \* the Hub that holds 127.0.0.1:4318
    unit,      \* the Hub named by the unit file
    loaded,    \* the Hub whose unit the service manager runs
    proc,      \* what each process is doing, and for which Hub
    off,       \* Hubs whose last disable succeeded, with no install since
    typed,     \* commands typed so far
    faults     \* faults so far

vars == <<saved, url, remote, listener, unit, loaded, proc, off, typed, faults>>

Procs == Shells \cup {Svc}

\* MUTANT of Locked: a check is taken for one more command that only reads.
LockedNotCheck(cmd) == cmd \in {"enroll", "install", "disable"}

\* The commands that take the Hub's operation.lock; status, login-status and
\* run do not.
Locked(cmd) == cmd \in {"enroll", "install", "check", "disable"}

\* Where a command stands with the lock on the shared unit in its hands.
AtUnit == {"probing", "finding", "enabling", "writing", "restarting",
           "stopping", "removing", "revoking"}

\* MUTANT of UnitBusy: the ownership is checked, the check is not protected.
UnitNeverBusy == FALSE

\* A command that changes the unit takes the lock, without waiting.
UnitBusy == \E p \in Shells :
    proc[p].cmd \in {"install", "disable"} /\ proc[p].at \in AtUnit

\* connector.lock: taken by run before it looks for the Hub, and kept by the
\* program it becomes.
Connecting(at) == at \in {"looking", "fetching", "running"}

\* MUTANT of Relaunches: the unit is started once.
LaunchesOnce(at) == at = "launching"

\* The service manager starts the process when the unit is restarted, and
\* again, ten seconds after it ends, because the unit says Restart=always.
Relaunches(at) == at \in {"launching", "idle"}

----------------------------------------------------------------------------
Idle == [at |-> "idle", cmd |-> "none", hub |-> Nil]

Init ==
    /\ saved = [h \in Hubs |-> "none"]
    /\ url = [h \in Hubs |-> FALSE]
    /\ remote = [h \in Hubs |-> "unknown"]
    /\ listener = Nil
    /\ unit = Nil
    /\ loaded = Nil
    /\ proc = [p \in Procs |-> Idle]
    /\ off = {}
    /\ typed = 0
    /\ faults = 0

files == <<saved, url>>
machine == <<listener, unit, loaded>>
counts == <<typed, faults>>

Goes(p, at) == proc' = [proc EXCEPT ![p].at = at]
Ends(p) == proc' = [proc EXCEPT ![p] = Idle]

\* A command starts: it is typed in an idle terminal and, if it changes the
\* Hub's files, gets the operation lock or gives up at once.
Types(p, cmd, h, at) ==
    /\ proc[p].at = "idle"
    /\ typed < MaxCommands
    /\ typed' = typed + 1
    /\ Locked(cmd) =>
         \A q \in Shells : proc[q].hub = h => ~Locked(proc[q].cmd)
    /\ proc' = [proc EXCEPT ![p] = [at |-> at, cmd |-> cmd, hub |-> h]]
    /\ UNCHANGED faults

\* An error or a kill ends a command wherever it is; its locks go with it.
Dies(p) ==
    /\ proc[p].at # "idle"
    /\ faults < MaxFaults
    /\ faults' = faults + 1
    /\ Ends(p)
    /\ UNCHANGED <<files, machine, remote, off, typed>>

\* Every command but the first of a Hub needs its registration.json.
Registered(h) == saved[h] # "none"

----------------------------------------------------------------------------
\* login and enroll: make the registration if there is none, and tell the
\* service about it.
Enroll(p, h) ==
    /\ Types(p, "enroll", h, "enrolling")
    /\ saved' = [saved EXCEPT ![h] = IF @ = "none" THEN "off" ELSE @]
    /\ UNCHANGED <<url, machine, remote, off>>

\* A request of process p reaches the service, which answers; the answer may
\* be lost after the service has acted, and the command gives up.
Asks(p, state) == remote' = [remote EXCEPT ![proc[p].hub] = state]
AnswerLost(p) == /\ faults < MaxFaults
                 /\ faults' = faults + 1
                 /\ Ends(p)
                 /\ UNCHANGED <<files, off>>

Enrolled(p) ==
    LET h == proc[p].hub IN
    /\ proc[p].at = "enrolling"
    /\ Asks(p, IF remote[h] = "unknown" THEN "known" ELSE remote[h])
    /\ \/ Ends(p) /\ UNCHANGED <<files, off, faults>>
       \/ AnswerLost(p)
    /\ UNCHANGED <<machine, typed>>

----------------------------------------------------------------------------
\* install takes both locks and looks whose unit is installed.
Owned(h) == unit \in {Nil, h}

Install(p, h) ==
    /\ Registered(h)
    /\ ~UnitBusy
    /\ Owned(h)
    /\ Types(p, "install", h, "probing")
    /\ off' = off \ {h}
    /\ UNCHANGED <<files, machine, remote>>

\* check_local: the encrypted-only listener answers with this Hub's key.
Probe(p) ==
    /\ proc[p].at = "probing"
    /\ IF listener = proc[p].hub THEN Goes(p, "finding") ELSE Ends(p)
    /\ UNCHANGED <<files, machine, remote, off, counts>>

\* cloudflared is found on this computer, or downloaded - minutes during which
\* only the lock keeps the ownership true - or the command gives up.
FindConnector(p) ==
    /\ proc[p].at = "finding"
    /\ Goes(p, "enabling") \/ Ends(p)
    /\ UNCHANGED <<files, machine, remote, off, counts>>

\* POST /enable; on success the registration is saved as enabled.
Enable(p) ==
    LET h == proc[p].hub IN
    /\ proc[p].at = "enabling"
    /\ IF remote[h] = "unknown"
       THEN /\ Ends(p)
            /\ UNCHANGED <<saved, url, remote, off, faults>>
       ELSE /\ Asks(p, IF remote[h] = "active" THEN "active" ELSE "provisioning")
            /\ \/ /\ saved' = [saved EXCEPT ![h] = "on"]
                  /\ Goes(p, "writing")
                  /\ UNCHANGED <<url, off, faults>>
               \/ AnswerLost(p)
    /\ UNCHANGED <<machine, typed>>

\* service::install: write the unit, then have the manager restart it.
WriteUnit(p) ==
    /\ proc[p].at = "writing"
    /\ unit' = proc[p].hub
    /\ Goes(p, "restarting")
    /\ UNCHANGED <<files, remote, listener, loaded, off, counts>>

RestartUnit(p) ==
    /\ proc[p].at = "restarting"
    /\ loaded' = unit
    /\ proc' = [proc EXCEPT
         ![p] = Idle,
         ![Svc] = [at |-> "launching", cmd |-> "run", hub |-> unit]]
    /\ UNCHANGED <<files, remote, listener, unit, off, counts>>

----------------------------------------------------------------------------
\* check: the connection is active, the public address reaches this Hub and
\* only its encrypted route; then the address is advertised.
Check(p, h) ==
    /\ saved[h] = "on"
    /\ Types(p, "check", h, "asking")
    /\ UNCHANGED <<files, machine, remote, off>>

AskStatus(p) ==
    /\ proc[p].at = "asking"
    /\ IF remote[proc[p].hub] = "active" THEN Goes(p, "testing") ELSE Ends(p)
    /\ UNCHANGED <<files, machine, remote, off, counts>>

Runs(h) == \E q \in Procs : proc[q].at = "running" /\ proc[q].hub = h

\* The public address leads through a connector to the Hub's own listener.
Reaches(h) == Runs(h) /\ listener = h /\ remote[h] = "active"

TestAddress(p) ==
    /\ proc[p].at = "testing"
    /\ IF Reaches(proc[p].hub) THEN Goes(p, "passed") ELSE Ends(p)
    /\ UNCHANGED <<files, machine, remote, off, counts>>

Advertise(p) ==
    /\ proc[p].at = "passed"
    /\ url' = [url EXCEPT ![proc[p].hub] = TRUE]
    /\ Ends(p)
    /\ UNCHANGED <<saved, machine, remote, off, counts>>

----------------------------------------------------------------------------
\* disable: the registration first, then the address, then the unit if it is
\* this Hub's, then the service.
Disable(p, h) ==
    /\ Registered(h)
    /\ Types(p, "disable", h, "hiding")
    /\ saved' = [saved EXCEPT ![h] = "off"]
    /\ UNCHANGED <<url, machine, remote, off>>

\* The unit's lock is not waited for: a busy one ends the command here, with
\* the unit installed and the service never asked.
Hide(p) ==
    LET h == proc[p].hub IN
    /\ proc[p].at = "hiding"
    /\ url' = [url EXCEPT ![h] = FALSE]
    /\ IF UnitBusy THEN Ends(p)
       ELSE Goes(p, IF Owned(h) THEN "stopping" ELSE "revoking")
    /\ UNCHANGED <<saved, machine, remote, off, counts>>

\* A stop that fails is ignored.
StopUnit(p) ==
    /\ proc[p].at = "stopping"
    /\ \/ /\ loaded' = Nil
          /\ proc' = [proc EXCEPT ![p].at = "removing", ![Svc] = Idle]
          /\ UNCHANGED faults
       \/ /\ faults < MaxFaults
          /\ faults' = faults + 1
          /\ Goes(p, "removing")
          /\ UNCHANGED loaded
    /\ UNCHANGED <<files, remote, listener, unit, off, typed>>

RemoveUnit(p) ==
    /\ proc[p].at = "removing"
    /\ unit' = Nil
    /\ Goes(p, "revoking")
    /\ UNCHANGED <<files, remote, listener, loaded, off, counts>>

\* POST /disable.  The command succeeds if the unit was its own to remove.
Revoke(p) ==
    LET h == proc[p].hub IN
    /\ proc[p].at = "revoking"
    /\ IF remote[h] = "unknown"
       THEN /\ Ends(p)
            /\ UNCHANGED <<files, remote, off, faults>>
       ELSE /\ Asks(p, "revoked")
            /\ \/ /\ off' = IF Owned(h) THEN off \cup {h} ELSE off
                  /\ Ends(p)
                  /\ UNCHANGED <<files, faults>>
               \/ AnswerLost(p)
    /\ UNCHANGED <<machine, typed>>

----------------------------------------------------------------------------
\* run, typed by the user or started by the service manager: no operation
\* lock; the registration must be enabled and no connector of this Hub run.
Starts(h) == /\ saved[h] = "on"
             /\ \A q \in Procs : ~(proc[q].hub = h /\ Connecting(proc[q].at))

RunByHand(p, h) ==
    /\ Starts(h)
    /\ Types(p, "run", h, "looking")
    /\ UNCHANGED <<files, machine, remote, off>>

RunByService ==
    /\ loaded # Nil
    /\ Relaunches(proc[Svc].at)
    /\ proc' = [proc EXCEPT ![Svc] =
         IF Starts(loaded) THEN [at |-> "looking", cmd |-> "run", hub |-> loaded]
                           ELSE Idle]
    /\ UNCHANGED <<files, machine, remote, off, counts>>

Look(p) ==
    /\ proc[p].at = "looking"
    /\ IF listener = proc[p].hub THEN Goes(p, "fetching") ELSE Ends(p)
    /\ UNCHANGED <<files, machine, remote, off, counts>>

\* The tunnel's credentials are fetched and written, and the process becomes
\* the connector.
Fetch(p) ==
    /\ proc[p].at = "fetching"
    /\ IF remote[proc[p].hub] \in {"provisioning", "active"}
       THEN Goes(p, "running") ELSE Ends(p)
    /\ UNCHANGED <<files, machine, remote, off, counts>>

----------------------------------------------------------------------------
\* The service finishes setting up a connection (external).
Provision(h) ==
    /\ remote[h] = "provisioning"
    /\ remote' = [remote EXCEPT ![h] = "active"]
    /\ UNCHANGED <<files, machine, proc, off, counts>>

\* A Hub started with --secure-listen binds the port if it is free, and a Hub
\* that stops gives it back.
Listen(h) ==
    /\ listener = Nil
    /\ listener' = h
    /\ UNCHANGED <<files, remote, unit, loaded, proc, off, counts>>

StopListening ==
    /\ listener # Nil
    /\ listener' = Nil
    /\ UNCHANGED <<files, remote, unit, loaded, proc, off, counts>>

Step(p) ==
    \/ Enrolled(p) \/ Probe(p) \/ FindConnector(p) \/ Enable(p) \/ WriteUnit(p) \/ RestartUnit(p)
    \/ AskStatus(p) \/ TestAddress(p) \/ Advertise(p)
    \/ Hide(p) \/ StopUnit(p) \/ RemoveUnit(p) \/ Revoke(p)
    \/ Look(p) \/ Fetch(p)

Command(p, h) ==
    \/ Enroll(p, h) \/ Install(p, h) \/ Check(p, h) \/ Disable(p, h)
    \/ RunByHand(p, h)

Next ==
    \/ \E p \in Procs : Step(p) \/ Dies(p)
    \/ \E p \in Shells, h \in Hubs : Command(p, h)
    \/ RunByService
    \/ \E h \in Hubs : Provision(h) \/ Listen(h)
    \/ StopListening

Spec == Init /\ [][Next]_vars

\* A process goes on, requests have a time limit, and the service manager
\* starts what has ended; nothing says when a command is typed, a Hub starts
\* or the service provisions.
Fairness == /\ \A p \in Procs : WF_vars(Step(p))
            /\ WF_vars(RunByService)
LiveSpec == Spec /\ Fairness

----------------------------------------------------------------------------
TypeOK ==
    /\ saved \in [Hubs -> {"none", "off", "on"}]
    /\ url \in [Hubs -> BOOLEAN]
    /\ remote \in [Hubs -> {"unknown", "known", "provisioning", "active", "revoked"}]
    /\ {listener, unit, loaded} \subseteq Hubs \cup {Nil}
    /\ \A p \in Procs : proc[p].hub \in Hubs \cup {Nil}
    /\ off \subseteq Hubs
    /\ typed \in 0..MaxCommands
    /\ faults \in 0..MaxFaults

\* A disable that reported success is final until the next install: whatever
\* other commands and the other Hubs were doing meanwhile, the Hub is not
\* enabled, advertises no address, owns no unit and is revoked at the service.
OffIsOff ==
    \A h \in off : /\ saved[h] = "off"
                   /\ ~url[h]
                   /\ unit # h
                   /\ remote[h] = "revoked"

\* No two connectors of one Hub run, started by hand or by the service
\* manager: the runtime lock is retained by the program run becomes.
OneConnector ==
    \A p, q \in Procs :
        (proc[p].at = "running" /\ proc[q].at = "running"
            /\ proc[p].hub = proc[q].hub) => p = q

\* The unit of a Hub is replaced by no other Hub, and removed only by a disable
\* of that Hub, although the ownership is read long before the unit is written.
UnitKeepsOwner ==
    [][unit # Nil /\ unit' # unit =>
         /\ unit' = Nil
         /\ \E p \in Shells : proc[p].hub = unit /\ proc[p].at = "removing"]_vars

\* Once a Hub stays installed, enabled, provisioned and listening, its connector
\* runs, however often it failed while one of these was missing.
Ready(h) == /\ loaded = h /\ saved[h] = "on"
            /\ listener = h
            /\ remote[h] \in {"provisioning", "active"}
InstalledRuns == \A h \in Hubs : <>[]Ready(h) => <>[]Runs(h)
=============================================================================
