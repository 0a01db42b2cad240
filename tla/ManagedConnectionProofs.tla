----------------------- MODULE ManagedConnectionProofs -----------------------
(***************************************************************************)
(* The two ways in from outside.                                           *)
(*                                                                         *)
(* 1. What the three locks of the managed connection achieve, for any      *)
(*    number of Hubs, terminals, commands and faults: a Hub's unit is its  *)
(*    own, a disable that succeeded is final, and one connector runs for a *)
(*    Hub (ManagedInv).                                                    *)
(* 2. What the writer of the encrypted channel keeps in order, for any     *)
(*    number of sockets, requests and records and any limits.  ChannelInv  *)
(*    says of the record under way which messages may still follow it      *)
(*    (Flying), of the hub's assemblies that they are what the writer has  *)
(*    begun (Assembled), and of each socket that the frames in its inbox,  *)
(*    under way and in the queue continue each other (SocketInv).          *)
(***************************************************************************)
EXTENDS ManagedConnection, SecureChannel, SequenceTheorems, FiniteSetTheorems,
        WellFoundedInduction, TLAPS

\* Where each command can stand.
Installing == {"probing", "finding", "enabling", "writing", "restarting"}
Checking == {"asking", "testing", "passed"}
Disabling == {"hiding", "stopping", "removing", "revoking"}
RunWork == [at : {"launching", "looking", "fetching", "running"}, cmd : {"run"}, hub : Hubs]
Work == {Idle} \union RunWork
  \union [at : {"enrolling"}, cmd : {"enroll"}, hub : Hubs]
  \union [at : Installing, cmd : {"install"}, hub : Hubs]
  \union [at : Checking, cmd : {"check"}, hub : Hubs]
  \union [at : Disabling, cmd : {"disable"}, hub : Hubs]

Shapes ==
  /\ saved \in [Hubs -> {"none", "off", "on"}]
  /\ url \in [Hubs -> BOOLEAN]
  /\ remote \in [Hubs -> {"unknown", "known", "provisioning", "active", "revoked"}]
  /\ loaded \in Hubs \union {Nil}
  /\ proc \in [Procs -> Work]
  /\ proc[Svc] \in {Idle} \union RunWork
  /\ off \subseteq Hubs

\* operation.lock and the shared unit's lock exclude.
Locks ==
  /\ \A p, q \in Shells :
       Locked(proc[p].cmd) /\ Locked(proc[q].cmd) /\ proc[p].hub = proc[q].hub => p = q
  /\ \A p, q \in Shells : proc[p].at \in AtUnit /\ proc[q].at \in AtUnit => p = q

\* What the holder of a lock may rely on.
Holds(p) ==
  LET h == proc[p].hub
  IN  /\ proc[p].at \in Installing \union {"stopping", "removing"} => Owned(h)
      /\ proc[p].at = "restarting" => unit = h
      /\ proc[p].at \in Disabling => saved[h] = "off"
      /\ proc[p].at \in {"stopping", "removing", "revoking"} => ~url[h]
      /\ proc[p].at = "revoking" => unit # h

\* A Hub that is off is neither being installed nor checked.
OffAlone ==
  \A h \in off, p \in Shells :
    proc[p].hub = h => proc[p].cmd \in {"enroll", "disable", "run"}

Connectors ==
  \A p, q \in Procs :
    Connecting(proc[p].at) /\ Connecting(proc[q].at) /\ proc[p].hub = proc[q].hub => p = q

ManagedInv ==
  /\ Shapes /\ Locks /\ (\A p \in Shells : Holds(p))
  /\ OffIsOff /\ OffAlone /\ Connectors

-----------------------------------------------------------------------------
LEMMA InitManagedInv == Init => ManagedInv
<1> SUFFICES ASSUME Init PROVE ManagedInv
  OBVIOUS
<1>1. Shapes
  BY DEF Init, Shapes, Work, Procs
<1>2. Locks /\ OffIsOff /\ OffAlone /\ Connectors
  BY DEF Init, Idle, Locks, Locked, AtUnit, OffIsOff, OffAlone, Connectors, Connecting, Procs
<1>3. ASSUME NEW p \in Shells PROVE Holds(p)
  BY DEF Init, Idle, Holds, Installing, Disabling, Procs
<1> QED BY <1>1, <1>2, <1>3 DEF ManagedInv

(* What a piece of work is, by where it stands.                            *)
LEMMA WorkShapes ==
  ASSUME NEW w \in Work
  PROVE  /\ w.at = "idle" => w = Idle /\ w.hub = Nil /\ w.cmd = "none"
         /\ w.at # "idle" => w.hub \in Hubs
         /\ w.cmd = "install" <=> w.at \in Installing
         /\ w.cmd = "disable" <=> w.at \in Disabling
         /\ w.cmd = "check" <=> w.at \in Checking
         /\ w.cmd = "enroll" <=> w.at = "enrolling"
         /\ w.cmd = "run" <=> w.at \in {"launching", "looking", "fetching", "running"}
BY DEF Work, Idle, RunWork, Installing, Disabling, Checking

LEMMA NextWork ==
  ASSUME NEW w \in Work
  PROVE  /\ Idle \in Work
         /\ \A at \in Installing : w.at \in Installing => [w EXCEPT !.at = at] \in Work
         /\ \A at \in Checking : w.at \in Checking => [w EXCEPT !.at = at] \in Work
         /\ \A at \in Disabling : w.at \in Disabling => [w EXCEPT !.at = at] \in Work
         /\ \A at \in {"fetching", "running"} :
              w.at \in {"looking", "fetching"} =>
                [w EXCEPT !.at = at] \in {x \in RunWork : x.hub = w.hub /\ x.at = at}
BY DEF Work, Idle, RunWork, Installing, Disabling, Checking

LEMMA UnitBusyMeans ==
  ASSUME Shapes, NEW p \in Shells, proc[p].at \in AtUnit PROVE UnitBusy
<1>1. proc[p] \in Work
  BY DEF Shapes, Procs
<1>2. proc[p].cmd \in {"install", "disable"}
  BY <1>1, WorkShapes DEF AtUnit, Installing, Disabling
<1> QED BY <1>2 DEF UnitBusy

-----------------------------------------------------------------------------
(* What a step of a process does to the processes: it ends, or stands      *)
(* somewhere else in the same command; it comes to hold the unit's lock    *)
(* only when nobody does, and no connector appears but by a command.       *)
Moved(p) ==
  /\ proc' \in [Procs -> Work]
  /\ proc'[Svc] \in {Idle} \union RunWork
  /\ \A q \in Shells : proc'[q] # proc[q] => q = p
  /\ p \in Shells /\ proc'[p] # Idle =>
       proc'[p].cmd = proc[p].cmd /\ proc'[p].hub = proc[p].hub
  /\ p \in Shells /\ proc'[p].at \in AtUnit => proc[p].at \in AtUnit \/ ~UnitBusy
  /\ \A q \in Procs : Connecting(proc'[q].at) =>
       Connecting(proc[q].at) /\ proc'[q].hub = proc[q].hub

LEMMA EndsMoves ==
  ASSUME Shapes, NEW p \in Procs, Ends(p) PROVE Moved(p) /\ proc'[p] = Idle
<1>1. proc' = [proc EXCEPT ![p] = Idle] /\ proc \in [Procs -> Work]
  BY DEF Ends, Shapes
<1>2. proc' \in [Procs -> Work] /\ proc'[p] = Idle
  BY <1>1, NextWork
<1>3. \A q \in Procs : proc'[q] # proc[q] => q = p
  BY <1>1
<1>4. Svc \in Procs /\ Shells \subseteq Procs
  BY DEF Procs
<1>5. proc'[Svc] \in {Idle} \union RunWork
  BY <1>1, <1>2, <1>3, <1>4 DEF Shapes
<1>6. Idle.at \notin AtUnit /\ ~Connecting(Idle.at)
  BY DEF Idle, AtUnit, Connecting
<1>7. \A q \in Procs : Connecting(proc'[q].at) =>
       Connecting(proc[q].at) /\ proc'[q].hub = proc[q].hub
  BY <1>2, <1>3, <1>6
<1> QED BY <1>2, <1>3, <1>4, <1>5, <1>6, <1>7 DEF Moved

LEMMA GoesMoves ==
  ASSUME Shapes, NEW p \in Procs, NEW at, Goes(p, at),
         \/ proc[p].at \in Installing /\ at \in Installing
         \/ proc[p].at \in Checking /\ at \in Checking
         \/ proc[p].at \in Disabling /\ at \in Disabling
         \/ proc[p].at \in {"looking", "fetching"} /\ at = "fetching"
         \/ proc[p].at = "fetching" /\ at = "running",
         at \in AtUnit => proc[p].at \in AtUnit \/ ~UnitBusy
  PROVE  /\ Moved(p)
         /\ proc'[p].at = at /\ proc'[p].cmd = proc[p].cmd /\ proc'[p].hub = proc[p].hub
<1>1. proc' = [proc EXCEPT ![p].at = at] /\ proc \in [Procs -> Work] /\ proc[p] \in Work
  BY DEF Goes, Shapes
<1>2. proc'[p] = [proc[p] EXCEPT !.at = at] /\ \A q \in Procs : proc'[q] # proc[q] => q = p
  BY <1>1
<1>3. /\ proc'[p] \in Work
      /\ at \in {"fetching", "running"} => proc'[p] \in RunWork
  <2>1. CASE at \in Installing \union Checking \union Disabling
    BY <1>1, <1>2, <2>1, NextWork DEF Installing, Checking, Disabling
  <2>2. CASE at \in {"fetching", "running"}
    <3>1. proc[p].at \in {"looking", "fetching"}
      BY <2>2 DEF Installing, Checking, Disabling
    <3>2. proc'[p] \in {x \in RunWork : x.hub = proc[p].hub /\ x.at = at}
      BY <1>1, <1>2, <2>2, <3>1, NextWork
    <3> QED BY <3>2 DEF Work
  <2> QED BY <2>1, <2>2
<1>4. proc' \in [Procs -> Work]
  BY <1>1, <1>2, <1>3
<1>5. proc'[p].at = at /\ proc'[p].cmd = proc[p].cmd /\ proc'[p].hub = proc[p].hub
  BY <1>1, <1>2 DEF Work, Idle, RunWork
<1>6. proc'[Svc] \in {Idle} \union RunWork
  <2>1. CASE p = Svc
    <3>1. proc[p].at \in {"looking", "fetching"}
      BY <2>1 DEF Shapes, Idle, RunWork, Installing, Checking, Disabling
    <3> QED BY <2>1, <3>1, <1>3 DEF Installing, Checking, Disabling
  <2>2. CASE p # Svc
    BY <1>2, <2>2 DEF Shapes, Procs
  <2> QED BY <2>1, <2>2
<1>7. \A q \in Procs : Connecting(proc'[q].at) =>
       Connecting(proc[q].at) /\ proc'[q].hub = proc[q].hub
  BY <1>2, <1>5 DEF Connecting, Installing, Checking, Disabling
<1> QED BY <1>2, <1>4, <1>5, <1>6, <1>7 DEF Moved, Procs

(* Every step of a process but the two that act on the service manager's.  *)
LEMMA StepMoves ==
  ASSUME Shapes, NEW p \in Procs, Step(p) \/ Dies(p),
         ~ RestartUnit(p), ~ StopUnit(p)
  PROVE  Moved(p)
<1>1. CASE Dies(p)
  BY <1>1, EndsMoves DEF Dies
<1>2. CASE Enrolled(p)
  BY <1>2, EndsMoves DEF Enrolled, AnswerLost
<1>3. CASE Probe(p)
  BY <1>3, EndsMoves, GoesMoves DEF Probe, Installing, AtUnit
<1>4. CASE FindConnector(p)
  BY <1>4, EndsMoves, GoesMoves DEF FindConnector, Installing, AtUnit
<1>5. CASE Enable(p)
  <2>1. Ends(p) \/ Goes(p, "writing")
    BY <1>5 DEF Enable, AnswerLost
  <2> QED BY <1>5, <2>1, EndsMoves, GoesMoves DEF Enable, Installing, AtUnit
<1>6. CASE WriteUnit(p)
  BY <1>6, GoesMoves DEF WriteUnit, Installing, AtUnit
<1>7. CASE AskStatus(p)
  BY <1>7, EndsMoves, GoesMoves DEF AskStatus, Checking, AtUnit
<1>8. CASE TestAddress(p)
  BY <1>8, EndsMoves, GoesMoves DEF TestAddress, Checking, AtUnit
<1>9. CASE Advertise(p)
  BY <1>9, EndsMoves DEF Advertise
<1>10. CASE Hide(p)
  <2>1. Ends(p) \/ (~ UnitBusy /\ (Goes(p, "stopping") \/ Goes(p, "revoking")))
    BY <1>10 DEF Hide
  <2> QED BY <1>10, <2>1, EndsMoves, GoesMoves DEF Hide, Disabling
<1>11. CASE RemoveUnit(p)
  BY <1>11, GoesMoves DEF RemoveUnit, Disabling, AtUnit
<1>12. CASE Revoke(p)
  <2>1. Ends(p)
    BY <1>12 DEF Revoke, AnswerLost
  <2> QED BY <2>1, EndsMoves
<1>13. CASE Look(p)
  BY <1>13, EndsMoves, GoesMoves DEF Look, AtUnit
<1>14. CASE Fetch(p)
  BY <1>14, EndsMoves, GoesMoves DEF Fetch, AtUnit
<1> QED
  BY <1>1, <1>2, <1>3, <1>4, <1>5, <1>6, <1>7, <1>8, <1>9, <1>10, <1>11, <1>12,
     <1>13, <1>14 DEF Step

LEMMA ServiceMoves ==
  ASSUME Shapes, NEW p \in Procs, RestartUnit(p) \/ StopUnit(p),
         RestartUnit(p) => unit = proc[p].hub
  PROVE  p \in Shells /\ Moved(p)
<1>1. proc \in [Procs -> Work] /\ proc[p] \in Work
  BY DEF Shapes
<1>2. p \in Shells /\ p # Svc /\ Svc \in Procs /\ Shells \subseteq Procs
  BY ManagedAssumption DEF Shapes, Procs, RestartUnit, StopUnit, Idle, RunWork
<1>3. CASE RestartUnit(p)
  <2> DEFINE w == [at |-> "launching", cmd |-> "run", hub |-> unit]
  <2>1. proc' = [proc EXCEPT ![p] = Idle, ![Svc] = w]
    BY <1>3 DEF RestartUnit
  <2>2. unit \in Hubs
    BY <1>1, <1>3, WorkShapes DEF RestartUnit
  <2>3. w \in RunWork /\ w \in Work
    BY <2>2 DEF RunWork, Work
  <2>4. /\ proc'[p] = Idle /\ proc'[Svc] = w
        /\ \A q \in Procs : q # p /\ q # Svc => proc'[q] = proc[q]
    BY <1>1, <1>2, <2>1
  <2>5. proc' \in [Procs -> Work]
    BY <1>1, <1>2, <2>1, <2>3, NextWork
  <2>6. ~ Connecting(w.at) /\ ~ Connecting(Idle.at) /\ Idle.at \notin AtUnit
    BY DEF Connecting, Idle, AtUnit
  <2> QED BY <1>2, <2>3, <2>4, <2>5, <2>6, ManagedAssumption DEF Moved
<1>4. CASE StopUnit(p)
  <2>1. CASE Goes(p, "removing")
    BY <1>2, <1>4, <2>1, GoesMoves DEF StopUnit, Disabling, AtUnit
  <2>2. CASE proc' = [proc EXCEPT ![p].at = "removing", ![Svc] = Idle]
    <3>1. /\ proc'[p] = [proc[p] EXCEPT !.at = "removing"] /\ proc'[Svc] = Idle
          /\ \A q \in Procs : q # p /\ q # Svc => proc'[q] = proc[q]
      BY <1>1, <1>2, <2>2
    <3>2. proc'[p] \in Work
      BY <1>1, <1>4, <3>1, NextWork DEF StopUnit, Disabling
    <3>3. proc' \in [Procs -> Work]
      BY <1>1, <1>2, <2>2, <3>1, <3>2, NextWork
    <3>4. /\ proc'[p].cmd = proc[p].cmd /\ proc'[p].hub = proc[p].hub
          /\ proc'[p].at = "removing" /\ proc[p].at = "stopping"
      BY <1>1, <1>4, <3>1 DEF StopUnit, Work, Idle, RunWork
    <3>5. ~ Connecting("removing") /\ ~ Connecting(Idle.at) /\ "stopping" \in AtUnit
      BY DEF Connecting, Idle, AtUnit
    <3> QED BY <1>2, <3>1, <3>3, <3>4, <3>5, ManagedAssumption DEF Moved
  <2> QED BY <1>4, <2>1, <2>2 DEF StopUnit
<1> QED BY <1>2, <1>3, <1>4

(* Every step of a process, then, given what a restart relies on.          *)
LEMMA AnyStepMoves ==
  ASSUME Shapes, \A q \in Shells : Holds(q), NEW p \in Procs, Step(p) \/ Dies(p)
  PROVE  Moved(p)
<1>1. CASE RestartUnit(p)
  <2>1. p \in Shells
    BY <1>1 DEF RestartUnit, Shapes, Procs, Idle, RunWork
  <2>2. unit = proc[p].hub
    BY <1>1, <2>1 DEF RestartUnit, Holds
  <2> QED BY <1>1, <2>2, ServiceMoves DEF StopUnit, RestartUnit
<1>2. CASE StopUnit(p)
  BY <1>2, ServiceMoves DEF StopUnit, RestartUnit
<1> QED BY <1>1, <1>2, StepMoves

(* A command appears in an idle terminal.                                  *)
LEMMA CommandMoves ==
  ASSUME Shapes, NEW p \in Shells, NEW h \in Hubs, NEW cmd, NEW at, Types(p, cmd, h, at),
         [at |-> at, cmd |-> cmd, hub |-> h] \in Work
  PROVE  /\ proc' \in [Procs -> Work] /\ proc'[Svc] \in {Idle} \union RunWork
         /\ proc'[p] = [at |-> at, cmd |-> cmd, hub |-> h]
         /\ \A q \in Procs : q # p => proc'[q] = proc[q]
         /\ proc[p] = Idle
<1>1. proc' = [proc EXCEPT ![p] = [at |-> at, cmd |-> cmd, hub |-> h]]
  BY DEF Types
<1>2. p \in Procs /\ Svc \in Procs /\ p # Svc /\ proc \in [Procs -> Work]
  BY ManagedAssumption DEF Procs, Shapes
<1>3. proc[p] = Idle
  BY <1>2, WorkShapes DEF Types
<1> QED BY <1>1, <1>2, <1>3 DEF Shapes

(* What each command is when it starts.                                    *)
LEMMA CommandWork ==
  ASSUME NEW h \in Hubs
  PROVE  /\ [at |-> "enrolling", cmd |-> "enroll", hub |-> h] \in Work
         /\ [at |-> "probing", cmd |-> "install", hub |-> h] \in Work
         /\ [at |-> "asking", cmd |-> "check", hub |-> h] \in Work
         /\ [at |-> "hiding", cmd |-> "disable", hub |-> h] \in Work
         /\ [at |-> "looking", cmd |-> "run", hub |-> h] \in Work
BY DEF Work, RunWork, Installing, Checking, Disabling

LEMMA CommandKinds ==
  ASSUME Shapes, NEW p \in Shells, NEW h \in Hubs, Command(p, h)
  PROVE  \E cmd \in {"enroll", "install", "check", "disable", "run"},
            at \in {"enrolling", "probing", "asking", "hiding", "looking"} :
           /\ Types(p, cmd, h, at) /\ [at |-> at, cmd |-> cmd, hub |-> h] \in Work
           /\ at \in AtUnit => ~ UnitBusy
           /\ Connecting(at) => Starts(h)
<1>1. CASE Enroll(p, h)
  BY <1>1, CommandWork DEF Enroll, AtUnit, Connecting
<1>2. CASE Install(p, h)
  BY <1>2, CommandWork DEF Install, AtUnit, Connecting
<1>3. CASE Check(p, h)
  BY <1>3, CommandWork DEF Check, AtUnit, Connecting
<1>4. CASE Disable(p, h)
  BY <1>4, CommandWork DEF Disable, AtUnit, Connecting
<1>5. CASE RunByHand(p, h)
  BY <1>5, CommandWork DEF RunByHand, AtUnit, Connecting
<1> QED BY <1>1, <1>2, <1>3, <1>4, <1>5 DEF Command

LEMMA CommandStarts ==
  ASSUME Shapes, NEW p \in Shells, NEW h \in Hubs
  PROVE  /\ Enroll(p, h) => proc'[p] = [at |-> "enrolling", cmd |-> "enroll", hub |-> h]
         /\ Install(p, h) => proc'[p] = [at |-> "probing", cmd |-> "install", hub |-> h]
         /\ Check(p, h) => proc'[p] = [at |-> "asking", cmd |-> "check", hub |-> h]
         /\ Disable(p, h) => proc'[p] = [at |-> "hiding", cmd |-> "disable", hub |-> h]
         /\ RunByHand(p, h) => proc'[p] = [at |-> "looking", cmd |-> "run", hub |-> h]
BY DEF Shapes, Procs, Types, Enroll, Install, Check, Disable, RunByHand

(* The service manager starts the unit's process.                          *)
LEMMA LaunchMoves ==
  ASSUME Shapes, RunByService
  PROVE  /\ proc' \in [Procs -> Work] /\ proc'[Svc] \in {Idle} \union RunWork
         /\ \A q \in Procs : q # Svc => proc'[q] = proc[q]
         /\ \/ proc'[Svc] = Idle
            \/ proc'[Svc] = [at |-> "looking", cmd |-> "run", hub |-> loaded] /\ Starts(loaded)
<1>1. proc \in [Procs -> Work] /\ Svc \in Procs /\ loaded \in Hubs
  BY DEF Shapes, Procs, RunByService
<1>2. [at |-> "looking", cmd |-> "run", hub |-> loaded] \in RunWork \intersect Work
  BY <1>1 DEF RunWork, Work
<1>3. \/ proc' = [proc EXCEPT ![Svc] = Idle]
      \/ /\ proc' = [proc EXCEPT ![Svc] = [at |-> "looking", cmd |-> "run", hub |-> loaded]]
         /\ Starts(loaded)
  BY DEF RunByService
<1> QED BY <1>1, <1>2, <1>3, NextWork

-----------------------------------------------------------------------------
LEMMA NextLocks ==
  ASSUME ManagedInv, [Next]_vars PROVE Locks'
<1> USE DEF ManagedInv
<1> SUFFICES ASSUME NEW a \in Shells, NEW b \in Shells, a # b
    PROVE  /\ ~ (Locked(proc'[a].cmd) /\ Locked(proc'[b].cmd) /\ proc'[a].hub = proc'[b].hub)
           /\ ~ (proc'[a].at \in AtUnit /\ proc'[b].at \in AtUnit)
  BY DEF Locks
<1>1. a \in Procs /\ b \in Procs /\ a # Svc /\ b # Svc
  BY ManagedAssumption DEF Procs
<1>2. ~ Locked(Idle.cmd) /\ Idle.at \notin AtUnit
  BY DEF Locked, Idle, AtUnit
<1>3. \A q \in Shells : proc[q].at \in AtUnit => UnitBusy
  BY UnitBusyMeans
<1>4. ASSUME NEW p \in Procs, Moved(p)
      PROVE  /\ ~ (Locked(proc'[a].cmd) /\ Locked(proc'[b].cmd) /\ proc'[a].hub = proc'[b].hub)
             /\ ~ (proc'[a].at \in AtUnit /\ proc'[b].at \in AtUnit)
  <2>1. proc'[a] = proc[a] \/ proc'[b] = proc[b]
    BY <1>4 DEF Moved
  <2>2. \A q \in {a, b} : Locked(proc'[q].cmd) =>
          proc'[q].cmd = proc[q].cmd /\ proc'[q].hub = proc[q].hub
    BY <1>2, <1>4 DEF Moved
  <2>3. \A q \in {a, b} : proc'[q].at \in AtUnit => proc[q].at \in AtUnit \/ ~ UnitBusy
    BY <1>3, <1>4 DEF Moved
  <2> QED BY <1>3, <2>1, <2>2, <2>3 DEF Locks
<1>5. CASE \E p \in Procs : Step(p) \/ Dies(p)
  BY <1>4, <1>5, AnyStepMoves
<1>6. ASSUME NEW p \in Shells, NEW h \in Hubs, Command(p, h)
      PROVE  /\ ~ (Locked(proc'[a].cmd) /\ Locked(proc'[b].cmd) /\ proc'[a].hub = proc'[b].hub)
             /\ ~ (proc'[a].at \in AtUnit /\ proc'[b].at \in AtUnit)
  <2>1. PICK cmd, at : /\ Types(p, cmd, h, at) /\ [at |-> at, cmd |-> cmd, hub |-> h] \in Work
                       /\ at \in AtUnit => ~ UnitBusy
    BY <1>6, CommandKinds
  <2>2. /\ proc'[p] = [at |-> at, cmd |-> cmd, hub |-> h]
        /\ \A q \in Procs : q # p => proc'[q] = proc[q]
    BY <2>1, CommandMoves
  <2>3. \A q \in Shells : Locked(cmd) /\ proc[q].hub = h => ~ Locked(proc[q].cmd)
    BY <2>1 DEF Types
  <2> QED BY <1>1, <1>3, <2>1, <2>2, <2>3 DEF Locks
<1>7. CASE RunByService
  BY <1>1, <1>7, LaunchMoves DEF Locks
<1>8. CASE proc' = proc
  BY <1>8 DEF Locks
<1> QED
  BY <1>5, <1>6, <1>7, <1>8 DEF Next, Provision, Listen, StopListening, vars

LEMMA NextConnectors ==
  ASSUME ManagedInv, [Next]_vars PROVE Connectors'
<1> USE DEF ManagedInv
<1> SUFFICES ASSUME NEW a \in Procs, NEW b \in Procs, a # b,
                    Connecting(proc'[a].at), Connecting(proc'[b].at), proc'[a].hub = proc'[b].hub
    PROVE  FALSE
  BY DEF Connectors
<1>1. ~ Connecting(Idle.at)
  BY DEF Connecting, Idle
<1>2. CASE \E p \in Procs : Step(p) \/ Dies(p)
  BY <1>2, AnyStepMoves DEF Moved, Connectors
<1>3. ASSUME NEW p \in Shells, NEW h \in Hubs, Command(p, h) PROVE FALSE
  <2>1. PICK cmd, at : /\ Types(p, cmd, h, at) /\ [at |-> at, cmd |-> cmd, hub |-> h] \in Work
                       /\ Connecting(at) => Starts(h)
    BY <1>3, CommandKinds
  <2>2. /\ proc'[p] = [at |-> at, cmd |-> cmd, hub |-> h]
        /\ \A q \in Procs : q # p => proc'[q] = proc[q]
    BY <2>1, CommandMoves
  <2> QED BY <2>1, <2>2 DEF Connectors, Starts
<1>4. CASE RunByService
  BY <1>1, <1>4, LaunchMoves DEF Connectors, Starts
<1>5. CASE proc' = proc
  BY <1>5 DEF Connectors
<1> QED
  BY <1>2, <1>3, <1>4, <1>5 DEF Next, Provision, Listen, StopListening, vars

LEMMA NextShapes ==
  ASSUME ManagedInv, [Next]_vars PROVE Shapes'
<1> USE DEF ManagedInv
<1>1. \A p \in Procs : proc[p].at # "idle" => proc[p].hub \in Hubs
  BY WorkShapes DEF Shapes
<1>2. ASSUME NEW p \in Procs, Step(p) \/ Dies(p) PROVE Shapes'
  <2>1. proc' \in [Procs -> Work] /\ proc'[Svc] \in {Idle} \union RunWork
    BY <1>2, AnyStepMoves DEF Moved
  <2>2. CASE RestartUnit(p)
    <3>1. p \in Shells
      BY <2>2 DEF RestartUnit, Shapes, Procs, Idle, RunWork
    <3>2. unit \in Hubs
      BY <1>1, <2>2, <3>1 DEF RestartUnit, Holds, Procs
    <3> QED BY <2>1, <2>2, <3>2 DEF RestartUnit, Shapes, files
  <2>3. CASE Enrolled(p)
    BY <1>1, <2>1, <2>3 DEF Enrolled, AnswerLost, Asks, Shapes, files, machine
  <2>4. CASE Enable(p)
    <3>1. saved' \in [Hubs -> {"none", "off", "on"}]
      BY <1>1, <2>4 DEF Enable, AnswerLost, Shapes, files
    <3>2. remote' \in [Hubs -> {"unknown", "known", "provisioning", "active", "revoked"}]
      BY <1>1, <2>4 DEF Enable, AnswerLost, Asks, Shapes
    <3> QED BY <2>1, <2>4, <3>1, <3>2 DEF Enable, AnswerLost, Shapes, files, machine
  <2>5. CASE Revoke(p)
    <3>1. remote' \in [Hubs -> {"unknown", "known", "provisioning", "active", "revoked"}]
      BY <1>1, <2>5 DEF Revoke, AnswerLost, Asks, Shapes
    <3>2. off' \subseteq Hubs
      BY <1>1, <2>5 DEF Revoke, AnswerLost, Shapes
    <3> QED BY <2>1, <2>5, <3>1, <3>2 DEF Revoke, AnswerLost, Shapes, files, machine
  <2>6. CASE Advertise(p) \/ Hide(p) \/ StopUnit(p)
    BY <1>1, <2>1, <2>6 DEF Advertise, Hide, StopUnit, Shapes, files, machine
  <2>7. CASE Probe(p) \/ FindConnector(p) \/ WriteUnit(p) \/ AskStatus(p) \/ TestAddress(p)
             \/ RemoveUnit(p) \/ Look(p) \/ Fetch(p) \/ Dies(p)
    BY <2>1, <2>7 DEF Probe, FindConnector, WriteUnit, AskStatus, TestAddress, RemoveUnit, Look,
       Fetch, Dies, Shapes, files, machine
  <2> QED BY <1>2, <2>2, <2>3, <2>4, <2>5, <2>6, <2>7 DEF Step
<1>3. ASSUME NEW p \in Shells, NEW h \in Hubs, Command(p, h) PROVE Shapes'
  <2>1. proc' \in [Procs -> Work] /\ proc'[Svc] \in {Idle} \union RunWork
    BY <1>3, CommandKinds, CommandMoves
  <2> QED
    BY <1>3, <2>1 DEF Command, Enroll, Install, Check, Disable, RunByHand, Shapes, files, machine
<1>4. CASE RunByService
  BY <1>4, LaunchMoves DEF RunByService, Shapes, files, machine
<1>5. ASSUME NEW h \in Hubs, Provision(h) \/ Listen(h) PROVE Shapes'
  BY <1>5 DEF Provision, Listen, Shapes, files, machine
<1>6. CASE StopListening \/ vars' = vars
  BY <1>6 DEF StopListening, Shapes, files, vars
<1> QED BY <1>2, <1>3, <1>4, <1>5, <1>6 DEF Next

(* What one process relies on is not touched by the others: whoever changes *)
(* the registration or the address of its Hub holds the Hub's lock, and     *)
(* whoever changes the unit holds the unit's.                               *)
LEMMA HoldsKept ==
  ASSUME NEW q, Holds(q), proc'[q] = proc[q],
         proc[q].at \in Disabling => saved'[proc[q].hub] \in {saved[proc[q].hub], "off"},
         proc[q].at \in Disabling => url'[proc[q].hub] \in {url[proc[q].hub], FALSE},
         proc[q].at \in AtUnit => unit' = unit
  PROVE  Holds(q)'
BY DEF Holds, Owned, AtUnit, Installing, Disabling

LEMMA UnitChanges ==
  ASSUME ManagedInv, NEW p \in Procs, Step(p) \/ Dies(p), unit' # unit
  PROVE  /\ p \in Shells /\ proc[p].at \in {"writing", "removing"}
         /\ unit' \in {proc[p].hub, Nil}
         /\ proc[p].at = "removing" => unit' = Nil
         /\ Owned(proc[p].hub)
<1>1. WriteUnit(p) \/ RemoveUnit(p)
  BY DEF Step, Dies, Enrolled, AnswerLost, Probe, FindConnector, Enable, RestartUnit, AskStatus,
     TestAddress, Advertise, Hide, StopUnit, Revoke, Look, Fetch, machine
<1>2. proc[p].at \in {"writing", "removing"} /\ unit' \in {proc[p].hub, Nil}
  BY <1>1 DEF WriteUnit, RemoveUnit
<1>3. p \in Shells
  BY <1>2 DEF ManagedInv, Shapes, Procs, Idle, RunWork
<1>4. Owned(proc[p].hub)
  BY <1>2, <1>3 DEF ManagedInv, Holds, Installing
<1> QED BY <1>1, <1>2, <1>3, <1>4 DEF WriteUnit, RemoveUnit

LEMMA FileChanges ==
  ASSUME ManagedInv, NEW p \in Procs, Step(p) \/ Dies(p), NEW h \in Hubs,
         saved'[h] # saved[h] \/ url'[h] \notin {url[h], FALSE}
  PROVE  p \in Shells /\ proc[p].hub = h /\ proc[p].cmd \in {"install", "check"}
<1>1. \/ Enable(p) /\ proc[p].hub = h
      \/ Advertise(p) /\ proc[p].hub = h
  <2>1. CASE Enable(p)
    BY <2>1 DEF Enable, AnswerLost, files, ManagedInv, Shapes
  <2>2. CASE Advertise(p) \/ Hide(p)
    BY <2>2 DEF Advertise, Hide, ManagedInv, Shapes
  <2>3. CASE saved' = saved /\ url' = url
    BY <2>3
  <2> QED
    BY <2>1, <2>2, <2>3 DEF Step, Dies, Enrolled, AnswerLost, Probe, FindConnector, WriteUnit,
       RestartUnit, AskStatus, TestAddress, StopUnit, RemoveUnit, Revoke, Look, Fetch, files
<1>2. proc[p].at \in {"enabling", "passed"} /\ proc[p] \in Work
  BY <1>1 DEF Enable, Advertise, ManagedInv, Shapes
<1>3. p \in Shells
  BY <1>2 DEF ManagedInv, Shapes, Procs, Idle, RunWork
<1> QED BY <1>1, <1>2, <1>3, WorkShapes DEF Installing, Checking

LEMMA StepHolds ==
  ASSUME ManagedInv, NEW p \in Procs, Step(p) \/ Dies(p), NEW q \in Shells PROVE Holds(q)'
<1> USE DEF ManagedInv
<1>1. Moved(p)
  BY AnyStepMoves
<1>2. /\ proc[q] \in Work /\ q \in Procs
      /\ proc[q].at \in Disabling => Locked(proc[q].cmd) /\ proc[q].hub \in Hubs
  BY WorkShapes DEF Shapes, Procs, Locked, Disabling, Installing, Checking, Idle
<1>3. CASE proc'[q] = Idle
  BY <1>3 DEF Holds, Idle, Installing, Disabling
<1>4. CASE q # p
  <2>1. proc'[q] = proc[q]
    BY <1>1, <1>4 DEF Moved
  <2>2. ASSUME proc[q].at \in Disabling
        PROVE  /\ saved'[proc[q].hub] \in {saved[proc[q].hub], "off"}
               /\ url'[proc[q].hub] \in {url[proc[q].hub], FALSE}
    BY <1>2, <1>4, <2>2, FileChanges DEF Locks, Locked
  <2>3. proc[q].at \in AtUnit => unit' = unit
    BY <1>4, UnitChanges DEF Locks, AtUnit
  <2> QED BY <2>1, <2>2, <2>3, HoldsKept
<1>5. CASE q = p /\ proc'[p] # Idle
  <2>1. proc'[p].hub = proc[p].hub /\ proc'[p].cmd = proc[p].cmd /\ ~ Ends(p)
    <3>1. ~ Ends(p)
      BY <1>5, EndsMoves
    <3> QED BY <1>1, <1>5, <3>1 DEF Moved
  <2>2. \A at : Goes(p, at) => proc'[p].at = at
    BY <1>2, <1>5 DEF Goes, Shapes, Work, Idle, RunWork
  <2>3. CASE Probe(p)
    BY <1>5, <2>1, <2>2, <2>3 DEF Probe, Holds, Owned, Installing, Disabling, machine
  <2>4. CASE FindConnector(p)
    BY <1>5, <2>1, <2>2, <2>4 DEF FindConnector, Holds, Owned, Installing, Disabling, machine
  <2>5. CASE Enable(p)
    BY <1>5, <2>1, <2>2, <2>5 DEF Enable, AnswerLost, Holds, Owned, Installing, Disabling, machine
  <2>6. CASE WriteUnit(p)
    BY <1>5, <2>1, <2>2, <2>6 DEF WriteUnit, Holds, Owned, Installing, Disabling
  <2>7. CASE AskStatus(p) \/ TestAddress(p)
    BY <1>5, <2>1, <2>2, <2>7 DEF AskStatus, TestAddress, Holds, Installing, Disabling
  <2>8. CASE Hide(p)
    <3>1. proc[p].hub \in Hubs /\ url'[proc[p].hub] = FALSE /\ saved' = saved /\ unit' = unit
      BY <1>2, <1>5, <2>8 DEF Hide, Disabling, machine, Shapes
    <3>2. proc[p].at = "hiding" /\ saved[proc[p].hub] = "off"
      BY <1>5, <2>8 DEF Hide, Holds, Disabling
    <3>3. proc'[p].at = IF Owned(proc[p].hub) THEN "stopping" ELSE "revoking"
      BY <2>1, <2>2, <2>8 DEF Hide
    <3> QED BY <1>5, <2>1, <3>1, <3>2, <3>3 DEF Holds, Owned, Installing, Disabling
  <2>9. CASE StopUnit(p)
    <3>1. proc'[p].at = "removing"
      BY <1>2, <1>5, <2>2, <2>9, ManagedAssumption
         DEF StopUnit, Shapes, Work, Idle, RunWork
    <3> QED
      BY <1>5, <2>1, <2>9, <3>1 DEF StopUnit, Holds, Owned, Installing, Disabling, files
  <2>10. CASE RemoveUnit(p)
    <3>1. proc[p].hub \in Hubs /\ Nil \notin Hubs
      BY <1>2, <1>5, <2>10, ManagedAssumption DEF RemoveUnit, Disabling
    <3> QED
      BY <1>5, <2>1, <2>2, <2>10, <3>1 DEF RemoveUnit, Holds, Owned, Installing, Disabling, files
  <2>11. CASE Look(p) \/ Fetch(p)
    BY <1>5, <2>1, <2>2, <2>11 DEF Look, Fetch, Holds, Installing, Disabling
  <2>12. CASE RestartUnit(p)
    BY <1>2, <1>5, <2>12, ManagedAssumption DEF RestartUnit, Shapes
  <2> QED
    BY <2>1, <2>3, <2>4, <2>5, <2>6, <2>7, <2>8, <2>9, <2>10, <2>11, <2>12
    DEF Step, Dies, Enrolled, AnswerLost, Advertise, Revoke
<1> QED BY <1>3, <1>4, <1>5

LEMMA NextHolds ==
  ASSUME ManagedInv, [Next]_vars, NEW q \in Shells PROVE Holds(q)'
<1> USE DEF ManagedInv
<1>0. Shapes
  OBVIOUS
<1>1. CASE \E p \in Procs : Step(p) \/ Dies(p)
  BY <1>1, StepHolds
<1>2. ASSUME NEW p \in Shells, NEW h \in Hubs, Command(p, h) PROVE Holds(q)'
  <2>1. PICK cmd, at : Types(p, cmd, h, at) /\ [at |-> at, cmd |-> cmd, hub |-> h] \in Work
    BY <1>2, CommandKinds
  <2>2. /\ proc'[p] = [at |-> at, cmd |-> cmd, hub |-> h]
        /\ \A x \in Procs : x # p => proc'[x] = proc[x]
        /\ proc[p] = Idle
    BY <2>1, CommandMoves
  <2>3. url' = url /\ unit' = unit
    BY <1>2 DEF Command, Enroll, Install, Check, Disable, RunByHand, files, machine
  <2>4. \/ saved' = saved
        \/ Enroll(p, h) /\ saved' = [saved EXCEPT ![h] = IF @ = "none" THEN "off" ELSE @]
        \/ Disable(p, h) /\ saved' = [saved EXCEPT ![h] = "off"]
    BY <1>2 DEF Command, Enroll, Install, Check, Disable, RunByHand, files
  <2>5. CASE q # p
    <3>1. proc'[q] = proc[q] /\ proc[q] \in Work
      BY <2>2, <2>5 DEF Procs, Shapes
    <3>2. proc[q].at \in Disabling => proc[q].hub \in Hubs
      BY <3>1, WorkShapes DEF Disabling
    <3>3. proc[q].at \in Disabling => saved'[proc[q].hub] \in {saved[proc[q].hub], "off"}
      BY <2>4, <3>2 DEF Shapes
    <3>4. proc[q].at \in Disabling => url'[proc[q].hub] \in {url[proc[q].hub], FALSE}
      BY <2>3
    <3> QED BY <2>3, <3>1, <3>3, <3>4, HoldsKept
  <2>6. CASE q = p
    <3>1. CASE Install(p, h)
      <4>1. proc'[p].at = "probing" /\ proc'[p].hub = h
        <5>1. proc'[p] = [at |-> "probing", cmd |-> "install", hub |-> h]
          BY <1>0, <3>1, CommandStarts
        <5> QED BY <5>1
      <4> QED BY <2>3, <2>6, <3>1, <4>1 DEF Install, Holds, Owned, Installing, Disabling
    <3>2. CASE Disable(p, h)
      <4>1. proc'[p].at = "hiding" /\ proc'[p].hub = h
        <5>1. proc'[p] = [at |-> "hiding", cmd |-> "disable", hub |-> h]
          BY <1>0, <3>2, CommandStarts
        <5> QED BY <5>1
      <4>2. saved'[h] = "off"
        BY <3>2 DEF Disable, Shapes
      <4> QED BY <2>6, <4>1, <4>2 DEF Holds, Installing, Disabling
    <3>3. CASE Enroll(p, h) \/ Check(p, h) \/ RunByHand(p, h)
      <4>1. proc'[p].at \in {"enrolling", "asking", "looking"}
        <5>1. \/ proc'[p] = [at |-> "enrolling", cmd |-> "enroll", hub |-> h]
              \/ proc'[p] = [at |-> "asking", cmd |-> "check", hub |-> h]
              \/ proc'[p] = [at |-> "looking", cmd |-> "run", hub |-> h]
          BY <1>0, <3>3, CommandStarts
        <5> QED BY <5>1
      <4> QED BY <2>6, <4>1 DEF Holds, Installing, Disabling
    <3> QED BY <1>2, <3>1, <3>2, <3>3 DEF Command
  <2> QED BY <2>5, <2>6
<1>3. CASE RunByService
  <2>1. proc'[q] = proc[q]
    BY <1>3, LaunchMoves, ManagedAssumption DEF Procs
  <2> QED BY <1>3, <2>1, HoldsKept DEF RunByService, files, machine
<1>4. ASSUME proc' = proc, saved' = saved, url' = url, unit' = unit PROVE Holds(q)'
  BY <1>4, HoldsKept
<1>5. CASE (\E h \in Hubs : Provision(h) \/ Listen(h)) \/ StopListening \/ vars' = vars
  BY <1>4, <1>5 DEF Provision, Listen, StopListening, vars, files, machine
<1> QED BY <1>1, <1>2, <1>3, <1>5 DEF Next, vars

(* Nothing touches a Hub that is off but a command that takes it out.      *)
LEMMA NextOff ==
  ASSUME ManagedInv, [Next]_vars PROVE OffIsOff' /\ OffAlone'
<1> USE DEF ManagedInv
<1>0. Shapes
  OBVIOUS
<1>1. \A q \in Shells : proc[q] \in Work /\ q \in Procs
  BY DEF Shapes, Procs
<1>2. ASSUME NEW p \in Procs, Step(p) \/ Dies(p) PROVE OffIsOff' /\ OffAlone'
  <2>1. Moved(p)
    BY <1>2, AnyStepMoves
  <2>2. \/ off' = off
        \/ Revoke(p) /\ Owned(proc[p].hub) /\ off' = off \union {proc[p].hub}
              /\ Asks(p, "revoked") /\ files' = files /\ Ends(p)
    BY <1>2 DEF Step, Dies, Enrolled, AnswerLost, Probe, FindConnector, Enable, WriteUnit,
       RestartUnit, AskStatus, TestAddress, Advertise, Hide, StopUnit, RemoveUnit, Revoke, Look, Fetch
  <2>3. CASE off' = off
    <3>1. ASSUME NEW h \in off, NEW q \in Shells, proc'[q].hub = h
          PROVE  proc'[q].cmd \in {"enroll", "disable", "run"}
      <4>1. h \in Hubs /\ Nil \notin Hubs
        BY ManagedAssumption DEF Shapes
      <4>2. proc'[q] # Idle
        BY <3>1, <4>1 DEF Idle
      <4>3. proc'[q].hub = proc[q].hub /\ proc'[q].cmd = proc[q].cmd
        BY <2>1, <4>2 DEF Moved
      <4> QED BY <3>1, <4>3 DEF OffAlone
    <3>2. ASSUME NEW h \in off
          PROVE  saved'[h] = "off" /\ ~ url'[h] /\ unit' # h /\ remote'[h] = "revoked"
      <4>1. /\ h \in Hubs /\ Nil \notin Hubs
            /\ saved[h] = "off" /\ ~ url[h] /\ unit # h /\ remote[h] = "revoked"
        BY ManagedAssumption DEF Shapes, OffIsOff
      <4>2. p \in Shells /\ proc[p].hub = h => proc[p].cmd \in {"enroll", "disable", "run"}
        BY DEF OffAlone
      <4>3. saved'[h] = "off" /\ ~ url'[h]
        BY <1>2, <4>1, <4>2, FileChanges
      <4>4. unit' # h
        <5>1. CASE unit' # unit
          <6>1. p \in Shells /\ proc[p].at \in {"writing", "removing"} /\ unit' \in {proc[p].hub, Nil}
            BY <1>2, <5>1, UnitChanges
          <6>2. proc[p].at = "removing" => unit' = Nil
            BY <1>2, <5>1, UnitChanges
          <6>3. proc[p].at = "writing" => proc[p].cmd = "install"
            BY <1>1, <6>1, WorkShapes DEF Installing
          <6> QED BY <4>1, <4>2, <6>1, <6>2, <6>3
        <5> QED BY <4>1, <5>1
      <4>5. remote'[h] = "revoked"
        <5>1. CASE Enable(p)
          <6>1. p \in Shells /\ proc[p].cmd = "install"
            <7>1. proc[p].at = "enabling" /\ proc[p] \in Work
              BY <5>1 DEF Enable, Shapes
            <7>2. p \in Shells
              BY <7>1 DEF Shapes, Procs, Idle, RunWork
            <7> QED BY <7>1, <7>2, WorkShapes DEF Installing
          <6> QED BY <4>1, <4>2, <5>1, <6>1 DEF Enable, Asks, Shapes
        <5>2. CASE Enrolled(p)
          BY <4>1, <5>2 DEF Enrolled, Asks, Shapes
        <5>3. CASE Revoke(p)
          BY <4>1, <5>3 DEF Revoke, Asks, Shapes
        <5>4. CASE remote' = remote
          BY <4>1, <5>4
        <5> QED
          BY <1>2, <5>1, <5>2, <5>3, <5>4 DEF Step, Dies, Probe, FindConnector, WriteUnit,
             RestartUnit, AskStatus, TestAddress, Advertise, Hide, StopUnit, RemoveUnit, Look, Fetch
      <4> QED BY <4>3, <4>4, <4>5
    <3> QED BY <2>3, <3>1, <3>2 DEF OffIsOff, OffAlone
  <2>4. CASE /\ Revoke(p) /\ Owned(proc[p].hub) /\ off' = off \union {proc[p].hub}
             /\ Asks(p, "revoked") /\ files' = files /\ Ends(p)
    <3> DEFINE h == proc[p].hub
    <3>1. p \in Shells /\ proc[p].at = "revoking"
      BY <2>4 DEF Revoke, Shapes, Procs, Idle, RunWork
    <3>2. h \in Hubs /\ proc[p].cmd = "disable" /\ Nil \notin Hubs
      BY <1>1, <3>1, WorkShapes, ManagedAssumption DEF Disabling
    <3>3. saved[h] = "off" /\ ~ url[h] /\ unit # h
      BY <3>1 DEF Holds, Disabling
    <3>4. saved' = saved /\ url' = url /\ unit' = unit /\ remote' = [remote EXCEPT ![h] = "revoked"]
      BY <2>4 DEF Revoke, files, machine, Asks
    <3>5. OffIsOff'
      BY <2>4, <3>2, <3>3, <3>4 DEF OffIsOff, Shapes
    <3>6. ASSUME NEW x \in off', NEW q \in Shells, proc'[q].hub = x
          PROVE  proc'[q].cmd \in {"enroll", "disable", "run"}
      <4>1. x \in Hubs
        BY <2>4, <3>2 DEF Shapes
      <4>2. proc'[q] # Idle /\ q # p
        BY <2>4, <3>1, <3>2, <3>6, <4>1, EndsMoves, <1>1 DEF Idle
      <4>3. proc'[q] = proc[q]
        BY <2>1, <4>2 DEF Moved
      <4>4. CASE x \in off
        BY <3>6, <4>3, <4>4 DEF OffAlone
      <4>5. CASE x = h
        <5>1. ~ Locked(proc[q].cmd)
          BY <3>1, <3>2, <3>6, <4>2, <4>3, <4>5 DEF Locks, Locked
        <5>2. proc[q].cmd # "none"
          BY <1>1, <4>2, <4>3, WorkShapes DEF Work, Idle, RunWork
        <5>3. proc[q].cmd \in {"none", "enroll", "install", "check", "disable", "run"}
          BY <1>1 DEF Work, Idle, RunWork
        <5> QED BY <4>3, <5>1, <5>2, <5>3 DEF Locked
      <4> QED BY <2>4, <4>4, <4>5
    <3> QED BY <3>5, <3>6 DEF OffAlone
  <2> QED BY <2>2, <2>3, <2>4
<1>3. ASSUME NEW p \in Shells, NEW h \in Hubs, Command(p, h) PROVE OffIsOff' /\ OffAlone'
  <2>1. /\ off' \subseteq off /\ url' = url /\ unit' = unit /\ remote' = remote
        /\ Install(p, h) => h \notin off'
        /\ Check(p, h) => saved[h] = "on"
    BY <1>3 DEF Command, Enroll, Install, Check, Disable, RunByHand, files, machine
  <2>2. \A x \in Hubs : saved[x] = "off" => saved'[x] = "off"
    BY <1>3 DEF Command, Enroll, Install, Check, Disable, RunByHand, files, Shapes
  <2>3. OffIsOff'
    BY <2>1, <2>2 DEF OffIsOff, Shapes
  <2>4. PICK cmd, at :
          /\ Types(p, cmd, h, at) /\ [at |-> at, cmd |-> cmd, hub |-> h] \in Work
    BY <1>3, CommandKinds
  <2>5. /\ proc'[p] = [at |-> at, cmd |-> cmd, hub |-> h]
        /\ \A x \in Procs : x # p => proc'[x] = proc[x]
    BY <2>4, CommandMoves
  <2>6. h \in off' => proc'[p].cmd \in {"enroll", "disable", "run"}
    <3>1. CASE Install(p, h)
      BY <2>1, <3>1
    <3>2. CASE Check(p, h)
      BY <2>1, <3>2 DEF OffIsOff
    <3>3. CASE Enroll(p, h)
      <4>1. proc'[p] = [at |-> "enrolling", cmd |-> "enroll", hub |-> h]
        BY <1>0, <3>3, CommandStarts
      <4> QED BY <4>1
    <3>4. CASE Disable(p, h)
      <4>1. proc'[p] = [at |-> "hiding", cmd |-> "disable", hub |-> h]
        BY <1>0, <3>4, CommandStarts
      <4> QED BY <4>1
    <3>5. CASE RunByHand(p, h)
      <4>1. proc'[p] = [at |-> "looking", cmd |-> "run", hub |-> h]
        BY <1>0, <3>5, CommandStarts
      <4> QED BY <4>1
    <3> QED BY <1>3, <3>1, <3>2, <3>3, <3>4, <3>5 DEF Command
  <2>7. OffAlone'
    BY <1>1, <2>1, <2>5, <2>6 DEF OffAlone
  <2> QED BY <2>3, <2>7
<1>4. CASE RunByService
  <2>1. \A q \in Shells : proc'[q] = proc[q]
    BY <1>4, LaunchMoves, ManagedAssumption DEF Procs
  <2> QED BY <1>4, <2>1 DEF RunByService, OffIsOff, OffAlone, files, machine
<1>5. ASSUME NEW h \in Hubs, Provision(h) PROVE OffIsOff' /\ OffAlone'
  BY <1>5 DEF Provision, OffIsOff, OffAlone, files, machine, Shapes
<1>6. ASSUME proc' = proc, saved' = saved, url' = url, unit' = unit, remote' = remote, off' = off
      PROVE  OffIsOff' /\ OffAlone'
  BY <1>6 DEF OffIsOff, OffAlone
<1> QED
  BY <1>2, <1>3, <1>4, <1>5, <1>6 DEF Next, Listen, StopListening, vars, files

-----------------------------------------------------------------------------
(* The locks, and what their holders rely on, are inductive: a process that *)
(* holds the unit's lock finds the unit as it left it, and one that holds a *)
(* Hub's lock finds that Hub's registration and address as it left them.    *)
THEOREM ManagedInvariant == Spec => []ManagedInv
<1>1. ManagedInv /\ [Next]_vars => ManagedInv'
  BY NextShapes, NextLocks, NextHolds, NextOff, NextConnectors DEF ManagedInv
<1> QED BY InitManagedInv, <1>1, PTL DEF Spec

(* A disable that reported success is final until the next install.        *)
THEOREM DisableIsFinal == Spec => []OffIsOff
<1>1. ManagedInv => OffIsOff
  BY DEF ManagedInv
<1> QED BY ManagedInvariant, <1>1, PTL

(* One connector runs for a Hub, started by hand or by the service manager. *)
THEOREM ConnectorRunsOnce == Spec => []OneConnector
<1>1. ManagedInv => OneConnector
  BY DEF ManagedInv, Connectors, Connecting, OneConnector
<1> QED BY ManagedInvariant, <1>1, PTL

(* A Hub's unit is replaced by no other Hub, and removed only by its own    *)
(* disable.                                                                 *)
THEOREM UnitIsItsOwners == Spec => UnitKeepsOwner
<1> DEFINE Kept == unit # Nil /\ unit' # unit =>
      /\ unit' = Nil
      /\ \E p \in Shells : proc[p].hub = unit /\ proc[p].at = "removing"
<1>1. ManagedInv /\ [Next]_vars => [Kept]_vars
  <2> SUFFICES ASSUME ManagedInv, Next, unit # Nil, unit' # unit PROVE Kept
    BY DEF vars
  <2>1. PICK p \in Procs : Step(p) \/ Dies(p)
    <3>1. \A p \in Shells, h \in Hubs : ~ Command(p, h)
      BY DEF Command, Enroll, Install, Check, Disable, RunByHand, machine
    <3>2. ~ RunByService /\ ~ StopListening
      BY DEF RunByService, StopListening, machine
    <3>3. \A h \in Hubs : ~ Provision(h) /\ ~ Listen(h)
      BY DEF Provision, Listen, machine
    <3> QED BY <3>1, <3>2, <3>3 DEF Next
  <2>2. /\ p \in Shells /\ proc[p].at \in {"writing", "removing"}
        /\ unit' \in {proc[p].hub, Nil}
        /\ Owned(proc[p].hub)
    BY <2>1, UnitChanges
  <2>3. proc[p].hub = unit
    BY <2>2 DEF Owned
  <2>4. proc[p].at = "removing"
    <3>1. CASE proc[p].at = "writing"
      <4>1. WriteUnit(p) \/ RemoveUnit(p)
        BY <2>1 DEF Step, Dies, Enrolled, AnswerLost, Probe, FindConnector, Enable, RestartUnit,
           AskStatus, TestAddress, Advertise, Hide, StopUnit, Revoke, Look, Fetch, machine
      <4> QED BY <2>3, <3>1, <4>1 DEF WriteUnit, RemoveUnit
    <3> QED BY <2>2, <3>1
  <2> QED BY <2>2, <2>3, <2>4
<1> QED BY ManagedInvariant, <1>1, PTL DEF Spec, UnitKeepsOwner

-----------------------------------------------------------------------------
(* The encrypted channel: queues.                                          *)

(* A queue without its i-th entry, and with one more.                      *)
LEMMA RemoveFacts ==
  ASSUME NEW S, NEW q \in Seq(S), NEW i \in 1..Len(q)
  PROVE  /\ RemoveAt(q, i) \in Seq(S) /\ Len(RemoveAt(q, i)) = Len(q) - 1
         /\ \A x \in 1..i - 1 : RemoveAt(q, i)[x] = q[x]
         /\ \A x \in i..Len(q) - 1 : RemoveAt(q, i)[x] = q[x + 1]
<1> DEFINE a == SubSeq(q, 1, i - 1)
           b == SubSeq(q, i + 1, Len(q))
<1>1. a \in Seq(S) /\ Len(a) = i - 1 /\ \A x \in 1..i - 1 : a[x] = q[x]
  OBVIOUS
<1>2. b \in Seq(S) /\ Len(b) = Len(q) - i /\ \A x \in 1..Len(q) - i : b[x] = q[i + x]
  OBVIOUS
<1>3. RemoveAt(q, i) = a \o b
  BY DEF RemoveAt
<1> HIDE DEF a, b
<1>4. /\ a \o b \in Seq(S) /\ Len(a \o b) = Len(a) + Len(b)
      /\ \A x \in 1..Len(a) + Len(b) : (a \o b)[x] = IF x <= Len(a) THEN a[x] ELSE b[x - Len(a)]
  BY <1>1, <1>2, ConcatProperties
<1>5. Len(q) \in Nat /\ Len(a) + Len(b) = Len(q) - 1
  BY <1>1, <1>2
<1>6. ASSUME NEW x \in 1..i - 1 PROVE (a \o b)[x] = q[x]
  <2>1. x \in 1..Len(a) + Len(b) /\ x <= Len(a)
    BY <1>1, <1>2
  <2> QED BY <1>1, <1>4, <2>1
<1>7. ASSUME NEW x \in i..Len(q) - 1 PROVE (a \o b)[x] = q[x + 1]
  <2>1. x \in 1..Len(a) + Len(b) /\ ~(x <= Len(a)) /\ x - Len(a) \in 1..Len(q) - i /\ i + (x - Len(a)) = x + 1
    BY <1>1, <1>2
  <2> QED BY <1>2, <1>4, <2>1
<1> QED BY <1>3, <1>4, <1>5, <1>6, <1>7

(* What putting one message into a queue does to it.                       *)
Inserted(S, q, i, e) ==
    /\ InsertAt(q, i, e) \in Seq(S) /\ Len(InsertAt(q, i, e)) = Len(q) + 1
    /\ \A x \in 1..Len(q) + 1 :
         InsertAt(q, i, e)[x] = e \/ \E y \in 1..Len(q) : InsertAt(q, i, e)[x] = q[y]

LEMMA InsertFacts ==
  ASSUME NEW S, NEW q \in Seq(S), NEW e \in S, NEW i \in 1..Len(q) + 1
  PROVE  Inserted(S, q, i, e)
<1> DEFINE a == SubSeq(q, 1, i - 1)
           b == SubSeq(q, i, Len(q))
<1>1. a \in Seq(S) /\ Len(a) = i - 1 /\ \A x \in 1..i - 1 : a[x] = q[x]
  OBVIOUS
<1>2. b \in Seq(S) /\ Len(b) = Len(q) - i + 1 /\ \A x \in 1..Len(q) - i + 1 : b[x] = q[i + x - 1]
  OBVIOUS
<1>3. InsertAt(q, i, e) = a \o <<e>> \o b
  BY DEF InsertAt
<1> HIDE DEF a, b
<1>4. PICK c : c = a \o <<e>>
  OBVIOUS
<1>5. c \in Seq(S) /\ Len(c) = i /\ c[i] = e /\ \A x \in 1..i - 1 : c[x] = a[x]
  BY <1>1, <1>4
<1>6. c \o b \in Seq(S) /\ Len(c \o b) = Len(q) + 1
  <2>1. c \o b \in Seq(S) /\ Len(c \o b) = Len(c) + Len(b)
    BY <1>2, <1>5, ConcatProperties
  <2>2. Len(q) \in Nat /\ Len(c) + Len(b) = Len(q) + 1
    BY <1>2, <1>5
  <2> QED BY <2>1, <2>2
<1>7. /\ \A x \in 1..i : (c \o b)[x] = c[x]
      /\ \A x \in i + 1..Len(q) + 1 : (c \o b)[x] = b[x - i]
  <2>1. \A x \in 1..Len(c) + Len(b) : (c \o b)[x] = IF x <= Len(c) THEN c[x] ELSE b[x - Len(c)]
    BY <1>2, <1>5, ConcatProperties
  <2>2. Len(q) \in Nat /\ Len(c) + Len(b) = Len(q) + 1
    BY <1>2, <1>5
  <2>3. \A x \in 1..i : x \in 1..Len(q) + 1 /\ x <= i
    BY <2>2
  <2>4. \A x \in i + 1..Len(q) + 1 : x \in 1..Len(q) + 1 /\ ~(x <= i)
    BY <2>2
  <2> QED BY <1>5, <2>1, <2>2, <2>3, <2>4
<1>8. \A x \in 1..Len(q) + 1 : x \in 1..i - 1 \/ x = i \/ x \in i + 1..Len(q) + 1
  OBVIOUS
<1>9. \A x \in i + 1..Len(q) + 1 : x - i \in 1..Len(q) - i + 1 /\ i + (x - i) - 1 = x - 1 /\ x - 1 \in 1..Len(q)
  OBVIOUS
<1>10. \A x \in 1..i - 1 : x \in 1..i /\ x \in 1..Len(q)
  OBVIOUS
<1>11. \A x \in i + 1..Len(q) + 1 : (c \o b)[x] = q[x - 1] /\ x - 1 \in 1..Len(q)
  BY <1>2, <1>7, <1>9
<1>12. \A x \in 1..i - 1 : (c \o b)[x] = q[x] /\ x \in 1..Len(q)
  BY <1>1, <1>5, <1>7, <1>10
<1>13. (c \o b)[i] = e
  BY <1>5, <1>7
<1> QED BY <1>3, <1>4, <1>6, <1>8, <1>11, <1>12, <1>13 DEF Inserted

-----------------------------------------------------------------------------
Bulks == [message : Request, next : 2..Fragments]
Records == [message : Request, part : 1..Fragments]

Typed ==
  /\ link \in {"up", "down"}
  /\ js \in [Sockets -> {"new", "opening", "open", "closed"}]
  /\ entry \subseteq Sockets
  /\ chan \in [Sockets -> Seq(Response)]
  /\ \A s \in Sockets : Len(chan[s]) <= SocketCap
  /\ pending \subseteq Requests
  /\ sent \in [Sockets -> Frames] /\ got \in [Sockets -> Frames]
  /\ queue \in Seq(Request) /\ Len(queue) <= QueueCap
  /\ bulk \in {NoBulk} \union Bulks
  /\ streak \in 0..UrgentStreak
  /\ wire \in Seq(Records) /\ Len(wire) <= 1
  /\ assemblies \subseteq Bulks
  /\ sockets \subseteq Sockets
  /\ inbox \in [Sockets -> Seq(Frames)]
  /\ \A s \in Sockets : Len(inbox[s]) <= SocketCap
  /\ pump \in [Sockets -> {"none", "connecting", "open", "sending", "closing"}]
  /\ task \in [Requests -> {"none", "running", "answering"}]
  /\ down \in Seq(Response) /\ Len(down) <= DownCap

LEMMA TypedIsTypes == Typed <=> ChannelTypeOK
BY DEF Typed, ChannelTypeOK, Bulks, Records

LEMMA Caps ==
  /\ Fragments \in Nat \ {0} /\ Window \in Nat \ {0} /\ QueueCap \in Nat \ {0} /\ DownCap \in Nat \ {0}
  /\ SocketCap \in Nat \ {0} /\ MaxAssemblies \in Nat \ {0} /\ Modulus \in Nat \ {0} /\ UrgentStreak \in Nat
  /\ NoBulk \notin Bulks /\ \A s \in Sockets : s \notin Requests
BY ChannelAssumption DEF Bulks

LEMMA FramesAfter == 0 \in Frames /\ \A n \in Frames : After(n) \in Frames
<1>1. Modulus \in Nat \ {0}
  BY Caps
<1> QED BY <1>1 DEF Frames, After

LEMMA RequestShapes ==
  ASSUME NEW m \in Request
  PROVE  /\ m.size \in 1..Fragments /\ m.kind \in {"open", "text", "close", "http"}
         /\ m.kind = "http" => m.key \in Requests
         /\ m.kind # "http" => m.key \in Sockets /\ m.n \in Frames
BY DEF Request

LEMMA RequestMakes ==
  /\ \A kind \in {"open", "text", "close"}, s \in Sockets, n \in Frames, size \in 1..Fragments :
       [kind |-> kind, key |-> s, n |-> n, size |-> size] \in Request
  /\ \A r \in Requests, size \in 1..Fragments : [kind |-> "http", key |-> r, n |-> 0, size |-> size] \in Request
BY DEF Request

LEMMA ResponseMakes ==
  /\ \A kind \in {"opened", "text", "closed", "error"}, s \in Sockets : [kind |-> kind, key |-> s] \in Response
  /\ \A kind \in {"http", "error"}, r \in Requests : [kind |-> kind, key |-> r] \in Response
BY DEF Response

LEMMA ResponseKeys == ASSUME NEW m \in Response PROVE m.key \in Sockets \union Requests
BY DEF Response

(* A message more in the app's queue.                                      *)
LEMMA SendFacts ==
  ASSUME Typed, NEW kind, NEW k, NEW n, NEW size, Send(kind, k, n, size),
         [kind |-> kind, key |-> k, n |-> n, size |-> size] \in Request
  PROVE  /\ link = "up" /\ Len(queue) \in Nat
         /\ queue' \in Seq(Request) /\ Len(queue') <= QueueCap /\ Len(queue') = Len(queue) + 1
         /\ \A i \in 1..Len(queue) : queue'[i] = queue[i]
         /\ queue'[Len(queue) + 1] = [kind |-> kind, key |-> k, n |-> n, size |-> size]
<1>1. PICK m \in Request : m = [kind |-> kind, key |-> k, n |-> n, size |-> size]
  OBVIOUS
<1>2. /\ link = "up" /\ Len(queue) < QueueCap /\ queue' = Append(queue, m)
      /\ queue \in Seq(Request) /\ QueueCap \in Nat
  BY <1>1, Caps DEF Send, Typed
<1>3. /\ Append(queue, m) \in Seq(Request) /\ Len(queue) \in Nat /\ Len(Append(queue, m)) = Len(queue) + 1
      /\ \A i \in 1..Len(queue) : Append(queue, m)[i] = queue[i]
      /\ Append(queue, m)[Len(queue) + 1] = m
  BY <1>2
<1> QED BY <1>1, <1>2, <1>3

(* A message more on the way down: those of the other keys are as before.  *)
LEMMA AnswerFacts ==
  ASSUME Typed, NEW kind, NEW k, [kind |-> kind, key |-> k] \in Response, Answer(kind, k)
  PROVE  /\ down' \in Seq(Response) /\ Len(down) \in Nat /\ Len(down') = Len(down) + 1
         /\ \A x \in 1..Len(down') : down'[x].key = k \/ \E y \in 1..Len(down) : down'[x] = down[y]
<1>1. PICK m \in Response : m = [kind |-> kind, key |-> k]
  OBVIOUS
<1>2. PICK i \in 1..Len(down) + 1 : down' = InsertAt(down, i, m)
  BY <1>1 DEF Answer
<1>3. down \in Seq(Response)
  BY DEF Typed
<1>4. /\ InsertAt(down, i, m) \in Seq(Response) /\ Len(InsertAt(down, i, m)) = Len(down) + 1
      /\ \A x \in 1..Len(down) + 1 :
           InsertAt(down, i, m)[x] = m \/ \E y \in 1..Len(down) : InsertAt(down, i, m)[x] = down[y]
  <2>1. down \in Seq(Response) /\ m \in Response /\ i \in 1..Len(down) + 1
    BY <1>3
  <2>2. Inserted(Response, down, i, m)
    BY ONLY <2>1, InsertFacts
  <2> QED BY ONLY <2>2 DEF Inserted
<1>5. m.key = k
  BY <1>1
<1> QED BY <1>2, <1>3, <1>4, <1>5

LEMMA TryErrorFacts ==
  ASSUME Typed, NEW k \in Sockets \union Requests, TryError(k)
  PROVE  /\ down' \in Seq(Response) /\ Len(down') <= DownCap
         /\ \A x \in 1..Len(down') : down'[x].key = k \/ \E y \in 1..Len(down) : down'[x] = down[y]
<1>1. CASE Len(down) < DownCap /\ Answer("error", k)
  <2>1. [kind |-> "error", key |-> k] \in Response
    BY ResponseMakes
  <2>2. /\ down' \in Seq(Response) /\ Len(down) \in Nat /\ Len(down') = Len(down) + 1
        /\ \A x \in 1..Len(down') : down'[x].key = k \/ \E y \in 1..Len(down) : down'[x] = down[y]
    BY <1>1, <2>1, AnswerFacts
  <2> QED BY <1>1, <2>2, Caps
<1>2. CASE down' = down
  BY <1>2 DEF Typed
<1> QED BY <1>1, <1>2 DEF TryError

LEMMA InitTyped == ChannelInit => Typed
<1> SUFFICES ASSUME ChannelInit PROVE Typed
  OBVIOUS
<1>1. /\ chan = [s \in Sockets |-> <<>>] /\ inbox = chan /\ queue = <<>> /\ wire = <<>> /\ down = <<>>
      /\ sent = [s \in Sockets |-> 0] /\ got = sent /\ streak = 0
  BY DEF ChannelInit
<1>2. queue \in Seq(Request) /\ wire \in Seq(Records) /\ down \in Seq(Response)
  BY <1>1
<1>3. chan \in [Sockets -> Seq(Response)] /\ inbox \in [Sockets -> Seq(Frames)]
  BY <1>1
<1>4. /\ \A s \in Sockets : Len(chan[s]) = 0 /\ Len(inbox[s]) = 0
      /\ Len(queue) = 0 /\ Len(wire) = 0 /\ Len(down) = 0
  BY <1>1
<1>5. sent \in [Sockets -> Frames] /\ got \in [Sockets -> Frames] /\ streak \in 0..UrgentStreak
  BY <1>1, FramesAfter, Caps
<1>6. 0 <= SocketCap /\ 0 <= QueueCap /\ 0 <= DownCap /\ 0 <= 1
  BY Caps
<1> QED BY <1>2, <1>3, <1>4, <1>5, <1>6 DEF ChannelInit, Typed

LEMMA AppTyped ==
  ASSUME Typed, NEW s \in Sockets, Open(s) \/ Write(s) \/ Close(s) \/ CloseSocket(s) \/ Show(s) \/ End(s)
  PROVE  Typed'
<1>1. CASE Open(s)
  <2>1. Send("open", s, 0, 1) /\ [kind |-> "open", key |-> s, n |-> 0, size |-> 1] \in Request
    <3>1. 1 \in 1..Fragments
      BY Caps
    <3> QED BY <1>1, <3>1, FramesAfter, RequestMakes DEF Open
  <2>2. queue' \in Seq(Request) /\ Len(queue') <= QueueCap
    BY <2>1, SendFacts
  <2> QED BY <1>1, <2>2 DEF Open, Typed, hub
<1>2. CASE Write(s)
  <2>1. PICK size \in 1..Fragments : Send("text", s, sent'[s], size)
    BY <1>2 DEF Write
  <2>2. sent' \in [Sockets -> Frames] /\ sent'[s] \in Frames
    BY <1>2, FramesAfter DEF Write, Typed
  <2>3. PICK n \in Frames : n = sent'[s]
    BY <2>2
  <2>4. Send("text", s, n, size) /\ [kind |-> "text", key |-> s, n |-> n, size |-> size] \in Request
    BY <2>1, <2>3, RequestMakes
  <2>5. queue' \in Seq(Request) /\ Len(queue') <= QueueCap
    BY <2>4, SendFacts
  <2> QED BY <1>2, <2>2, <2>5 DEF Write, Typed, hub
<1>3. CASE Close(s)
  BY <1>3 DEF Close, Typed, hub, up
<1>4. CASE CloseSocket(s)
  <2>1. Send("close", s, 0, 1) /\ [kind |-> "close", key |-> s, n |-> 0, size |-> 1] \in Request
    <3>1. 1 \in 1..Fragments
      BY Caps
    <3> QED BY <1>4, <3>1, FramesAfter, RequestMakes DEF CloseSocket
  <2>2. queue' \in Seq(Request) /\ Len(queue') <= QueueCap
    BY <2>1, SendFacts
  <2> QED BY <1>4, <2>2 DEF CloseSocket, Typed, hub
<1>5. CASE Show(s)
  <2>1. /\ chan[s] \in Seq(Response) /\ chan[s] # <<>> /\ chan' = [chan EXCEPT ![s] = Tail(chan[s])]
        /\ Len(chan[s]) <= SocketCap
    BY <1>5 DEF Show, Typed
  <2>2. Tail(chan[s]) \in Seq(Response) /\ Len(Tail(chan[s])) <= SocketCap
    BY <2>1, Caps
  <2>3. chan' \in [Sockets -> Seq(Response)] /\ \A t \in Sockets : Len(chan'[t]) <= SocketCap
    BY <2>1, <2>2 DEF Typed
  <2>4. js' \in [Sockets -> {"new", "opening", "open", "closed"}]
    BY <1>5 DEF Show, Typed
  <2> QED BY <1>5, <2>3, <2>4 DEF Show, Typed, hub, up
<1>6. CASE End(s)
  BY <1>6 DEF End, Typed, hub, up
<1> QED BY <1>1, <1>2, <1>3, <1>4, <1>5, <1>6

LEMMA RequestTyped ==
  ASSUME Typed, NEW r \in Requests, Ask(r) \/ Finish(r) \/ Reply(r)
  PROVE  Typed'
<1>1. CASE Ask(r)
  <2>1. PICK size \in 1..Fragments : Send("http", r, 0, size)
    BY <1>1 DEF Ask
  <2>2. [kind |-> "http", key |-> r, n |-> 0, size |-> size] \in Request
    BY RequestMakes
  <2>3. queue' \in Seq(Request) /\ Len(queue') <= QueueCap
    BY <2>1, <2>2, SendFacts
  <2> QED BY <1>1, <2>3 DEF Ask, Typed, hub
<1>2. CASE Finish(r)
  BY <1>2 DEF Finish, Typed, app, up
<1>3. CASE Reply(r)
  <2>1. Answer("http", r) /\ [kind |-> "http", key |-> r] \in Response /\ Len(down) < DownCap
    BY <1>3, ResponseMakes DEF Reply, Room
  <2>2. down' \in Seq(Response) /\ Len(down) \in Nat /\ Len(down') = Len(down) + 1
    BY <2>1, AnswerFacts
  <2>3. Len(down') <= DownCap
    BY <2>1, <2>2, Caps
  <2> QED BY <1>3, <2>2, <2>3 DEF Reply, Typed, app, up
<1> QED BY <1>1, <1>2, <1>3

LEMMA HubTyped ==
  ASSUME Typed, NEW s \in Sockets, Connect(s) \/ HandOn(s) \/ Produce(s) \/ SendOut(s) \/ Stop(s) \/ Closed(s)
  PROVE  Typed'
<1>1. ASSUME NEW kind \in {"opened", "text", "closed"}, Answer(kind, s), Room
      PROVE  down' \in Seq(Response) /\ Len(down') <= DownCap
  <2>1. [kind |-> kind, key |-> s] \in Response /\ Len(down) < DownCap
    BY <1>1, ResponseMakes DEF Room
  <2>2. down' \in Seq(Response) /\ Len(down) \in Nat /\ Len(down') = Len(down) + 1
    BY <1>1, <2>1, AnswerFacts
  <2> QED BY <2>1, <2>2, Caps
<1>2. CASE Connect(s)
  <2>1. down' \in Seq(Response) /\ Len(down') <= DownCap
    BY <1>1, <1>2, TryErrorFacts DEF Connect
  <2> QED BY <1>2, <2>1 DEF Connect, Typed, Turn, app, up
<1>3. CASE HandOn(s)
  <2>1. inbox[s] \in Seq(Frames) /\ inbox[s] # <<>> /\ inbox' = [inbox EXCEPT ![s] = Tail(inbox[s])] /\ Len(inbox[s]) <= SocketCap
        /\ got' = [got EXCEPT ![s] = Head(inbox[s])]
    BY <1>3 DEF HandOn, Typed
  <2>2. Tail(inbox[s]) \in Seq(Frames) /\ Len(Tail(inbox[s])) <= SocketCap /\ Head(inbox[s]) \in Frames
    BY <2>1, Caps
  <2>3. inbox' \in [Sockets -> Seq(Frames)] /\ (\A t \in Sockets : Len(inbox'[t]) <= SocketCap) /\ got' \in [Sockets -> Frames]
    BY <2>1, <2>2 DEF Typed
  <2> QED BY <1>3, <2>3 DEF HandOn, Typed, app, up
<1>4. CASE Produce(s)
  BY <1>4 DEF Produce, Typed, Turn, app, up
<1>5. CASE SendOut(s)
  <2>1. down' \in Seq(Response) /\ Len(down') <= DownCap
    BY <1>1, <1>5 DEF SendOut
  <2> QED BY <1>5, <2>1 DEF SendOut, Typed, Turn, app, up
<1>6. CASE Stop(s)
  BY <1>6 DEF Stop, Typed, Turn, app, up
<1>7. CASE Closed(s)
  <2>1. down' \in Seq(Response) /\ Len(down') <= DownCap
    BY <1>1, <1>7 DEF Closed
  <2> QED BY <1>7, <2>1 DEF Closed, Typed, Turn, app, up
<1> QED BY <1>2, <1>3, <1>4, <1>5, <1>6, <1>7

LEMMA DispatchTyped == ASSUME Typed, Dispatch PROVE Typed'
<1>1. PICK m : m = Head(down)
  OBVIOUS
<1>2. /\ down \in Seq(Response) /\ down # <<>> /\ Len(down) <= DownCap /\ down' = Tail(down)
  BY DEF Typed, Dispatch
<1>3. m \in Response /\ Tail(down) \in Seq(Response) /\ Len(Tail(down)) <= DownCap
  BY <1>1, <1>2, Caps
<1>4. CASE m.key \in Requests
  BY <1>1, <1>2, <1>3, <1>4 DEF Dispatch, Typed, up, hub
<1>5. CASE m.key \notin Requests /\ m.key \in entry
  <2>1. /\ m.key \in Sockets /\ chan[m.key] \in Seq(Response) /\ Len(chan[m.key]) < SocketCap
        /\ chan' = [chan EXCEPT ![m.key] = Append(chan[m.key], m)] /\ pending' = pending
        /\ entry' = IF m.kind \in {"closed", "error"} THEN entry \ {m.key} ELSE entry
    BY <1>1, <1>5 DEF Dispatch, Typed
  <2>2. Append(chan[m.key], m) \in Seq(Response) /\ Len(Append(chan[m.key], m)) <= SocketCap
    BY <1>3, <2>1, Caps
  <2>3. chan' \in [Sockets -> Seq(Response)] /\ \A t \in Sockets : Len(chan'[t]) <= SocketCap
    BY <2>1, <2>2 DEF Typed
  <2>4. entry' \subseteq Sockets
    BY <2>1 DEF Typed
  <2> QED BY <1>2, <1>3, <2>1, <2>3, <2>4 DEF Dispatch, Typed, up, hub
<1>6. CASE m.key \notin Requests /\ m.key \notin entry
  BY <1>1, <1>2, <1>3, <1>6 DEF Dispatch, Typed, up, hub
<1> QED BY <1>4, <1>5, <1>6

LEMMA FailTyped == ASSUME Typed, Fail PROVE Typed'
<1>1. /\ queue' = <<>> /\ bulk' = NoBulk /\ streak' = 0 /\ wire' = <<>> /\ assemblies' = {}
      /\ sockets' = {} /\ inbox' = [s \in Sockets |-> <<>>] /\ down' = <<>> /\ pending' = {} /\ entry' = {} /\ link' = "down"
      /\ pump' = [s \in Sockets |-> "none"] /\ task' = [r \in Requests |-> "none"]
      /\ UNCHANGED <<js, chan, sent, got>>
  BY DEF Fail, Drained
<1>2. /\ queue' \in Seq(Request) /\ wire' \in Seq(Records) /\ down' \in Seq(Response) /\ inbox' \in [Sockets -> Seq(Frames)]
      /\ Len(queue') = 0 /\ Len(wire') = 0 /\ Len(down') = 0 /\ \A s \in Sockets : Len(inbox'[s]) = 0
  BY <1>1
<1>3. 0 <= SocketCap /\ 0 <= QueueCap /\ 0 <= DownCap /\ 0 <= 1 /\ 0 \in 0..UrgentStreak
  BY Caps
<1> QED BY <1>1, <1>2, <1>3 DEF Typed

-----------------------------------------------------------------------------
(* The writer.                                                             *)

(* The record under way is of the long message, which goes on after it, or *)
(* of a short one with another key; or it is a last one.                   *)
Flying ==
  /\ bulk # NoBulk => bulk.next <= bulk.message.size
  /\ wire # <<>> =>
       /\ wire[1].part <= wire[1].message.size
       /\ wire[1].part < wire[1].message.size =>
            bulk # NoBulk /\ bulk.message = wire[1].message /\ bulk.next = wire[1].part + 1
       /\ wire[1].part = wire[1].message.size =>
            bulk = NoBulk \/ (wire[1].part = 1 /\ bulk.message.key # wire[1].message.key)

(* The messages that have left the queue and have not been served.         *)
Aboard(m) == (bulk # NoBulk /\ m = bulk.message) \/ (wire # <<>> /\ m = wire[1].message)
InAir == {m \in Request : Aboard(m)}

Without(q, r, i) ==
  /\ Len(r) = Len(q) - 1
  /\ \A x \in 1..i - 1 : r[x] = q[x]
  /\ \A x \in i..Len(q) - 1 : r[x] = q[x + 1]

LEMMA Smallest ==
  ASSUME NEW S \in SUBSET Nat, S # {}
  PROVE  \E i \in S : \A j \in S : i <= j
<1> DEFINE Less == {p \in Nat \X Nat : p[1] < p[2]}
<1>1. OpToRel(<, Nat) = Less
  BY Zenon DEF OpToRel
<1>2. IsWellFoundedOn(Less, Nat)
  BY <1>1, NatLessThanWellFounded
<1>3. PICK x \in S : \A y \in S : ~ (<<y, x>> \in Less)
  <2> HIDE DEF Less
  <2> QED BY <1>2, WFMin
<1>4. ASSUME NEW y \in S, y < x PROVE FALSE
  <2>1. y \in Nat /\ x \in Nat
    OBVIOUS
  <2>2. <<y, x>> \in Less
    BY <1>4, <2>1
  <2> QED BY <1>3, <2>2
<1>5. \A y \in S : x <= y
  <2>1. \A y \in S : y \in Nat /\ x \in Nat /\ ~(y < x)
    BY <1>4
  <2> QED BY <2>1
<1> QED BY <1>5

LEMMA RecordFacts ==
  ASSUME Typed
  PROVE  /\ bulk # NoBulk => bulk \in Bulks /\ bulk.message \in Request /\ bulk.next \in 2..Fragments
                           /\ bulk = [message |-> bulk.message, next |-> bulk.next]
         /\ wire # <<>> => wire[1] = Head(wire) /\ wire[1] \in Records /\ wire[1].message \in Request
                           /\ wire[1].part \in 1..Fragments
<1>1. bulk \in {NoBulk} \union Bulks /\ wire \in Seq(Records)
  BY DEF Typed
<1>2. wire # <<>> => wire[1] = Head(wire) /\ wire[1] \in Records
  BY <1>1
<1> QED BY <1>1, <1>2 DEF Bulks, Records

LEMMA PutFacts ==
  ASSUME Typed, NEW m \in Request, NEW part \in 1..m.size, Put(m, part)
  PROVE  /\ wire = <<>> /\ wire' \in Seq(Records) /\ Len(wire') = 1 /\ wire' # <<>>
         /\ wire'[1].message = m /\ wire'[1].part = part
         /\ part < m.size => bulk' \in Bulks /\ bulk' # NoBulk /\ bulk'.message = m /\ bulk'.next = part + 1
         /\ part = m.size /\ part > 1 => bulk' = NoBulk
         /\ part = 1 /\ m.size = 1 => bulk' = bulk
         /\ bulk' \in {NoBulk} \union Bulks
<1>1. m.size \in 1..Fragments /\ Fragments \in Nat /\ NoBulk \notin Bulks /\ bulk \in {NoBulk} \union Bulks
  BY RequestShapes, Caps DEF Typed
<1>2. PICK f : f = [message |-> m, part |-> part]
  OBVIOUS
<1>3. f \in Records /\ f.message = m /\ f.part = part
  BY <1>1, <1>2 DEF Records
<1>4. wire = <<>> /\ wire' = <<f>>
  BY <1>2 DEF Put
<1>5. wire' \in Seq(Records) /\ Len(wire') = 1 /\ wire' # <<>> /\ wire'[1] = f
  BY <1>3, <1>4
<1>6. bulk' = IF part < m.size THEN [message |-> m, next |-> part + 1] ELSE IF part > 1 THEN NoBulk ELSE bulk
  BY DEF Put
<1>7. part < m.size => [message |-> m, next |-> part + 1] \in Bulks
  BY <1>1 DEF Bulks
<1> QED BY <1>1, <1>3, <1>4, <1>5, <1>6, <1>7

LEMMA WriterMoves ==
  ASSUME Typed, Flying, WriterStep
  PROVE  /\ Typed' /\ Flying' /\ link = "up"
         /\ \/ queue' = queue /\ InAir' = InAir
            \/ \E i \in 1..Len(queue) :
                 /\ Without(queue, queue', i) /\ FirstOfKey(queue, i) /\ InAir' = InAir \union {queue[i]}
                 /\ \A m \in InAir : m.key # queue[i].key
<1>1. /\ link = "up" /\ UNCHANGED <<link, app, assemblies, hub, down>>
      /\ queue \in Seq(Request) /\ Len(queue) \in Nat /\ Len(queue) <= QueueCap /\ streak \in 0..UrgentStreak
      /\ QueueCap \in Nat /\ UrgentStreak \in Nat
  BY Caps DEF WriterStep, Typed
<1>2. ASSUME NEW q, q \in Seq(Request), Len(q) <= QueueCap, queue' = q,
             wire' \in Seq(Records), Len(wire') = 1, bulk' \in {NoBulk} \union Bulks, streak' \in 0..UrgentStreak
      PROVE  Typed'
  BY <1>1, <1>2 DEF Typed, app, hub
<1>3. CASE WriteSmall
  <2> DEFINE i == CHOOSE i \in Small : \A j \in Small : i <= j
  <2>1. i \in Small
    <3>1. Small \in SUBSET Nat /\ Small # {}
      BY <1>3, <1>1, Caps DEF WriteSmall, Small, Waiting
    <3>2. \E j \in Small : \A l \in Small : j <= l
      BY <3>1, Smallest
    <3> QED BY <3>2
  <2>2. /\ Put(queue[i], 1) /\ queue' = RemoveAt(queue, i)
        /\ streak' = IF streak < UrgentStreak THEN streak + 1 ELSE streak
    BY <1>3 DEF WriteSmall
  <2> HIDE DEF i
  <2>3. i \in 1..Len(queue) /\ Overtakes(i) /\ FirstOfKey(queue, i)
    BY <1>1, <2>1, Caps DEF Small, Waiting
  <2>4. PICK m \in Request : m = queue[i] /\ m.size = 1 /\ 1 \in 1..m.size /\ (bulk = NoBulk \/ bulk.message.key # m.key)
    BY <1>1, <2>3 DEF Overtakes
  <2>5. /\ wire = <<>> /\ wire' \in Seq(Records) /\ Len(wire') = 1 /\ wire' # <<>>
        /\ wire'[1].message = m /\ wire'[1].part = 1 /\ bulk' = bulk /\ bulk' \in {NoBulk} \union Bulks
    BY <2>2, <2>4, PutFacts
  <2>6. RemoveAt(queue, i) \in Seq(Request) /\ Len(RemoveAt(queue, i)) = Len(queue) - 1 /\ Without(queue, RemoveAt(queue, i), i)
    <3>1. /\ RemoveAt(queue, i) \in Seq(Request) /\ Len(RemoveAt(queue, i)) = Len(queue) - 1
          /\ \A x \in 1..i - 1 : RemoveAt(queue, i)[x] = queue[x]
          /\ \A x \in i..Len(queue) - 1 : RemoveAt(queue, i)[x] = queue[x + 1]
      <4>1. queue \in Seq(Request) /\ i \in 1..Len(queue)
        BY <1>1, <2>3
      <4> QED BY ONLY <4>1, RemoveFacts
    <3> QED BY <3>1 DEF Without
  <2>7. streak' \in 0..UrgentStreak
    BY <1>1, <2>2
  <2>8. Typed'
    BY <1>1, <1>2, <2>2, <2>5, <2>6, <2>7
  <2>9. Flying'
    BY <2>4, <2>5 DEF Flying
  <2>10. InAir' = InAir \union {queue[i]}
    BY <2>4, <2>5 DEF InAir, Aboard
  <2>11. \A o \in InAir : o.key # queue[i].key
    BY <2>4, <2>5 DEF InAir, Aboard
  <2> QED BY <1>1, <2>2, <2>3, <2>6, <2>8, <2>9, <2>10, <2>11
<1>4. CASE WriteBulk
  <2>1. bulk # NoBulk /\ Put(bulk.message, bulk.next) /\ streak' = 0 /\ queue' = queue
    BY <1>4 DEF WriteBulk
  <2>2. PICK m \in Request, part \in 2..Fragments : m = bulk.message /\ part = bulk.next
    BY <2>1, RecordFacts
  <2>3. part \in 1..m.size /\ m.size \in 1..Fragments
    BY <2>1, <2>2, RequestShapes, Caps DEF Flying
  <2>4. /\ wire = <<>> /\ wire' \in Seq(Records) /\ Len(wire') = 1 /\ wire' # <<>>
        /\ wire'[1].message = m /\ wire'[1].part = part
        /\ part < m.size => bulk' \in Bulks /\ bulk' # NoBulk /\ bulk'.message = m /\ bulk'.next = part + 1
        /\ part = m.size /\ part > 1 => bulk' = NoBulk
        /\ bulk' \in {NoBulk} \union Bulks
    BY <2>1, <2>2, <2>3, PutFacts
  <2>5. Typed'
    BY <1>1, <1>2, <2>1, <2>4
  <2>6. Flying'
    BY <2>2, <2>3, <2>4, Caps DEF Flying
  <2>7. InAir' = InAir
    <3>1. \A o : Aboard(o) <=> o = m
      BY <2>1, <2>2, <2>4 DEF Aboard
    <3>2. \A o : Aboard(o)' <=> o = m
      <4>1. part < m.size \/ (part = m.size /\ part > 1)
        BY <2>2, <2>3, Caps
      <4> QED BY <2>4, <4>1 DEF Aboard
    <3> QED BY <3>1, <3>2 DEF InAir
  <2> QED BY <1>1, <2>1, <2>5, <2>6, <2>7
<1>5. CASE WriteFirst
  <2>1. bulk = NoBulk /\ queue # <<>> /\ Put(Head(queue), 1) /\ streak' = 0 /\ queue' = Tail(queue)
    BY <1>5 DEF WriteFirst
  <2>2. PICK m \in Request : m = Head(queue)
    BY <1>1, <2>1
  <2>3. m.size \in 1..Fragments /\ 1 \in 1..m.size /\ m = queue[1] /\ 1 \in 1..Len(queue)
    BY <1>1, <2>1, <2>2, RequestShapes, Caps
  <2>4. /\ wire = <<>> /\ wire' \in Seq(Records) /\ Len(wire') = 1 /\ wire' # <<>>
        /\ wire'[1].message = m /\ wire'[1].part = 1
        /\ 1 < m.size => bulk' \in Bulks /\ bulk' # NoBulk /\ bulk'.message = m /\ bulk'.next = 1 + 1
        /\ m.size = 1 => bulk' = bulk
        /\ bulk' \in {NoBulk} \union Bulks
    BY <2>1, <2>2, <2>3, PutFacts
  <2>5. /\ Tail(queue) \in Seq(Request) /\ Len(Tail(queue)) = Len(queue) - 1
        /\ \A x \in 1..Len(queue) - 1 : Tail(queue)[x] = queue[x + 1]
    BY <1>1, <2>1
  <2>6. Without(queue, Tail(queue), 1) /\ FirstOfKey(queue, 1) /\ Len(Tail(queue)) <= QueueCap
    BY <1>1, <2>5 DEF Without, FirstOfKey
  <2>7. Typed'
    BY <1>1, <1>2, <2>1, <2>4, <2>5, <2>6
  <2>8. Flying'
    BY <2>1, <2>3, <2>4, Caps DEF Flying
  <2>9. (\A o : ~Aboard(o)) /\ (\A o : Aboard(o)' <=> o = m)
    <3>1. 1 < m.size \/ m.size = 1
      BY <2>3, Caps
    <3> QED BY <2>1, <2>4, <3>1 DEF Aboard
  <2>10. InAir = {} /\ InAir' = {m}
    BY <2>9 DEF InAir
  <2> QED BY <1>1, <2>1, <2>3, <2>6, <2>7, <2>8, <2>10
<1> QED BY <1>3, <1>4, <1>5 DEF WriterStep

LEMMA AirIsUnique == ASSUME Typed, Flying PROVE \A m, o \in InAir : m.key = o.key => m = o
<1> SUFFICES ASSUME NEW m \in InAir, NEW o \in InAir, m.key = o.key PROVE m = o
  OBVIOUS
<1>1. Aboard(m) /\ Aboard(o)
  BY DEF InAir
<1>2. CASE wire # <<>> /\ bulk # NoBulk
  <2>1. wire[1].part \in Nat /\ wire[1].message.size \in Nat /\ wire[1].part <= wire[1].message.size
    BY <1>2, RecordFacts, RequestShapes, Caps DEF Flying
  <2>2. wire[1].part < wire[1].message.size \/ wire[1].part = wire[1].message.size
    BY <2>1
  <2> QED BY <1>1, <1>2, <2>2 DEF Aboard, Flying
<1> QED BY <1>1, <1>2 DEF Aboard

LEMMA ServeTyped ==
  ASSUME Typed, link = "up", NEW m \in Request, Serve(m),
         UNCHANGED <<link, app, queue, bulk, streak, got>>,
         wire' \in Seq(Records), Len(wire') <= 1, assemblies' \subseteq Bulks
  PROVE  Typed'
<1>1. /\ m.kind \in {"open", "text", "close", "http"} /\ (m.kind = "http" => m.key \in Requests)
      /\ (m.kind # "http" => m.key \in Sockets /\ m.n \in Frames)
  BY RequestShapes
<1>2. down' \in Seq(Response) /\ Len(down') <= DownCap
  <2>1. down \in Seq(Response) /\ Len(down) <= DownCap /\ m.key \in Sockets \union Requests
    BY <1>1 DEF Typed
  <2>2. CASE down' = down
    BY <2>1, <2>2
  <2>3. CASE TryError(m.key)
    BY <2>1, <2>3, TryErrorFacts
  <2> QED BY <2>2, <2>3 DEF Serve
<1>3. sockets' \subseteq Sockets
  BY <1>1 DEF Serve, Backpressured, Typed
<1>4. pump' \in [Sockets -> {"none", "connecting", "open", "sending", "closing"}]
  BY <1>1 DEF Serve, Typed
<1>5. task' \in [Requests -> {"none", "running", "answering"}]
  BY <1>1 DEF Serve, Typed
<1>6. inbox' \in [Sockets -> Seq(Frames)] /\ \A t \in Sockets : Len(inbox'[t]) <= SocketCap
  <2>1. CASE inbox' = inbox
    BY <2>1 DEF Typed
  <2>2. CASE m.kind = "text" /\ Len(inbox[m.key]) < SocketCap /\ inbox' = [inbox EXCEPT ![m.key] = Append(inbox[m.key], m.n)]
    <3>1. inbox[m.key] \in Seq(Frames) /\ m.n \in Frames /\ m.key \in Sockets
      BY <1>1, <2>2 DEF Typed
    <3>2. Append(inbox[m.key], m.n) \in Seq(Frames) /\ Len(Append(inbox[m.key], m.n)) <= SocketCap
      BY <2>2, <3>1, Caps
    <3> QED BY <2>2, <3>1, <3>2 DEF Typed
  <2> QED BY <2>1, <2>2 DEF Serve, Backpressured
<1> QED BY <1>2, <1>3, <1>4, <1>5, <1>6 DEF Typed, app

(* A record that arrives: its message goes on, or has arrived.             *)
LEMMA ReceiveMoves ==
  ASSUME Typed, Flying, Receive
  PROVE  /\ Typed' /\ Flying' /\ link = "up"
         /\ UNCHANGED <<link, app, queue, got>>
         /\ \/ InAir' = InAir /\ UNCHANGED <<sockets, inbox, pump, task, down>>
            \/ \E m \in InAir :
                 /\ Serve(m) /\ InAir' = InAir \ {m}
                 /\ \A o \in InAir \ {m} : o.key # m.key
<1>1. /\ link = "up" /\ wire # <<>> /\ wire' = <<>> /\ UNCHANGED <<link, app, queue, bulk, streak, got>>
  BY DEF Receive
<1>2. PICK f \in Records : f = Head(wire) /\ f = wire[1] /\ f.message \in Request /\ f.part \in 1..Fragments
  BY <1>1, RecordFacts
<1>3. /\ f.part \in Nat /\ f.message.size \in Nat /\ f.part <= f.message.size /\ f.message.size <= Fragments
      /\ f.part >= 1 /\ Fragments \in Nat
  BY <1>1, <1>2, RequestShapes, Caps DEF Flying
<1>4. wire' \in Seq(Records) /\ Len(wire') <= 1
  BY <1>1
<1>5. Flying'
  BY <1>1, <1>2, <1>3 DEF Flying
<1>6. \A o : Aboard(o)' <=> bulk # NoBulk /\ o = bulk.message
  BY <1>1 DEF Aboard
<1>7. CASE f.part < f.message.size
  <2>1. /\ assemblies' = (assemblies \ {Pending(f)}) \union {Rest(f)}
        /\ UNCHANGED <<sockets, inbox, pump, task, down>>
    BY <1>2, <1>3, <1>7 DEF Receive
  <2>2. Rest(f) \in Bulks
    BY <1>2, <1>3, <1>7 DEF Rest, Bulks
  <2>3. assemblies' \subseteq Bulks
    BY <2>1, <2>2 DEF Typed
  <2>4. Typed'
    BY <1>1, <1>4, <2>1, <2>3 DEF Typed, app
  <2>5. \A o : Aboard(o) <=> bulk # NoBulk /\ o = bulk.message
    BY <1>1, <1>2, <1>7 DEF Aboard, Flying
  <2>6. InAir' = InAir
    BY <1>6, <2>5 DEF InAir
  <2> QED BY <1>1, <1>5, <2>1, <2>4, <2>6
<1>8. CASE f.part = f.message.size
  <2>1. assemblies' = (assemblies \ {Pending(f)}) \union {} /\ Serve(f.message)
    BY <1>2, <1>8 DEF Receive
  <2>2. Typed'
    <3>1. assemblies' \subseteq Bulks
      BY <2>1 DEF Typed
    <3> QED BY <1>1, <1>2, <1>4, <2>1, <3>1, ServeTyped
  <2>3. PICK m \in Request : m = f.message
    BY <1>2
  <2>4. m \in InAir /\ Serve(m)
    BY <1>1, <1>2, <2>1, <2>3 DEF InAir, Aboard
  <2>5. \A o \in InAir \ {m} : o.key # m.key
    BY <2>4, AirIsUnique
  <2>6. \A o : Aboard(o)' <=> Aboard(o) /\ o # m
    BY <1>1, <1>2, <1>6, <1>8, <2>3 DEF Aboard, Flying
  <2>7. InAir' = InAir \ {m}
    BY <2>6 DEF InAir
  <2> QED BY <1>1, <1>5, <2>2, <2>4, <2>5, <2>7
<1> QED BY <1>3, <1>7, <1>8

-----------------------------------------------------------------------------
(* What the hub has put together so far is what the writer has sent of the *)
(* long message.                                                           *)
Assembled ==
  assemblies =
    IF bulk # NoBulk /\ (wire = <<>> \/ wire[1].part = wire[1].message.size) THEN {bulk}
    ELSE IF wire # <<>> /\ wire[1].part > 1 THEN {Pending(wire[1])}
    ELSE {}

LEMMA WriterAssembled == ASSUME Typed, Flying, Assembled, WriterStep PROVE Assembled'
<1>1. assemblies' = assemblies /\ wire = <<>> /\ queue \in Seq(Request)
  BY DEF WriterStep, WriteSmall, WriteBulk, WriteFirst, Put, Typed
<1>2. assemblies = IF bulk # NoBulk THEN {bulk} ELSE {}
  BY <1>1 DEF Assembled
<1>3. CASE WriteBulk
  <2>1. bulk # NoBulk /\ Put(bulk.message, bulk.next)
    BY <1>3 DEF WriteBulk
  <2>2. PICK m \in Request, part \in 2..Fragments :
          m = bulk.message /\ part = bulk.next /\ bulk = [message |-> m, next |-> part]
    BY <2>1, RecordFacts
  <2>3. part \in 1..m.size /\ m.size \in 1..Fragments /\ Fragments \in Nat
    BY <2>1, <2>2, RequestShapes, Caps DEF Flying
  <2>4. /\ wire' # <<>> /\ wire'[1].message = m /\ wire'[1].part = part
        /\ part = m.size /\ part > 1 => bulk' = NoBulk
    BY <2>1, <2>2, <2>3, PutFacts
  <2>5. part > 1 /\ (part = m.size \/ part < m.size)
    BY <2>2, <2>3
  <2>6. Pending(wire'[1]) = bulk
    BY <2>2, <2>4 DEF Pending
  <2> QED BY <1>1, <1>2, <2>1, <2>3, <2>4, <2>5, <2>6 DEF Assembled
<1>4. ASSUME NEW m \in Request, Put(m, 1), bulk = NoBulk \/ m.size = 1 PROVE Assembled'
  <2>1. m.size \in 1..Fragments /\ 1 \in 1..m.size /\ Fragments \in Nat
    BY RequestShapes, Caps
  <2>2. /\ wire' # <<>> /\ wire'[1].message = m /\ wire'[1].part = 1
        /\ m.size = 1 => bulk' = bulk
    BY <1>4, <2>1, PutFacts
  <2>3. CASE m.size = 1
    BY <1>1, <1>2, <2>2, <2>3 DEF Assembled
  <2>4. CASE m.size # 1
    BY <1>1, <1>2, <1>4, <2>1, <2>2, <2>4 DEF Assembled
  <2> QED BY <2>3, <2>4
<1>5. CASE WriteFirst
  <2>1. bulk = NoBulk /\ queue # <<>> /\ Put(Head(queue), 1) /\ Head(queue) \in Request
    BY <1>1, <1>5 DEF WriteFirst
  <2> QED BY <1>4, <2>1
<1>6. CASE WriteSmall
  <2>1. PICK i \in Small : Put(queue[i], 1)
    <3>1. Small \in SUBSET Nat /\ Small # {}
      BY <1>6, <1>1, Caps DEF WriteSmall, Small, Waiting
    <3>2. \E j \in Small : \A l \in Small : j <= l
      BY <3>1, Smallest
    <3> QED BY <1>6, <3>2 DEF WriteSmall
  <2>2. queue[i] \in Request /\ queue[i].size = 1
    <3>1. i \in 1..Len(queue) /\ Overtakes(i)
      BY <1>1, Caps DEF Small, Waiting
    <3> QED BY <1>1, <3>1 DEF Overtakes
  <2> QED BY <1>4, <2>1, <2>2
<1> QED BY <1>3, <1>5, <1>6 DEF WriterStep

LEMMA ReceiveAssembled == ASSUME Typed, Flying, Assembled, Receive PROVE Assembled'
<1>1. wire # <<>> /\ wire' = <<>> /\ bulk' = bulk
  BY DEF Receive
<1>2. PICK f \in Records : f = Head(wire) /\ f = wire[1] /\ f.message \in Request /\ f.part \in 1..Fragments
  BY <1>1, RecordFacts
<1>3. /\ f.part \in Nat /\ f.message.size \in Nat /\ f.part <= f.message.size /\ f.part >= 1
  BY <1>1, <1>2, RequestShapes, Caps DEF Flying
<1>4. /\ assemblies' = (assemblies \ {Pending(f)}) \union (IF f.part = f.message.size THEN {} ELSE {Rest(f)})
  BY <1>2 DEF Receive
<1>5. assemblies' = (IF bulk # NoBulk THEN {bulk} ELSE {}) => Assembled'
  BY <1>1 DEF Assembled
<1>6. CASE f.part < f.message.size
  <2>1. bulk # NoBulk /\ bulk = Rest(f)
    <3>1. bulk # NoBulk /\ bulk.message = f.message /\ bulk.next = f.part + 1
      BY <1>1, <1>2, <1>6 DEF Flying
    <3> QED BY <3>1, RecordFacts DEF Rest
  <2>2. assemblies \subseteq {Pending(f)}
    BY <1>1, <1>2, <1>3, <1>6 DEF Assembled
  <2> QED BY <1>3, <1>4, <1>5, <1>6, <2>1, <2>2
<1>7. CASE f.part = f.message.size
  <2>1. CASE bulk = NoBulk
    <3>1. assemblies \subseteq {Pending(f)}
      BY <1>1, <1>2, <2>1 DEF Assembled
    <3> QED BY <1>4, <1>5, <1>7, <2>1, <3>1
  <2>2. CASE bulk # NoBulk
    <3>1. assemblies = {bulk} /\ f.part = 1 /\ bulk.next \in 2..Fragments
      BY <1>1, <1>2, <1>7, <2>2, RecordFacts DEF Assembled, Flying
    <3>2. Pending(f).next = 1
      BY <3>1 DEF Pending
    <3>3. bulk # Pending(f)
      BY <3>1, <3>2
    <3> QED BY <1>4, <1>5, <1>7, <2>2, <3>1, <3>3
  <2> QED BY <2>1, <2>2
<1> QED BY <1>3, <1>6, <1>7

LEMMA AssembledDecodes == ASSUME Typed, Flying, Assembled PROVE Decodable
<1> SUFFICES ASSUME wire # <<>> PROVE Decodes(Head(wire))
  BY DEF Decodable
<1>1. PICK f \in Records : f = Head(wire) /\ f = wire[1] /\ f.message \in Request /\ f.part \in 1..Fragments
  BY RecordFacts
<1>2. /\ f.part \in Nat /\ f.message.size \in Nat /\ f.part <= f.message.size /\ f.part >= 1
  BY <1>1, RequestShapes, Caps DEF Flying
<1>3. CASE f.part = 1 /\ f.message.size # 1
  <2>1. assemblies = {}
    BY <1>1, <1>3 DEF Assembled
  <2>2. Cardinality({}) = 0
    BY FS_EmptySet
  <2> QED BY <1>1, <1>3, <2>1, <2>2, Caps DEF Decodes
<1>4. CASE f.part > 1
  <2>1. bulk # NoBulk => f.part # f.message.size
    BY <1>1, <1>4 DEF Flying
  <2>2. assemblies = {Pending(f)}
    BY <1>1, <1>4, <2>1 DEF Assembled
  <2> QED BY <1>1, <1>4, <2>2 DEF Decodes
<1>5. CASE f.part = 1 /\ f.message.size = 1
  BY <1>1, <1>5 DEF Decodes
<1> QED BY <1>2, <1>3, <1>4, <1>5

-----------------------------------------------------------------------------
(* The frames of a socket.                                                 *)

Is(m, kind, s) == m.kind = kind /\ m.key = s

\* The places in a queue where a message of this kind and socket waits.
Places(q, kind, s) == {i \in 1..Len(q) : Is(q[i], kind, s)}

\* The frames of a socket in a queue lead from one number to another.
Chain(q, s, from, to) ==
  LET T == Places(q, "text", s)
  IN  /\ T = {} => from = to
      /\ \A i \in T : (\A j \in T : i <= j) => q[i].n = After(from)
      /\ \A i \in T : (\A j \in T : j <= i) => q[i].n = to
      /\ \A i, j \in T : i < j /\ (\A k \in T : k <= i \/ j <= k) => q[j].n = After(q[i].n)

\* So do those the hub has taken in.
Lined(seq, from, to) ==
  /\ Len(seq) = 0 => from = to
  /\ Len(seq) > 0 => seq[1] = After(from) /\ seq[Len(seq)] = to
  /\ \A i \in 1..Len(seq) - 1 : seq[i + 1] = After(seq[i])

\* And the one, at most, in between.
Carried(s, from, to) ==
  /\ (\A m \in InAir : ~Is(m, "text", s)) => from = to
  /\ \A m \in InAir : Is(m, "text", s) => m.n = After(from) /\ m.n = to

Stream(s) ==
  \E tip \in Frames :
    /\ Lined(inbox[s], got[s], tip)
    /\ s \in sockets => \E base \in Frames : Carried(s, tip, base) /\ Chain(queue, s, base, sent[s])

OpenUnder(s) == Places(queue, "open", s) # {} \/ \E m \in InAir : Is(m, "open", s)

SingleOpen(s) ==
  /\ \A i, j \in Places(queue, "open", s) : i = j
  /\ (\E m \in InAir : Is(m, "open", s)) => Places(queue, "open", s) = {}

\* Neither end has heard of the other.
Fresh(s) ==
  /\ js[s] # "open" /\ s \notin sockets /\ pump[s] = "none" /\ inbox[s] = <<>> /\ chan[s] = <<>>
  /\ \A x \in 1..Len(down) : down[x].key # s
  /\ Places(queue, "text", s) = {} /\ \A m \in InAir : ~Is(m, "text", s)
  /\ got[s] = sent[s]

SocketInv(s) ==
  /\ js[s] = "new" => ~OpenUnder(s)
  /\ js[s] = "new" \/ OpenUnder(s) => Fresh(s)
  /\ SingleOpen(s)
  /\ Stream(s)

Shift(p, x) == IF x < p THEN x ELSE x - 1
Lift(p, y) == IF y < p THEN y ELSE y + 1

LEMMA ShiftFacts ==
  ASSUME NEW p \in Nat \ {0}
  PROVE  /\ \A x, y \in Nat \ {0, p} : (x <= y <=> Shift(p, x) <= Shift(p, y)) /\ Lift(p, Shift(p, x)) = x
         /\ \A x, y \in Nat \ {0} : (x <= y <=> Lift(p, x) <= Lift(p, y)) /\ Shift(p, Lift(p, x)) = x /\ Lift(p, x) # p
BY DEF Shift, Lift

(* What is left in a queue moves up.                                       *)
LEMMA RemovePlaces ==
  ASSUME NEW q \in Seq(Request), NEW r \in Seq(Request), NEW p \in 1..Len(q), Without(q, r, p), NEW kind, NEW s
  PROVE  /\ \A x \in Places(q, kind, s) \ {p} : Shift(p, x) \in Places(r, kind, s) /\ r[Shift(p, x)] = q[x]
         /\ \A y \in Places(r, kind, s) : Lift(p, y) \in Places(q, kind, s) \ {p} /\ r[y] = q[Lift(p, y)]
<1>1. Len(q) \in Nat /\ Len(r) \in Nat /\ Len(r) = Len(q) - 1 /\ p \in Nat /\ p >= 1 /\ p <= Len(q)
  BY DEF Without
<1>2. ASSUME NEW x \in 1..Len(q), x # p PROVE Shift(p, x) \in 1..Len(r) /\ r[Shift(p, x)] = q[x]
  <2>1. CASE x < p
    <3>1. Shift(p, x) = x /\ x \in 1..p - 1 /\ x \in 1..Len(r)
      BY <1>1, <2>1 DEF Shift
    <3> QED BY <3>1 DEF Without
  <2>2. CASE x > p
    <3>1. Shift(p, x) = x - 1 /\ x - 1 \in p..Len(q) - 1 /\ x - 1 \in 1..Len(r) /\ (x - 1) + 1 = x
      BY <1>1, <2>2 DEF Shift
    <3> QED BY <3>1 DEF Without
  <2> QED BY <1>1, <1>2, <2>1, <2>2
<1>3. ASSUME NEW y \in 1..Len(r) PROVE Lift(p, y) \in 1..Len(q) /\ Lift(p, y) # p /\ r[y] = q[Lift(p, y)]
  <2>1. CASE y < p
    <3>1. Lift(p, y) = y /\ y \in 1..p - 1 /\ y \in 1..Len(q) /\ y # p
      BY <1>1, <2>1 DEF Lift
    <3> QED BY <3>1 DEF Without
  <2>2. CASE y >= p
    <3>1. Lift(p, y) = y + 1 /\ y \in p..Len(q) - 1 /\ y + 1 \in 1..Len(q) /\ y + 1 # p
      BY <1>1, <2>2 DEF Lift
    <3> QED BY <3>1 DEF Without
  <2> QED BY <1>1, <2>1, <2>2
<1> QED BY <1>2, <1>3 DEF Places

LEMMA ChainRemoveOther ==
  ASSUME NEW q \in Seq(Request), NEW r \in Seq(Request), NEW p \in 1..Len(q), Without(q, r, p),
         NEW s, ~Is(q[p], "text", s), NEW from, NEW to, Chain(q, s, from, to)
  PROVE  Chain(r, s, from, to)
<1> DEFINE T == Places(q, "text", s)
           R == Places(r, "text", s)
<1>1. T \subseteq Nat \ {0, p} /\ R \subseteq Nat \ {0} /\ p \in Nat \ {0}
  BY DEF Places
<1>2. /\ \A x \in T : Shift(p, x) \in R /\ r[Shift(p, x)] = q[x]
      /\ \A y \in R : Lift(p, y) \in T /\ r[y] = q[Lift(p, y)]
  BY <1>1, RemovePlaces
<1>3. /\ \A x, y \in Nat \ {0, p} : (x <= y <=> Shift(p, x) <= Shift(p, y)) /\ Lift(p, Shift(p, x)) = x
      /\ \A x, y \in Nat \ {0} : (x <= y <=> Lift(p, x) <= Lift(p, y)) /\ Shift(p, Lift(p, x)) = x /\ Lift(p, x) # p
  BY <1>1, ShiftFacts
<1>4. /\ T = {} => from = to
      /\ \A i \in T : (\A j \in T : i <= j) => q[i].n = After(from)
      /\ \A i \in T : (\A j \in T : j <= i) => q[i].n = to
      /\ \A i, j \in T : i < j /\ (\A k \in T : k <= i \/ j <= k) => q[j].n = After(q[i].n)
  BY DEF Chain
<1> HIDE DEF T, R
<1>5. R = {} => from = to
  BY <1>2, <1>4
<1>6. ASSUME NEW y \in R, \A z \in R : y <= z PROVE r[y].n = After(from)
  <2>1. \A x \in T : Lift(p, y) <= x
    BY <1>1, <1>2, <1>3, <1>6
  <2> QED BY <1>2, <1>4, <2>1
<1>7. ASSUME NEW y \in R, \A z \in R : z <= y PROVE r[y].n = to
  <2>1. \A x \in T : x <= Lift(p, y)
    BY <1>1, <1>2, <1>3, <1>7
  <2> QED BY <1>2, <1>4, <2>1
<1>8. ASSUME NEW y \in R, NEW z \in R, y < z, \A k \in R : k <= y \/ z <= k PROVE r[z].n = After(r[y].n)
  <2>1. \A x \in T : x <= Lift(p, y) \/ Lift(p, z) <= x
    <3> SUFFICES ASSUME NEW x \in T PROVE x <= Lift(p, y) \/ Lift(p, z) <= x
      OBVIOUS
    <3>1. PICK u \in R : Lift(p, u) = x /\ (u <= y \/ z <= u)
      BY <1>1, <1>2, <1>3, <1>8
    <3>2. u \in Nat \ {0} /\ y \in Nat \ {0} /\ z \in Nat \ {0}
      BY <1>1
    <3>3. (u <= y => Lift(p, u) <= Lift(p, y)) /\ (z <= u => Lift(p, z) <= Lift(p, u))
      BY <1>3, <3>2
    <3> QED BY <3>1, <3>3
  <2>2. Lift(p, y) < Lift(p, z)
    <3>1. y \in Nat \ {0} /\ z \in Nat \ {0} /\ ~(z <= y)
      BY <1>1, <1>8
    <3>2. ~(Lift(p, z) <= Lift(p, y)) /\ Lift(p, y) \in Nat /\ Lift(p, z) \in Nat
      BY <1>1, <1>2, <1>3, <3>1
    <3> QED BY <3>2
  <2> QED BY <1>2, <1>4, <2>1, <2>2
<1> QED BY <1>5, <1>6, <1>7, <1>8 DEF Chain, R

LEMMA ChainRemoveFirst ==
  ASSUME NEW q \in Seq(Request), NEW r \in Seq(Request), NEW p \in 1..Len(q), Without(q, r, p),
         NEW s, Is(q[p], "text", s), FirstOfKey(q, p), NEW from, NEW to, Chain(q, s, from, to)
  PROVE  q[p].n = After(from) /\ Chain(r, s, q[p].n, to)
<1> DEFINE T == Places(q, "text", s)
           R == Places(r, "text", s)
<1>1. T \subseteq Nat \ {0} /\ R \subseteq Nat \ {0} /\ p \in Nat \ {0} /\ p \in T
  BY DEF Places
<1>2. /\ \A x \in T \ {p} : Shift(p, x) \in R /\ r[Shift(p, x)] = q[x]
      /\ \A y \in R : Lift(p, y) \in T \ {p} /\ r[y] = q[Lift(p, y)]
  BY <1>1, RemovePlaces
<1>3. /\ \A x, y \in Nat \ {0, p} : (x <= y <=> Shift(p, x) <= Shift(p, y)) /\ Lift(p, Shift(p, x)) = x
      /\ \A x, y \in Nat \ {0} : (x <= y <=> Lift(p, x) <= Lift(p, y)) /\ Shift(p, Lift(p, x)) = x /\ Lift(p, x) # p
  BY <1>1, ShiftFacts
<1>4. /\ T = {} => from = to
      /\ \A i \in T : (\A j \in T : i <= j) => q[i].n = After(from)
      /\ \A i \in T : (\A j \in T : j <= i) => q[i].n = to
      /\ \A i, j \in T : i < j /\ (\A k \in T : k <= i \/ j <= k) => q[j].n = After(q[i].n)
  BY DEF Chain
<1>5. \A x \in T : p <= x
  <2> SUFFICES ASSUME NEW x \in T, x < p PROVE FALSE
    BY <1>1
  <2>1. x \in 1..p - 1 /\ q[x].key = q[p].key
    BY <1>1 DEF Places, Is
  <2> QED BY <2>1 DEF FirstOfKey
<1> HIDE DEF T, R
<1>6. q[p].n = After(from)
  BY <1>1, <1>4, <1>5
<1>7. R = {} => q[p].n = to
  <2> SUFFICES ASSUME R = {} PROVE q[p].n = to
    OBVIOUS
  <2>1. T = {p}
    BY <1>1, <1>2
  <2>2. \A x \in T : x <= p
    BY <1>1, <2>1
  <2> QED BY <1>1, <1>4, <2>2
<1>8. ASSUME NEW y \in R, \A z \in R : y <= z PROVE r[y].n = After(q[p].n)
  <2>1. PICK w \in T \ {p} : w = Lift(p, y) /\ r[y] = q[w]
    BY <1>2
  <2>2. ASSUME NEW x \in T, x # p PROVE w <= x
    <3>1. PICK u \in R : Lift(p, u) = x /\ y <= u
      BY <1>1, <1>2, <1>3, <1>8, <2>2
    <3>2. u \in Nat \ {0} /\ y \in Nat \ {0}
      BY <1>1
    <3> QED BY <1>3, <2>1, <3>1, <3>2
  <2>3. p < w /\ \A x \in T : x <= p \/ w <= x
    <3>1. p <= w /\ p # w /\ p \in Nat /\ w \in Nat
      BY <1>1, <1>5
    <3> QED BY <2>2, <3>1
  <2> QED BY <1>1, <1>4, <2>1, <2>3
<1>9. ASSUME NEW y \in R, \A z \in R : z <= y PROVE r[y].n = to
  <2>1. \A x \in T : x <= Lift(p, y)
    <3> SUFFICES ASSUME NEW x \in T PROVE x <= Lift(p, y)
      OBVIOUS
    <3>1. CASE x = p
      BY <1>2, <1>5, <3>1
    <3>2. CASE x # p
      BY <1>1, <1>2, <1>3, <1>9, <3>2
    <3> QED BY <3>1, <3>2
  <2> QED BY <1>2, <1>4, <2>1
<1>10. ASSUME NEW y \in R, NEW z \in R, y < z, \A k \in R : k <= y \/ z <= k PROVE r[z].n = After(r[y].n)
  <2>1. \A x \in T : x <= Lift(p, y) \/ Lift(p, z) <= x
    <3> SUFFICES ASSUME NEW x \in T PROVE x <= Lift(p, y) \/ Lift(p, z) <= x
      OBVIOUS
    <3>1. CASE x = p
      BY <1>2, <1>5, <3>1
    <3>2. CASE x # p
      <4>1. PICK u \in R : Lift(p, u) = x /\ (u <= y \/ z <= u)
        BY <1>1, <1>2, <1>3, <1>10, <3>2
      <4>2. u \in Nat \ {0} /\ y \in Nat \ {0} /\ z \in Nat \ {0}
        BY <1>1
      <4>3. (u <= y => Lift(p, u) <= Lift(p, y)) /\ (z <= u => Lift(p, z) <= Lift(p, u))
        BY <1>3, <4>2
      <4> QED BY <4>1, <4>3
    <3> QED BY <3>1, <3>2
  <2>2. Lift(p, y) < Lift(p, z)
    <3>1. y \in Nat \ {0} /\ z \in Nat \ {0} /\ ~(z <= y)
      BY <1>1, <1>10
    <3>2. ~(Lift(p, z) <= Lift(p, y)) /\ Lift(p, y) \in Nat /\ Lift(p, z) \in Nat
      BY <1>1, <1>2, <1>3, <3>1
    <3> QED BY <3>2
  <2> QED BY <1>2, <1>4, <2>1, <2>2
<1> QED BY <1>6, <1>7, <1>8, <1>9, <1>10 DEF Chain, R

\* One message more at the end of a queue.
With(q, r, m) == /\ Len(r) = Len(q) + 1 /\ r[Len(q) + 1] = m
                 /\ \A i \in 1..Len(q) : r[i] = q[i]

LEMMA AppendPlaces ==
  ASSUME NEW q \in Seq(Request), NEW r \in Seq(Request), NEW m, With(q, r, m), NEW kind, NEW s
  PROVE  Places(r, kind, s) = Places(q, kind, s) \union (IF Is(m, kind, s) THEN {Len(q) + 1} ELSE {})
<1>1. Len(q) \in Nat /\ 1..Len(r) = 1..Len(q) \union {Len(q) + 1} /\ Len(q) + 1 \notin 1..Len(q)
  BY DEF With
<1>2. \A i \in 1..Len(q) : r[i] = q[i]
  BY DEF With
<1>3. r[Len(q) + 1] = m
  BY DEF With
<1> QED BY <1>1, <1>2, <1>3 DEF Places

LEMMA ChainAppendOther ==
  ASSUME NEW q \in Seq(Request), NEW r \in Seq(Request), NEW m, With(q, r, m), NEW s, ~Is(m, "text", s),
         NEW from, NEW to, Chain(q, s, from, to)
  PROVE  Chain(r, s, from, to)
<1>1. Places(r, "text", s) = Places(q, "text", s) \union (IF Is(m, "text", s) THEN {Len(q) + 1} ELSE {})
  BY AppendPlaces
<1>2. Places(r, "text", s) = Places(q, "text", s)
  BY <1>1
<1>3. \A i \in Places(q, "text", s) : r[i] = q[i]
  BY DEF With, Places
<1> QED BY <1>2, <1>3 DEF Chain

LEMMA ChainAppendText ==
  ASSUME NEW q \in Seq(Request), NEW r \in Seq(Request), NEW m, With(q, r, m), NEW s, Is(m, "text", s),
         NEW from, NEW to, Chain(q, s, from, to), m.n = After(to)
  PROVE  Chain(r, s, from, m.n)
<1> DEFINE T == Places(q, "text", s)
           R == Places(r, "text", s)
           l == Len(q) + 1
<1>1. R = T \union {l}
  <2>1. R = T \union (IF Is(m, "text", s) THEN {l} ELSE {})
    BY AppendPlaces
  <2> QED BY <2>1
<1>2. /\ T \subseteq Nat /\ l \in Nat /\ (\A i \in T : i < l) /\ r[l] = m /\ \A i \in T : r[i] = q[i]
  <2>1. Len(q) \in Nat
    OBVIOUS
  <2> QED BY <2>1 DEF With, Places
<1>4. /\ T = {} => from = to
      /\ \A i \in T : (\A j \in T : i <= j) => q[i].n = After(from)
      /\ \A i \in T : (\A j \in T : j <= i) => q[i].n = to
      /\ \A i, j \in T : i < j /\ (\A k \in T : k <= i \/ j <= k) => q[j].n = After(q[i].n)
  BY DEF Chain
<1> HIDE DEF T, R, l
<1>5. R # {}
  BY <1>1
<1>6. ASSUME NEW y \in R, \A z \in R : y <= z PROVE r[y].n = After(from)
  <2>1. CASE y \in T
    BY <1>1, <1>2, <1>4, <1>6, <2>1
  <2>2. CASE y = l
    <3>1. T = {}
      BY <1>1, <1>2, <1>6, <2>2
    <3> QED BY <1>2, <1>4, <2>2, <3>1
  <2> QED BY <1>1, <2>1, <2>2
<1>7. ASSUME NEW y \in R, \A z \in R : z <= y PROVE r[y].n = m.n
  BY <1>1, <1>2, <1>7
<1>8. ASSUME NEW y \in R, NEW z \in R, y < z, \A k \in R : k <= y \/ z <= k PROVE r[z].n = After(r[y].n)
  <2>1. y \in T
    BY <1>1, <1>2, <1>8
  <2>2. CASE z \in T
    BY <1>1, <1>2, <1>4, <1>8, <2>1, <2>2
  <2>3. CASE z = l
    <3>1. \A k \in T : k <= y
      <4>1. \A k \in T : k <= y \/ l <= k
        BY <1>1, <1>8, <2>3
      <4>2. \A k \in T : k \in Nat /\ k < l /\ l \in Nat
        BY <1>2
      <4> QED BY <4>1, <4>2
    <3> QED BY <1>2, <1>4, <2>1, <2>3, <3>1
  <2> QED BY <1>1, <2>2, <2>3
<1> QED BY <1>5, <1>6, <1>7, <1>8 DEF Chain, R

LEMMA LinedMore ==
  ASSUME NEW seq \in Seq(Frames), NEW n \in Frames, NEW from, NEW to, Lined(seq, from, to), n = After(to)
  PROVE  Lined(Append(seq, n), from, n)
<1>1. PICK r : r = Append(seq, n)
  OBVIOUS
<1>2. /\ Len(seq) \in Nat /\ Len(r) = Len(seq) + 1 /\ r[Len(seq) + 1] = n
      /\ \A i \in 1..Len(seq) : r[i] = seq[i]
  BY <1>1
<1>3. r[1] = After(from)
  <2>1. CASE Len(seq) = 0
    BY <1>2, <2>1 DEF Lined
  <2>2. CASE Len(seq) > 0
    BY <1>2, <2>2 DEF Lined
  <2> QED BY <1>2, <2>1, <2>2
<1>4. ASSUME NEW i \in 1..Len(seq) PROVE r[i + 1] = After(r[i])
  <2>1. CASE i = Len(seq)
    BY <1>2, <2>1 DEF Lined
  <2>2. CASE i \in 1..Len(seq) - 1
    <3>1. i + 1 \in 1..Len(seq)
      BY <1>2, <2>2
    <3> QED BY <1>2, <2>2, <3>1 DEF Lined
  <2> QED BY <1>2, <2>1, <2>2
<1>5. Len(r) - 1 = Len(seq) /\ Len(r) > 0 /\ Len(r) # 0
  BY <1>2
<1> QED BY <1>1, <1>2, <1>3, <1>4, <1>5 DEF Lined

LEMMA LinedLess ==
  ASSUME NEW seq \in Seq(Frames), seq # <<>>, NEW from, NEW to, Lined(seq, from, to)
  PROVE  Head(seq) = After(from) /\ Lined(Tail(seq), Head(seq), to)
<1>1. PICK r : r = Tail(seq)
  OBVIOUS
<1>2. /\ Len(seq) \in Nat /\ Len(seq) > 0 /\ Len(r) = Len(seq) - 1 /\ Head(seq) = seq[1]
      /\ \A i \in 1..Len(seq) - 1 : r[i] = seq[i + 1]
  BY <1>1
<1>3. Head(seq) = After(from) /\ seq[Len(seq)] = to
  BY <1>2 DEF Lined
<1>4. CASE Len(seq) = 1
  <2>1. Len(r) = 0
    BY <1>2, <1>4
  <2> QED BY <1>1, <1>2, <1>3, <1>4, <2>1 DEF Lined
<1>5. CASE Len(seq) > 1
  <2>1. 1 \in 1..Len(seq) - 1 /\ Len(r) \in 1..Len(seq) - 1 /\ Len(r) + 1 = Len(seq) /\ Len(r) > 0 /\ Len(r) # 0
    BY <1>2, <1>5
  <2>2. r[1] = seq[1 + 1] /\ seq[1 + 1] = After(seq[1]) /\ r[Len(r)] = seq[Len(seq)]
    BY <1>2, <2>1 DEF Lined
  <2>3. ASSUME NEW i \in 1..Len(r) - 1 PROVE r[i + 1] = After(r[i])
    <3>1. i \in 1..Len(seq) - 1 /\ i + 1 \in 1..Len(seq) - 1
      BY <1>2
    <3> QED BY <1>2, <3>1 DEF Lined
  <2> QED BY <1>1, <1>2, <1>3, <2>1, <2>2, <2>3 DEF Lined
<1> QED BY <1>2, <1>4, <1>5

-----------------------------------------------------------------------------
(* A step that leaves a socket's own messages where they are.              *)
LEMMA SocketStays ==
  ASSUME NEW s \in Sockets, SocketInv(s),
         inbox'[s] = inbox[s], got'[s] = got[s], sent'[s] = sent[s],
         s \in sockets' => s \in sockets,
         js'[s] = "new" => js[s] = "new",
         Fresh(s) => /\ js'[s] # "open" /\ pump'[s] = "none" /\ chan'[s] = <<>>
                     /\ \A x \in 1..Len(down') : down'[x].key # s,
         OpenUnder(s)' => OpenUnder(s), SingleOpen(s)',
         Places(queue, "text", s) = {} => Places(queue', "text", s) = {},
         \A m : Is(m, "text", s) => (m \in InAir' <=> m \in InAir),
         \A from, to : Chain(queue, s, from, to) => Chain(queue', s, from, to)
  PROVE  SocketInv(s)'
<1>1. Fresh(s) => Fresh(s)'
  BY DEF Fresh
<1>2. ASSUME NEW tip, NEW base PROVE Carried(s, tip, base) => Carried(s, tip, base)'
  BY DEF Carried
<1>3. Stream(s)'
  <2>1. PICK tip \in Frames :
          /\ Lined(inbox[s], got[s], tip)
          /\ s \in sockets => \E base \in Frames : Carried(s, tip, base) /\ Chain(queue, s, base, sent[s])
    BY DEF SocketInv, Stream
  <2>2. Lined(inbox'[s], got'[s], tip)
    BY <2>1
  <2>3. s \in sockets' => \E base \in Frames : Carried(s, tip, base)' /\ Chain(queue', s, base, sent'[s])
    BY <2>1, <1>2
  <2> QED BY <2>2, <2>3 DEF Stream
<1> QED BY <1>1, <1>3 DEF SocketInv

LEMMA AirStays ==
  ASSUME UNCHANGED <<bulk, wire>>
  PROVE  /\ InAir' = InAir /\ (Flying => Flying')
         /\ Assembled /\ assemblies' = assemblies => Assembled'
BY DEF InAir, Aboard, Flying, Assembled

(* The same, for a step without writer and reader of records, which may    *)
(* put a message of other kinds or keys into the queue.                    *)
LEMMA SocketKeeps ==
  ASSUME Typed, queue' \in Seq(Request), NEW s \in Sockets, SocketInv(s),
         inbox'[s] = inbox[s], got'[s] = got[s], sent'[s] = sent[s],
         s \in sockets' => s \in sockets,
         js'[s] = "new" => js[s] = "new",
         Fresh(s) => /\ js'[s] # "open" /\ pump'[s] = "none" /\ chan'[s] = <<>>
                     /\ \A x \in 1..Len(down') : down'[x].key # s,
         UNCHANGED <<bulk, wire>>,
         queue' = queue \/ \E m : With(queue, queue', m) /\ ~Is(m, "open", s) /\ ~Is(m, "text", s)
  PROVE  SocketInv(s)'
<1>1. queue \in Seq(Request) /\ InAir' = InAir
  BY AirStays DEF Typed
<1>2. /\ Places(queue', "open", s) = Places(queue, "open", s)
      /\ Places(queue', "text", s) = Places(queue, "text", s)
      /\ \A from, to : Chain(queue, s, from, to) => Chain(queue', s, from, to)
  <2>1. CASE queue' = queue
    BY <2>1
  <2>2. ASSUME NEW m, With(queue, queue', m), ~Is(m, "open", s), ~Is(m, "text", s)
        PROVE  /\ Places(queue', "open", s) = Places(queue, "open", s)
               /\ Places(queue', "text", s) = Places(queue, "text", s)
               /\ \A from, to : Chain(queue, s, from, to) => Chain(queue', s, from, to)
    <3>1. PICK q, r : q = queue /\ r = queue' /\ q \in Seq(Request) /\ r \in Seq(Request)
      BY <1>1
    <3>2. /\ Places(r, "open", s) = Places(q, "open", s) \union (IF Is(m, "open", s) THEN {Len(q) + 1} ELSE {})
          /\ Places(r, "text", s) = Places(q, "text", s) \union (IF Is(m, "text", s) THEN {Len(q) + 1} ELSE {})
      BY <2>2, <3>1, AppendPlaces
    <3>3. \A from, to : Chain(q, s, from, to) => Chain(r, s, from, to)
      BY <2>2, <3>1, ChainAppendOther
    <3> QED BY <2>2, <3>1, <3>2, <3>3
  <2> QED BY <2>1, <2>2
<1>3. (OpenUnder(s)' => OpenUnder(s)) /\ SingleOpen(s)'
  BY <1>1, <1>2 DEF SocketInv, OpenUnder, SingleOpen
<1> QED BY <1>1, <1>2, <1>3, SocketStays

LEMMA SendIsWith ==
  ASSUME Typed, NEW kind, NEW k, NEW n, NEW size, Send(kind, k, n, size),
         [kind |-> kind, key |-> k, n |-> n, size |-> size] \in Request
  PROVE  /\ queue' \in Seq(Request)
         /\ \E m \in Request : With(queue, queue', m) /\ m.kind = kind /\ m.key = k /\ m.n = n
<1>1. PICK m \in Request : m = [kind |-> kind, key |-> k, n |-> n, size |-> size]
  OBVIOUS
<1>2. m.kind = kind /\ m.key = k /\ m.n = n
  BY <1>1
<1>3. /\ queue' \in Seq(Request) /\ Len(queue') = Len(queue) + 1
      /\ \A i \in 1..Len(queue) : queue'[i] = queue[i]
      /\ queue'[Len(queue) + 1] = m
  BY <1>1, SendFacts
<1> QED BY <1>2, <1>3 DEF With

LEMMA OpenKeeps ==
  ASSUME Typed, NEW t \in Sockets, Open(t), NEW s \in Sockets, SocketInv(s)
  PROVE  SocketInv(s)'
<1>1. /\ js[t] = "new" /\ js' = [js EXCEPT ![t] = "opening"]
      /\ UNCHANGED <<link, chan, pending, sent, bulk, streak, wire, assemblies, hub, down>>
  BY DEF Open
<1>2. js'[t] = "opening" /\ \A u \in Sockets \ {t} : js'[u] = js[u]
  BY <1>1 DEF Typed
<1>3. PICK m \in Request : queue' \in Seq(Request) /\ With(queue, queue', m) /\ m.kind = "open" /\ m.key = t
  <2>1. 1 \in 1..Fragments
    BY Caps
  <2>2. Send("open", t, 0, 1) /\ [kind |-> "open", key |-> t, n |-> 0, size |-> 1] \in Request
    BY <2>1, FramesAfter, RequestMakes DEF Open
  <2> QED BY <2>2, SendIsWith
<1>4. CASE s # t
  <2>1. ~Is(m, "open", s) /\ ~Is(m, "text", s)
    BY <1>3, <1>4 DEF Is
  <2>2. js'[s] = js[s]
    BY <1>2, <1>4
  <2> QED BY <1>1, <1>3, <2>1, <2>2, SocketKeeps DEF hub, Fresh
<1>5. CASE s = t
  <2>1. js[s] = "new" /\ ~OpenUnder(s) /\ Fresh(s) /\ Stream(s)
    BY <1>1, <1>5 DEF SocketInv
  <2>2. InAir' = InAir /\ queue \in Seq(Request)
    BY <1>1, AirStays DEF Typed
  <2>3. Is(m, "open", s) /\ ~Is(m, "text", s)
    BY <1>3, <1>5 DEF Is
  <2>4. PICK q, r : q = queue /\ r = queue' /\ q \in Seq(Request) /\ r \in Seq(Request) /\ With(q, r, m)
    BY <1>3, <2>2
  <2>5. /\ Places(r, "open", s) = Places(q, "open", s) \union {Len(q) + 1}
        /\ Places(r, "text", s) = Places(q, "text", s)
    <3>1. /\ Places(r, "open", s) = Places(q, "open", s) \union (IF Is(m, "open", s) THEN {Len(q) + 1} ELSE {})
          /\ Places(r, "text", s) = Places(q, "text", s) \union (IF Is(m, "text", s) THEN {Len(q) + 1} ELSE {})
      BY <2>4, AppendPlaces
    <3> QED BY <2>3, <3>1
  <2>6. Fresh(s)'
    BY <1>1, <1>2, <1>5, <2>1, <2>2, <2>4, <2>5 DEF Fresh, hub
  <2>7. SingleOpen(s)'
    BY <2>1, <2>2, <2>4, <2>5 DEF SingleOpen, OpenUnder
  <2>8. Stream(s)'
    BY <1>1, <2>1, <2>6 DEF Stream, hub, Fresh
  <2>9. js'[s] # "new"
    BY <1>2, <1>5
  <2> QED BY <2>6, <2>7, <2>8, <2>9 DEF SocketInv
<1> QED BY <1>4, <1>5

LEMMA WriteKeeps ==
  ASSUME Typed, NEW t \in Sockets, Write(t), NEW s \in Sockets, SocketInv(s)
  PROVE  SocketInv(s)'
<1>1. /\ js[t] = "open" /\ sent' = [sent EXCEPT ![t] = After(sent[t])]
      /\ UNCHANGED <<link, js, entry, chan, pending, bulk, streak, wire, assemblies, hub, down>>
  BY DEF Write
<1>2. /\ sent'[t] = After(sent[t]) /\ sent'[t] \in Frames /\ sent[t] \in Frames
      /\ \A u \in Sockets \ {t} : sent'[u] = sent[u]
  BY <1>1, FramesAfter DEF Typed
<1>3. PICK m \in Request : queue' \in Seq(Request) /\ With(queue, queue', m) /\ m.kind = "text" /\ m.key = t /\ m.n = sent'[t]
  <2>1. PICK size \in 1..Fragments : Send("text", t, sent'[t], size)
    BY DEF Write
  <2>2. PICK n \in Frames : n = sent'[t]
    BY <1>2
  <2>3. Send("text", t, n, size) /\ [kind |-> "text", key |-> t, n |-> n, size |-> size] \in Request
    BY <2>1, <2>2, RequestMakes
  <2> QED BY <2>2, <2>3, SendIsWith
<1>4. CASE s # t
  <2>1. ~Is(m, "open", s) /\ ~Is(m, "text", s)
    BY <1>3, <1>4 DEF Is
  <2>2. sent'[s] = sent[s]
    BY <1>2, <1>4
  <2> QED BY <1>1, <1>3, <2>1, <2>2, SocketKeeps DEF hub, Fresh
<1>5. CASE s = t
  <2>1. js[s] = "open" /\ ~Fresh(s) /\ ~OpenUnder(s) /\ Stream(s) /\ SingleOpen(s)
    BY <1>1, <1>5 DEF SocketInv, Fresh
  <2>2. InAir' = InAir /\ queue \in Seq(Request)
    BY <1>1, AirStays DEF Typed
  <2>3. ~Is(m, "open", s) /\ Is(m, "text", s) /\ m.n = After(sent[s]) /\ m.n = sent'[s]
    BY <1>2, <1>3, <1>5 DEF Is
  <2>4. PICK q, r : q = queue /\ r = queue' /\ q \in Seq(Request) /\ r \in Seq(Request) /\ With(q, r, m)
    BY <1>3, <2>2
  <2>5. Places(r, "open", s) = Places(q, "open", s)
    <3>1. Places(r, "open", s) = Places(q, "open", s) \union (IF Is(m, "open", s) THEN {Len(q) + 1} ELSE {})
      BY <2>4, AppendPlaces
    <3> QED BY <2>3, <3>1
  <2>6. SingleOpen(s)' /\ ~OpenUnder(s)'
    BY <2>1, <2>2, <2>4, <2>5 DEF SingleOpen, OpenUnder
  <2>7. Stream(s)'
    <3>1. PICK tip \in Frames :
            /\ Lined(inbox[s], got[s], tip)
            /\ s \in sockets => \E base \in Frames : Carried(s, tip, base) /\ Chain(queue, s, base, sent[s])
      BY <2>1 DEF Stream
    <3>2. \A base : Carried(s, tip, base) => Carried(s, tip, base)'
      BY <2>2 DEF Carried
    <3>3. \A base : Chain(q, s, base, sent[s]) => Chain(r, s, base, m.n)
      BY <2>3, <2>4, ChainAppendText
    <3>4. s \in sockets' => \E base \in Frames : Carried(s, tip, base)' /\ Chain(queue', s, base, sent'[s])
      BY <1>1, <2>3, <2>4, <3>1, <3>2, <3>3 DEF hub
    <3> QED BY <1>1, <3>1, <3>4 DEF Stream, hub
  <2>8. js'[s] # "new"
    BY <1>1, <2>1
  <2> QED BY <2>6, <2>7, <2>8 DEF SocketInv
<1> QED BY <1>4, <1>5

LEMMA AppKeeps ==
  ASSUME Typed, Typed', NEW t \in Sockets, Close(t) \/ CloseSocket(t) \/ Show(t) \/ End(t), NEW s \in Sockets, SocketInv(s)
  PROVE  SocketInv(s)'
<1>0. queue' \in Seq(Request)
  BY DEF Typed
<1>1. CASE Close(t) \/ End(t)
  <2>1. /\ js' = [js EXCEPT ![t] = "closed"]
        /\ UNCHANGED <<link, entry, chan, pending, sent, up, assemblies, hub, down>>
    BY <1>1 DEF Close, End
  <2>2. js'[s] \in {js[s], "closed"}
    BY <2>1 DEF Typed
  <2> QED BY <1>0, <2>1, <2>2, SocketKeeps DEF hub, up, Fresh
<1>2. CASE CloseSocket(t)
  <2>1. UNCHANGED <<link, js, chan, pending, sent, bulk, streak, wire, assemblies, hub, down>>
    BY <1>2 DEF CloseSocket
  <2>2. PICK m \in Request : With(queue, queue', m) /\ m.kind = "close"
    <3>1. 1 \in 1..Fragments
      BY Caps
    <3>2. Send("close", t, 0, 1) /\ [kind |-> "close", key |-> t, n |-> 0, size |-> 1] \in Request
      BY <1>2, <3>1, FramesAfter, RequestMakes DEF CloseSocket
    <3> QED BY <3>2, SendIsWith
  <2>3. ~Is(m, "open", s) /\ ~Is(m, "text", s)
    BY <2>2 DEF Is
  <2> QED BY <1>0, <2>1, <2>2, <2>3, SocketKeeps DEF hub, Fresh
<1>3. CASE Show(t)
  <2>1. /\ chan[t] # <<>> /\ UNCHANGED <<link, entry, pending, sent, up, assemblies, hub, down>>
        /\ \E v \in {"closed", "open"} : js' = [js EXCEPT ![t] = v]
        /\ chan' = [chan EXCEPT ![t] = Tail(chan[t])]
    BY <1>3 DEF Show
  <2>2. js'[s] = "new" => js[s] = "new"
    BY <2>1 DEF Typed
  <2>3. Fresh(s) => js'[s] # "open" /\ chan'[s] = <<>>
    <3>1. Fresh(s) => s # t /\ js[s] # "open" /\ chan[s] = <<>>
      BY <2>1 DEF Fresh
    <3>2. s # t => js'[s] = js[s] /\ chan'[s] = chan[s]
      BY <2>1 DEF Typed
    <3> QED BY <3>1, <3>2
  <2> QED BY <1>0, <2>1, <2>2, <2>3, SocketKeeps DEF hub, up, Fresh
<1> QED BY <1>1, <1>2, <1>3

LEMMA RequestKeeps ==
  ASSUME Typed, Typed', NEW t \in Requests, Ask(t) \/ Finish(t) \/ Reply(t), NEW s \in Sockets, SocketInv(s)
  PROVE  SocketInv(s)'
<1>0. queue' \in Seq(Request) /\ s # t
  BY Caps DEF Typed
<1>1. CASE Ask(t)
  <2>1. UNCHANGED <<link, js, entry, chan, sent, bulk, streak, wire, assemblies, hub, down>>
    BY <1>1 DEF Ask
  <2>2. PICK m \in Request : With(queue, queue', m) /\ m.kind = "http"
    <3>1. PICK size \in 1..Fragments : Send("http", t, 0, size)
      BY <1>1 DEF Ask
    <3> QED BY <3>1, RequestMakes, SendIsWith
  <2>3. ~Is(m, "open", s) /\ ~Is(m, "text", s)
    BY <2>2 DEF Is
  <2> QED BY <1>0, <2>1, <2>2, <2>3, SocketKeeps DEF hub, Fresh
<1>2. CASE Finish(t)
  <2>1. UNCHANGED <<link, app, up, assemblies, sockets, inbox, pump, got, down>>
    BY <1>2 DEF Finish
  <2> QED BY <1>0, <2>1, SocketKeeps DEF app, up, Fresh
<1>3. CASE Reply(t)
  <2>1. UNCHANGED <<link, app, up, assemblies, sockets, inbox, pump, got>> /\ Answer("http", t)
    BY <1>3 DEF Reply
  <2>2. \A x \in 1..Len(down') : down'[x].key = t \/ \E y \in 1..Len(down) : down'[x] = down[y]
    BY <2>1, AnswerFacts, ResponseMakes
  <2>3. Fresh(s) => \A x \in 1..Len(down') : down'[x].key # s
    BY <1>0, <2>2 DEF Fresh
  <2> QED BY <1>0, <2>1, <2>3, SocketKeeps DEF app, up, Fresh
<1> QED BY <1>1, <1>2, <1>3

LEMMA HandOnKeeps ==
  ASSUME Typed, Typed', NEW t \in Sockets, HandOn(t), NEW s \in Sockets, SocketInv(s)
  PROVE  SocketInv(s)' /\ (s = t => got'[s] = After(got[s]))
<1>1. /\ pump[t] = "open" /\ inbox[t] # <<>>
      /\ got' = [got EXCEPT ![t] = Head(inbox[t])] /\ inbox' = [inbox EXCEPT ![t] = Tail(inbox[t])]
      /\ UNCHANGED <<link, app, up, assemblies, sockets, pump, task, down>>
  BY DEF HandOn
<1>2. queue' \in Seq(Request)
  BY DEF Typed
<1>3. CASE s # t
  <2>1. got'[s] = got[s] /\ inbox'[s] = inbox[s]
    BY <1>1, <1>3 DEF Typed
  <2> QED BY <1>1, <1>2, <1>3, <2>1, SocketKeeps DEF app, up, Fresh
<1>4. CASE s = t
  <2>1. got'[s] = Head(inbox[s]) /\ inbox'[s] = Tail(inbox[s]) /\ inbox[s] \in Seq(Frames) /\ inbox[s] # <<>>
    BY <1>1, <1>4 DEF Typed
  <2>2. js[s] # "new" /\ ~OpenUnder(s)
    BY <1>1, <1>4 DEF SocketInv, Fresh
  <2>3. InAir' = InAir /\ queue' = queue
    BY <1>1, AirStays DEF up
  <2>4. ~OpenUnder(s)' /\ SingleOpen(s)' /\ js'[s] # "new"
    BY <1>1, <2>2, <2>3 DEF SocketInv, OpenUnder, SingleOpen, app
  <2>5. PICK tip \in Frames :
          /\ Lined(inbox[s], got[s], tip)
          /\ s \in sockets => \E base \in Frames : Carried(s, tip, base) /\ Chain(queue, s, base, sent[s])
    BY DEF SocketInv, Stream
  <2>6. Head(inbox[s]) = After(got[s]) /\ Lined(Tail(inbox[s]), Head(inbox[s]), tip)
    BY <2>1, <2>5, LinedLess
  <2>7. \A base : Carried(s, tip, base) => Carried(s, tip, base)'
    BY <2>3 DEF Carried
  <2>8. Stream(s)'
    BY <1>1, <2>1, <2>3, <2>5, <2>6, <2>7 DEF Stream, app
  <2> QED BY <2>1, <2>4, <2>6, <2>8 DEF SocketInv
<1> QED BY <1>3, <1>4

LEMMA HubKeeps ==
  ASSUME Typed, Typed', NEW t \in Sockets, Connect(t) \/ Produce(t) \/ SendOut(t) \/ Stop(t) \/ Closed(t),
         NEW s \in Sockets, SocketInv(s)
  PROVE  SocketInv(s)'
<1>1. UNCHANGED <<link, app, up, assemblies, inbox, task, got>>
  BY DEF Connect, Produce, SendOut, Stop, Closed
<1>2. pump[t] # "none" /\ (\E step : pump' = [pump EXCEPT ![t] = step]) /\ (s \in sockets' => s \in sockets)
  BY DEF Connect, Produce, SendOut, Stop, Closed, Turn
<1>3. \A x \in 1..Len(down') : down'[x].key = t \/ \E y \in 1..Len(down) : down'[x] = down[y]
  <2>1. CASE down' = down
    BY <2>1
  <2>2. CASE \E kind \in {"opened", "text", "closed"} : Answer(kind, t)
    BY <2>2, AnswerFacts, ResponseMakes
  <2>3. CASE TryError(t)
    BY <2>3, TryErrorFacts
  <2> QED BY <2>1, <2>2, <2>3 DEF Connect, Produce, SendOut, Stop, Closed
<1>4. queue' \in Seq(Request)
  BY DEF Typed
<1>5. Fresh(s) => pump'[s] = "none" /\ \A x \in 1..Len(down') : down'[x].key # s
  <2>1. Fresh(s) => s # t
    BY <1>2 DEF Fresh
  <2>2. s # t => pump'[s] = pump[s]
    BY <1>2 DEF Typed
  <2> QED BY <1>3, <2>1, <2>2 DEF Fresh
<1> QED BY <1>1, <1>2, <1>4, <1>5, SocketKeeps DEF app, up, Fresh

LEMMA DispatchKeeps ==
  ASSUME Typed, Typed', Dispatch, NEW s \in Sockets, SocketInv(s)
  PROVE  SocketInv(s)'
<1>1. /\ down # <<>> /\ down' = Tail(down) /\ UNCHANGED <<link, js, sent, up, assemblies, hub>>
  BY DEF Dispatch
<1>2. down \in Seq(Response) /\ queue' \in Seq(Request)
  BY DEF Typed
<1>3. /\ Len(down) \in Nat /\ Len(down) > 0 /\ Head(down) = down[1] /\ Len(down') = Len(down) - 1
      /\ \A x \in 1..Len(down) - 1 : down'[x] = down[x + 1]
  BY <1>1, <1>2
<1>4. Fresh(s) => Head(down).key # s
  BY <1>3 DEF Fresh
<1>5. Fresh(s) => chan'[s] = <<>>
  <2>1. chan' = chan \/ chan' = [chan EXCEPT ![Head(down).key] = Append(chan[Head(down).key], Head(down))]
    BY DEF Dispatch
  <2> QED BY <1>4, <2>1 DEF Fresh, Typed
<1>6. Fresh(s) => \A x \in 1..Len(down') : down'[x].key # s
  <2>1. \A x \in 1..Len(down') : x + 1 \in 1..Len(down) /\ down'[x] = down[x + 1]
    BY <1>3
  <2> QED BY <2>1 DEF Fresh
<1> QED BY <1>1, <1>2, <1>5, <1>6, SocketKeeps DEF hub, up, Fresh

-----------------------------------------------------------------------------
(* A message that leaves the queue leaves those of other kinds and keys.   *)
LEMMA RemoveQuiet ==
  ASSUME NEW q \in Seq(Request), NEW r \in Seq(Request), NEW p \in 1..Len(q), Without(q, r, p),
         NEW kind, NEW s, ~Is(q[p], kind, s)
  PROVE  /\ Places(q, kind, s) = {} <=> Places(r, kind, s) = {}
         /\ (\A i, j \in Places(q, kind, s) : i = j) => \A i, j \in Places(r, kind, s) : i = j
<1>1. /\ \A x \in Places(q, kind, s) \ {p} : Shift(p, x) \in Places(r, kind, s)
      /\ \A y \in Places(r, kind, s) : Lift(p, y) \in Places(q, kind, s)
  BY RemovePlaces
<1>2. p \notin Places(q, kind, s)
  BY DEF Places
<1>3. \A y \in Places(r, kind, s) : Shift(p, Lift(p, y)) = y
  <2>1. p \in Nat \ {0} /\ Places(r, kind, s) \subseteq Nat \ {0}
    BY DEF Places
  <2> QED BY <2>1, ShiftFacts
<1>4. ASSUME \A i, j \in Places(q, kind, s) : i = j, NEW i \in Places(r, kind, s), NEW j \in Places(r, kind, s)
      PROVE  i = j
  <2>1. Lift(p, i) = Lift(p, j)
    BY <1>1, <1>4
  <2> QED BY <1>3, <2>1
<1> QED BY <1>1, <1>2, <1>4

LEMMA WriterKeeps ==
  ASSUME Typed, Flying, WriterStep, NEW s \in Sockets, SocketInv(s)
  PROVE  SocketInv(s)'
<1>1. UNCHANGED <<link, app, assemblies, hub, down>>
  BY DEF WriterStep
<1>2. /\ Typed'
      /\ \/ queue' = queue /\ InAir' = InAir
         \/ \E i \in 1..Len(queue) :
              /\ Without(queue, queue', i) /\ FirstOfKey(queue, i) /\ InAir' = InAir \union {queue[i]}
              /\ \A m \in InAir : m.key # queue[i].key
  BY WriterMoves
<1>3. CASE queue' = queue /\ InAir' = InAir
  <2>1. (OpenUnder(s)' => OpenUnder(s)) /\ SingleOpen(s)'
    BY <1>3 DEF SocketInv, OpenUnder, SingleOpen
  <2>2. Fresh(s) => /\ js'[s] # "open" /\ pump'[s] = "none" /\ chan'[s] = <<>>
                    /\ \A x \in 1..Len(down') : down'[x].key # s
    BY <1>1 DEF Fresh, app, hub
  <2> QED BY <1>1, <1>3, <2>1, <2>2, SocketStays DEF app, hub
<1>4. ASSUME NEW i \in 1..Len(queue), Without(queue, queue', i), FirstOfKey(queue, i), InAir' = InAir \union {queue[i]},
             \A m \in InAir : m.key # queue[i].key
      PROVE  SocketInv(s)'
  <2>1. PICK q, r, c : q = queue /\ r = queue' /\ c = queue[i] /\ q \in Seq(Request) /\ r \in Seq(Request) /\ i \in 1..Len(q)
                       /\ Without(q, r, i) /\ FirstOfKey(q, i)
    BY <1>2, <1>4 DEF Typed
  <2>2. c = q[i] /\ InAir' = InAir \union {c} /\ \A m \in InAir : m.key # c.key
    BY <1>4, <2>1
  <2>3. \A kind : ~Is(c, kind, s) =>
           /\ Places(q, kind, s) = {} <=> Places(r, kind, s) = {}
           /\ (\A x, y \in Places(q, kind, s) : x = y) => \A x, y \in Places(r, kind, s) : x = y
    BY <2>1, <2>2, RemoveQuiet
  <2>4. CASE Is(c, "text", s)
    <3>1. ~Is(c, "open", s) /\ i \in Places(q, "text", s)
      BY <2>1, <2>2, <2>4 DEF Is, Places
    <3>2. js[s] # "new" /\ ~OpenUnder(s)
      BY <2>1, <3>1 DEF SocketInv, Fresh
    <3>3. ~OpenUnder(s)' /\ SingleOpen(s)' /\ js'[s] # "new"
      BY <1>1, <2>1, <2>2, <2>3, <3>1, <3>2 DEF SocketInv, OpenUnder, SingleOpen, app
    <3>4. PICK tip \in Frames :
            /\ Lined(inbox[s], got[s], tip)
            /\ s \in sockets => \E base \in Frames : Carried(s, tip, base) /\ Chain(queue, s, base, sent[s])
      BY DEF SocketInv, Stream
    <3>5. ASSUME NEW base \in Frames, Carried(s, tip, base), Chain(queue, s, base, sent[s])
          PROVE  c.n \in Frames /\ Carried(s, tip, c.n)' /\ Chain(queue', s, c.n, sent'[s])
      <4>1. c.n = After(base) /\ Chain(r, s, c.n, sent[s])
        BY <2>1, <2>2, <2>4, <3>5, ChainRemoveFirst
      <4>2. \A m \in InAir : ~Is(m, "text", s)
        BY <2>2, <2>4 DEF Is
      <4>3. base = tip
        BY <3>5, <4>2 DEF Carried
      <4>4. Carried(s, tip, c.n)'
        BY <2>2, <2>4, <4>1, <4>2, <4>3 DEF Carried
      <4> QED BY <1>1, <2>1, <3>5, <4>1, <4>4, FramesAfter DEF app
    <3>6. Stream(s)'
      BY <1>1, <3>4, <3>5 DEF Stream, hub
    <3> QED BY <3>3, <3>6 DEF SocketInv
  <2>5. CASE ~Is(c, "text", s)
    <3>1. OpenUnder(s)' => OpenUnder(s)
      <4>1. CASE Is(c, "open", s)
        <5>1. i \in Places(q, "open", s)
          BY <2>1, <2>2, <4>1 DEF Places
        <5> QED BY <2>1, <5>1 DEF OpenUnder
      <4>2. CASE ~Is(c, "open", s)
        BY <2>1, <2>2, <2>3, <4>2 DEF OpenUnder
      <4> QED BY <4>1, <4>2
    <3>2. SingleOpen(s)'
      <4>1. CASE Is(c, "open", s)
        <5>1. i \in Places(q, "open", s) /\ \A x, y \in Places(q, "open", s) : x = y
          BY <2>1, <2>2, <4>1 DEF Places, SocketInv, SingleOpen
        <5>2. Places(r, "open", s) = {}
          <6>1. \A y \in Places(r, "open", s) : Lift(i, y) \in Places(q, "open", s) \ {i}
            BY <2>1, RemovePlaces
          <6> QED BY <5>1, <6>1
        <5> QED BY <2>1, <5>2 DEF SingleOpen
      <4>2. CASE ~Is(c, "open", s)
        BY <2>1, <2>2, <2>3, <4>2 DEF SocketInv, SingleOpen
      <4> QED BY <4>1, <4>2
    <3>3. Places(queue, "text", s) = {} => Places(queue', "text", s) = {}
      BY <2>1, <2>3, <2>5
    <3>4. \A m : Is(m, "text", s) => (m \in InAir' <=> m \in InAir)
      BY <2>2, <2>5
    <3>5. \A from, to : Chain(queue, s, from, to) => Chain(queue', s, from, to)
      BY <2>1, <2>2, <2>5, ChainRemoveOther
    <3>6. Fresh(s) => /\ js'[s] # "open" /\ pump'[s] = "none" /\ chan'[s] = <<>>
                      /\ \A x \in 1..Len(down') : down'[x].key # s
      BY <1>1 DEF Fresh, app, hub
    <3> QED BY <1>1, <3>1, <3>2, <3>3, <3>4, <3>5, <3>6, SocketStays DEF app, hub
  <2> QED BY <2>4, <2>5
<1> QED BY <1>2, <1>3, <1>4

LEMMA ReceiveKeeps ==
  ASSUME Typed, Flying, Receive, NEW s \in Sockets, SocketInv(s)
  PROVE  SocketInv(s)' /\ Len(inbox'[s]) >= Len(inbox[s])
<1>1. /\ Typed' /\ UNCHANGED <<link, app, queue, got>>
      /\ \/ InAir' = InAir /\ UNCHANGED <<sockets, inbox, pump, task, down>>
         \/ \E m \in InAir : /\ Serve(m) /\ InAir' = InAir \ {m}
                             /\ \A o \in InAir \ {m} : o.key # m.key
  BY ReceiveMoves
<1>2. Len(inbox[s]) \in Nat /\ inbox[s] \in Seq(Frames)
  BY DEF Typed
<1>3. CASE InAir' = InAir /\ UNCHANGED <<sockets, inbox, pump, task, down>>
  <2>1. (OpenUnder(s)' => OpenUnder(s)) /\ SingleOpen(s)'
    BY <1>1, <1>3 DEF SocketInv, OpenUnder, SingleOpen
  <2>2. Fresh(s) => /\ js'[s] # "open" /\ pump'[s] = "none" /\ chan'[s] = <<>>
                    /\ \A x \in 1..Len(down') : down'[x].key # s
    BY <1>1, <1>3 DEF Fresh, app
  <2>3. SocketInv(s)'
    BY <1>1, <1>3, <2>1, <2>2, SocketStays DEF app
  <2> QED BY <1>2, <1>3, <2>3
<1>4. ASSUME NEW m \in InAir, Serve(m), InAir' = InAir \ {m}, \A o \in InAir \ {m} : o.key # m.key
      PROVE  SocketInv(s)' /\ Len(inbox'[s]) >= Len(inbox[s])
  <2>1. /\ m \in Request /\ (m.kind = "http" => m.key \in Requests)
        /\ (m.kind # "http" => m.key \in Sockets /\ m.n \in Frames)
    BY RequestShapes DEF InAir
  <2>2. down' = down \/ TryError(m.key)
    BY <1>4 DEF Serve
  <2>3. \A x \in 1..Len(down') : down'[x].key = m.key \/ \E y \in 1..Len(down) : down'[x] = down[y]
    <3>1. CASE down' = down
      BY <3>1
    <3>2. CASE TryError(m.key)
      <4>1. m.key \in Sockets \union Requests
        BY <2>1
      <4> QED BY <3>2, <4>1, TryErrorFacts
    <3> QED BY <2>2, <3>1, <3>2
  <2>4. ASSUME ~Is(m, "open", s), ~Is(m, "text", s), inbox'[s] = inbox[s], s \in sockets' => s \in sockets,
               Fresh(s) => pump'[s] = "none" /\ \A x \in 1..Len(down') : down'[x].key # s
        PROVE  SocketInv(s)' /\ Len(inbox'[s]) >= Len(inbox[s])
    <3>1. (OpenUnder(s)' => OpenUnder(s)) /\ SingleOpen(s)'
      BY <1>1, <1>4 DEF SocketInv, OpenUnder, SingleOpen
    <3>2. \A o : Is(o, "text", s) => (o \in InAir' <=> o \in InAir)
      BY <1>4, <2>4
    <3>3. Fresh(s) => /\ js'[s] # "open" /\ pump'[s] = "none" /\ chan'[s] = <<>>
                      /\ \A x \in 1..Len(down') : down'[x].key # s
      BY <1>1, <2>4 DEF Fresh, app
    <3>4. SocketInv(s)'
      BY <1>1, <2>4, <3>1, <3>2, <3>3, SocketStays DEF app
    <3> QED BY <1>2, <2>4, <3>4
  <2>5. CASE m.key # s
    <3>1. ~Is(m, "open", s) /\ ~Is(m, "text", s)
      BY <2>5 DEF Is
    <3>2. inbox'[s] = inbox[s] /\ pump'[s] = pump[s] /\ (s \in sockets' => s \in sockets)
      BY <1>4, <2>1, <2>5 DEF Serve, Backpressured, Typed
    <3>3. Fresh(s) => pump'[s] = "none" /\ \A x \in 1..Len(down') : down'[x].key # s
      BY <2>3, <2>5, <3>2 DEF Fresh
    <3> QED BY <2>4, <3>1, <3>2, <3>3
  <2>6. CASE m.key = s /\ m.kind = "close"
    <3>1. ~Is(m, "open", s) /\ ~Is(m, "text", s)
      BY <2>6 DEF Is
    <3>2. sockets' = sockets \ {s} /\ UNCHANGED <<inbox, pump, down>>
      BY <1>4, <2>6 DEF Serve
    <3>3. inbox'[s] = inbox[s] /\ (s \in sockets' => s \in sockets)
      BY <3>2
    <3>4. Fresh(s) => pump'[s] = "none" /\ \A x \in 1..Len(down') : down'[x].key # s
      BY <3>2 DEF Fresh
    <3> QED BY <2>4, <3>1, <3>3, <3>4
  <2>7. \A o \in InAir' : ~Is(o, "open", s) \/ m.key # s
    BY <1>4 DEF Is
  <2>8. \A o \in InAir' : ~Is(o, "text", s) \/ m.key # s
    BY <1>4 DEF Is
  <2>9. CASE m.key = s /\ m.kind = "open"
    <3>1. Is(m, "open", s) /\ inbox' = inbox
      BY <1>4, <2>9 DEF Is, Serve
    <3>2. OpenUnder(s) /\ Fresh(s) /\ js[s] # "new" /\ Places(queue, "open", s) = {}
      BY <3>1 DEF SocketInv, OpenUnder, SingleOpen
    <3>3. ~OpenUnder(s)' /\ SingleOpen(s)' /\ js'[s] # "new"
      BY <1>1, <2>7, <2>9, <3>2 DEF OpenUnder, SingleOpen, app
    <3>4. Stream(s)'
      <4>1. PICK tip \in Frames : tip = got[s] /\ tip = sent[s]
        BY <3>2 DEF Fresh, Typed
      <4>2. inbox'[s] = <<>> /\ got'[s] = tip /\ sent'[s] = tip /\ Places(queue', "text", s) = {}
        BY <1>1, <3>1, <3>2, <4>1 DEF Fresh, app
      <4>3. Lined(inbox'[s], got'[s], tip)
        <5>1. Len(inbox'[s]) = 0
          BY <4>2
        <5> QED BY <4>2, <5>1 DEF Lined
      <4>4. Carried(s, tip, tip)'
        BY <2>8, <2>9 DEF Carried
      <4>5. Chain(queue', s, tip, sent'[s])
        BY <4>2 DEF Chain
      <4> QED BY <4>3, <4>4, <4>5 DEF Stream
    <3> QED BY <1>2, <3>1, <3>3, <3>4 DEF SocketInv
  <2>10. CASE m.key = s /\ m.kind = "text"
    <3>1. Is(m, "text", s) /\ m.n \in Frames
      BY <2>1, <2>10 DEF Is
    <3>2. js[s] # "new" /\ ~OpenUnder(s)
      BY <3>1 DEF SocketInv, Fresh
    <3>3. ~OpenUnder(s)' /\ SingleOpen(s)' /\ js'[s] # "new"
      BY <1>1, <1>4, <3>2 DEF SocketInv, OpenUnder, SingleOpen, app
    <3>4. PICK tip \in Frames :
            /\ Lined(inbox[s], got[s], tip)
            /\ s \in sockets => \E base \in Frames : Carried(s, tip, base) /\ Chain(queue, s, base, sent[s])
      BY DEF SocketInv, Stream
    <3>5. CASE s \in sockets /\ inbox' = [inbox EXCEPT ![s] = Append(inbox[s], m.n)] /\ sockets' = sockets
      <4>1. inbox'[s] = Append(inbox[s], m.n)
        BY <3>5 DEF Typed
      <4>2. PICK base \in Frames : Carried(s, tip, base) /\ Chain(queue, s, base, sent[s])
        BY <3>4, <3>5
      <4>3. m.n = After(tip) /\ m.n = base
        BY <3>1, <4>2 DEF Carried
      <4>4. Lined(inbox'[s], got'[s], m.n)
        BY <1>1, <1>2, <3>1, <3>4, <4>1, <4>3, LinedMore
      <4>5. Carried(s, m.n, m.n)'
        BY <2>8, <2>10 DEF Carried
      <4>6. Chain(queue', s, m.n, sent'[s])
        BY <1>1, <4>2, <4>3 DEF app
      <4>7. Stream(s)'
        BY <3>1, <4>4, <4>5, <4>6 DEF Stream
      <4>8. Len(inbox'[s]) = Len(inbox[s]) + 1
        BY <1>2, <3>1, <4>1
      <4> QED BY <1>2, <3>3, <4>7, <4>8 DEF SocketInv
    <3>6. CASE s \notin sockets' /\ inbox' = inbox
      <4>1. Stream(s)'
        BY <1>1, <3>4, <3>6 DEF Stream
      <4> QED BY <1>2, <3>3, <3>6, <4>1 DEF SocketInv
    <3> QED BY <1>4, <2>10, <3>5, <3>6 DEF Serve, Backpressured
  <2> QED BY <2>1, <2>5, <2>6, <2>9, <2>10, RequestShapes, Caps
<1> QED BY <1>1, <1>3, <1>4

-----------------------------------------------------------------------------
(* The channel's invariant; nothing is said of sockets once it is down.    *)
ChannelInv == Typed /\ Flying /\ Assembled /\ (link = "up" => \A s \in Sockets : SocketInv(s))

LEMMA InitChannelInv == ChannelInit => ChannelInv
<1> SUFFICES ASSUME ChannelInit PROVE ChannelInv
  OBVIOUS
<1>1. Typed
  BY InitTyped
<1>2. bulk = NoBulk /\ wire = <<>> /\ assemblies = {} /\ queue = <<>> /\ down = <<>>
  BY DEF ChannelInit
<1>3. Flying /\ Assembled /\ InAir = {}
  BY <1>2 DEF Flying, Assembled, InAir, Aboard
<1>4. ASSUME NEW s \in Sockets PROVE SocketInv(s)
  <2>1. Len(queue) = 0 /\ Len(down) = 0
    BY <1>2
  <2>2. \A kind : Places(queue, kind, s) = {}
    BY <2>1 DEF Places
  <2>3. /\ js[s] = "new" /\ s \notin sockets /\ pump[s] = "none" /\ inbox[s] = <<>> /\ chan[s] = <<>>
        /\ got[s] = 0 /\ sent[s] = 0
    BY DEF ChannelInit
  <2>4. Fresh(s) /\ ~OpenUnder(s) /\ SingleOpen(s)
    BY <1>3, <2>1, <2>2, <2>3 DEF Fresh, OpenUnder, SingleOpen
  <2>5. Stream(s)
    <3>1. Len(inbox[s]) = 0
      BY <2>3
    <3>2. Lined(inbox[s], got[s], 0)
      BY <2>3, <3>1 DEF Lined
    <3> QED BY <2>3, <3>2, FramesAfter DEF Stream
  <2> QED BY <2>4, <2>5 DEF SocketInv
<1> QED BY <1>1, <1>3, <1>4 DEF ChannelInv

(* A step of the channel, for a socket: what is not handed on stays.       *)
LEMMA NextChannel ==
  ASSUME ChannelInv, [ChannelNext]_channelVars
  PROVE  /\ ChannelInv'
         /\ link' = "up" => \A s \in Sockets : Len(inbox'[s]) < Len(inbox[s]) => got'[s] = After(got[s])
<1>1. Typed /\ Flying /\ Assembled
  BY DEF ChannelInv
<1>2. \A s \in Sockets : Len(inbox[s]) \in Nat
  BY <1>1 DEF Typed
<1>3. ASSUME NEW t \in Sockets, Open(t) \/ Write(t) \/ Close(t) \/ CloseSocket(t) \/ Show(t) \/ End(t)
      PROVE  Typed' /\ UNCHANGED <<link, bulk, wire, assemblies, inbox>>
             /\ \A s \in Sockets : SocketInv(s) => SocketInv(s)'
  <2>1. Typed'
    BY <1>1, <1>3, AppTyped
  <2>2. UNCHANGED <<link, bulk, wire, assemblies, inbox>>
    BY <1>3 DEF Open, Write, Close, CloseSocket, Show, End, up, hub
  <2>3. ASSUME NEW s \in Sockets, SocketInv(s) PROVE SocketInv(s)'
    <3>1. CASE Open(t)
      BY <1>1, <2>3, <3>1, OpenKeeps
    <3>2. CASE Write(t)
      BY <1>1, <2>3, <3>2, WriteKeeps
    <3>3. CASE Close(t) \/ CloseSocket(t) \/ Show(t) \/ End(t)
      BY <1>1, <2>1, <2>3, <3>3, AppKeeps
    <3> QED BY <1>3, <3>1, <3>2, <3>3
  <2> QED BY <2>1, <2>2, <2>3
<1>4. ASSUME NEW t \in Sockets, Connect(t) \/ Produce(t) \/ SendOut(t) \/ Stop(t) \/ Closed(t)
      PROVE  Typed' /\ UNCHANGED <<link, bulk, wire, assemblies, inbox>>
             /\ \A s \in Sockets : SocketInv(s) => SocketInv(s)'
  <2>1. Typed'
    BY <1>1, <1>4, HubTyped
  <2>2. UNCHANGED <<link, bulk, wire, assemblies, inbox>>
    BY <1>4 DEF Connect, Produce, SendOut, Stop, Closed, up
  <2>3. ASSUME NEW s \in Sockets, SocketInv(s) PROVE SocketInv(s)'
    BY <1>1, <1>4, <2>1, <2>3, HubKeeps
  <2> QED BY <2>1, <2>2, <2>3
<1>5. ASSUME NEW t \in Requests, Ask(t) \/ Finish(t) \/ Reply(t)
      PROVE  Typed' /\ UNCHANGED <<link, bulk, wire, assemblies, inbox>>
             /\ \A s \in Sockets : SocketInv(s) => SocketInv(s)'
  <2>1. Typed'
    BY <1>1, <1>5, RequestTyped
  <2>2. UNCHANGED <<link, bulk, wire, assemblies, inbox>>
    BY <1>5 DEF Ask, Finish, Reply, up, hub
  <2>3. ASSUME NEW s \in Sockets, SocketInv(s) PROVE SocketInv(s)'
    BY <1>1, <1>5, <2>1, <2>3, RequestKeeps
  <2> QED BY <2>1, <2>2, <2>3
<1>6. ASSUME Dispatch
      PROVE  Typed' /\ UNCHANGED <<link, bulk, wire, assemblies, inbox>>
             /\ \A s \in Sockets : SocketInv(s) => SocketInv(s)'
  <2>1. Typed'
    BY <1>1, <1>6, DispatchTyped
  <2>2. UNCHANGED <<link, bulk, wire, assemblies, inbox>>
    BY <1>6 DEF Dispatch, up, hub
  <2>3. ASSUME NEW s \in Sockets, SocketInv(s) PROVE SocketInv(s)'
    BY <1>1, <1>6, <2>1, <2>3, DispatchKeeps
  <2> QED BY <2>1, <2>2, <2>3
<1>7. ASSUME Typed', UNCHANGED <<link, bulk, wire, assemblies, inbox>>, \A s \in Sockets : SocketInv(s) => SocketInv(s)'
      PROVE  /\ ChannelInv'
             /\ link' = "up" => \A s \in Sockets : Len(inbox'[s]) < Len(inbox[s]) => got'[s] = After(got[s])
  <2>1. Flying' /\ Assembled'
    BY <1>1, <1>7, AirStays
  <2>2. ChannelInv'
    BY <1>7, <2>1 DEF ChannelInv
  <2>3. \A s \in Sockets : ~(Len(inbox'[s]) < Len(inbox[s]))
    BY <1>2, <1>7
  <2> QED BY <2>2, <2>3
<1>8. ASSUME NEW t \in Sockets, HandOn(t)
      PROVE  /\ ChannelInv'
             /\ link' = "up" => \A s \in Sockets : Len(inbox'[s]) < Len(inbox[s]) => got'[s] = After(got[s])
  <2>1. /\ Typed' /\ link = "up" /\ UNCHANGED <<link, bulk, wire, assemblies>>
        /\ \A s \in Sockets \ {t} : inbox'[s] = inbox[s]
    <3>1. link = "up" /\ UNCHANGED <<link, bulk, wire, assemblies>> /\ inbox' = [inbox EXCEPT ![t] = Tail(inbox[t])]
      BY <1>8 DEF HandOn, up
    <3> QED BY <1>1, <1>8, <3>1, HubTyped DEF Typed
  <2>2. Flying' /\ Assembled'
    BY <1>1, <2>1, AirStays
  <2>3. \A s \in Sockets : SocketInv(s)' /\ (s = t => got'[s] = After(got[s]))
    BY <1>1, <1>8, <2>1, HandOnKeeps DEF ChannelInv
  <2>4. ChannelInv'
    BY <2>1, <2>2, <2>3 DEF ChannelInv
  <2>5. \A s \in Sockets : Len(inbox'[s]) < Len(inbox[s]) => s = t
    BY <1>2, <2>1
  <2> QED BY <2>3, <2>4, <2>5
<1>9. CASE WriterStep
  <2>1. Typed' /\ Flying' /\ link = "up" /\ link' = link /\ inbox' = inbox
    BY <1>1, <1>9, WriterMoves DEF WriterStep, hub
  <2>2. Assembled'
    BY <1>1, <1>9, WriterAssembled
  <2>3. \A s \in Sockets : SocketInv(s)'
    BY <1>1, <1>9, <2>1, WriterKeeps DEF ChannelInv
  <2>4. ChannelInv'
    BY <2>1, <2>2, <2>3 DEF ChannelInv
  <2>5. \A s \in Sockets : ~(Len(inbox'[s]) < Len(inbox[s]))
    BY <1>2, <2>1
  <2> QED BY <2>4, <2>5
<1>10. CASE Receive
  <2>1. Typed' /\ Flying' /\ link = "up"
    BY <1>1, <1>10, ReceiveMoves
  <2>2. Assembled'
    BY <1>1, <1>10, ReceiveAssembled
  <2>3. \A s \in Sockets : SocketInv(s)' /\ Len(inbox'[s]) >= Len(inbox[s])
    BY <1>1, <1>10, <2>1, ReceiveKeeps DEF ChannelInv
  <2>4. ChannelInv'
    BY <2>1, <2>2, <2>3 DEF ChannelInv
  <2>5. \A s \in Sockets : ~(Len(inbox'[s]) < Len(inbox[s]))
    <3>1. \A s \in Sockets : Len(inbox'[s]) \in Nat
      BY <2>1 DEF Typed
    <3> QED BY <1>2, <2>3, <3>1
  <2> QED BY <2>4, <2>5
<1>11. CASE Fail
  <2>1. Typed' /\ link' = "down"
    BY <1>1, <1>11, FailTyped DEF Fail
  <2>2. Flying' /\ Assembled'
    BY <1>11 DEF Fail, Flying, Assembled
  <2> QED BY <2>1, <2>2 DEF ChannelInv
<1>12. CASE UNCHANGED channelVars
  <2>1. UNCHANGED <<link, app, up, assemblies, hub, down>>
    BY <1>12 DEF channelVars
  <2>2. /\ UNCHANGED <<link, bulk, wire, assemblies, inbox, queue, got, sent, sockets, js, pump, chan, down>>
        /\ UNCHANGED <<entry, pending, streak, task>>
    BY <2>1 DEF app, up, hub
  <2>3. Typed' /\ queue' \in Seq(Request)
    BY <1>1, <2>2 DEF Typed
  <2>4. ASSUME NEW s \in Sockets, SocketInv(s) PROVE SocketInv(s)'
    BY <1>1, <2>2, <2>3, <2>4, SocketKeeps DEF Fresh
  <2> QED BY <1>7, <2>2, <2>3, <2>4
<1>13. CASE \E s \in Sockets : SocketStep(s)
  BY <1>3, <1>4, <1>7, <1>8, <1>13 DEF SocketStep
<1>14. CASE \E r \in Requests : RequestStep(r)
  BY <1>5, <1>7, <1>11, <1>14 DEF RequestStep, TimeOut
<1> QED BY <1>6, <1>7, <1>9, <1>10, <1>11, <1>12, <1>13, <1>14 DEF ChannelNext, Lose

(* The writer, the records under way, the assemblies and the sockets of    *)
(* both ends stay in step (outbound.rs Writer::run, lib.rs decode).        *)
THEOREM ChannelInvariant == ChannelSpec => []ChannelInv
BY InitChannelInv, NextChannel, PTL DEF ChannelSpec

(* Every variable keeps its type, and no queue grows past its limit.       *)
THEOREM ChannelTypes == ChannelSpec => []ChannelTypeOK
<1>1. ChannelInv => ChannelTypeOK
  BY TypedIsTypes DEF ChannelInv
<1> QED BY <1>1, ChannelInvariant, PTL

(* Whatever overtakes what, is dropped, closed or refused: the frames of a *)
(* socket reach its terminal in the order they were written, and none is   *)
(* skipped (outbound.rs Writer::run, secure/mod.rs dispatch).              *)
THEOREM FramesInOrder == ChannelSpec => KeysInOrder
<1>1. ChannelInv /\ [ChannelNext]_channelVars =>
        [\A s \in Sockets : link' = "up" /\ Len(inbox'[s]) < Len(inbox[s]) => got'[s] = After(got[s])]_channelVars
  BY NextChannel
<1> QED BY <1>1, ChannelInvariant, PTL DEF ChannelSpec, KeysInOrder

(* The hub can put together every record the writer sends: neither a last  *)
(* part without its beginning nor one assembly too many (lib.rs decode).   *)
THEOREM RecordsDecode == ChannelSpec => []Decodable
<1>1. ChannelInv => Decodable
  BY AssembledDecodes DEF ChannelInv
<1> QED BY <1>1, ChannelInvariant, PTL
=============================================================================
