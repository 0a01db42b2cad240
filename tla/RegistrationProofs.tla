------------------------- MODULE RegistrationProofs -------------------------
(***************************************************************************)
(* What registration promises for any number of people, tokens, machines,  *)
(* hosts, connections and requests: one session per login code, an admin,  *)
(* secrets that stay good and removed machines that stay out.              *)
(***************************************************************************)
EXTENDS Registration, TLAPS

\* A code not used up has been traded for nothing.
CodeInv == \A k \in Codes : sessions[k] <= 1 /\ (codes[k].at # "used" => sessions[k] = 0)

\* Whoever is about to become a plain user has seen another one.
AdminInv ==
  /\ SomeoneIsAdmin
  /\ \A r \in Requests :
       At(r, "counted") => /\ doing[r].role \in {"user", "admin"}
                           /\ doing[r].role = "user" => \E l \in Logins : users[l] # "none"

\* A secret that has been handed out opens its row until that is removed,
\* and no other row comes in its place.
SecretInv ==
  /\ SecretIsKept
  /\ \A m \in removed : ~Verified(m)
  /\ \A r \in Requests :
       doing[r].at \in {"made", "answered", "saved"} =>
         doing[r].id \in removed \/ Verified(doing[r].id)

\* TypeOK, variable by variable, with what a request or a connection is about.
Someone == Logins \union {Nil}
Works ==
  {w \in [at : Steps, who : Someone, item : Codes \union Tokens \union {Nil},
          host : Hosts \union {Nil}, id : Machines \union {Nil},
          role : {"none", "user", "admin"}] :
     /\ w.at \in {"register", "made"} => w.item \in Tokens
     /\ w.at \in {"made", "answered", "saved", "drop", "delete", "ensure"} => w.id \in Machines}
Keys == [at : {"unminted", "fresh", "late", "used"}, user : Someone]
Row == [at : {"none", "row", "hollow"}, user : Someone]
Connection ==
  {c \in [at : {"closed", "sent", "authed", "serving", "ended"}, id : Machines \union {Nil},
          host : Hosts \union {Nil}, user : Someone, late : BOOLEAN] :
     c.at # "closed" => c.id \in Machines /\ c.host \in Hosts}
Host == [config : Machines \union {Nil}, agent : Machines \union {Nil},
         conn : Conns \union {Nil}]

PeopleType == users \in [Logins -> {"none", "user", "admin"}]
KeysType ==
  codes \in [Codes -> Keys] /\ sessions \in [Codes -> Nat] /\ tokens \in [Tokens -> Keys]
RowsType == rows \in [Machines -> Row] /\ removed \subseteq Machines
LiveType == live \in [Machines -> Conns \union {Nil}]
ConnsType == conns \in [Conns -> Connection]
HostsType == hosts \in [Hosts -> Host]
DoingType == doing \in [Requests -> Works]
CountType == count \in [start : 0..MaxStarts, fault : 0..MaxFaults]

Parts == /\ PeopleType /\ KeysType /\ RowsType /\ LiveType /\ ConnsType /\ HostsType
         /\ DoingType /\ CountType

RegistrationInv == Parts /\ CodeInv /\ AdminInv /\ SecretInv /\ RemovedStaysOut

LEMMA TypeParts == Parts => TypeOK
BY DEF TypeOK, Parts, PeopleType, KeysType, RowsType, LiveType, ConnsType, HostsType, DoingType,
       CountType, Works, Keys, Row, Connection, Host, Someone

-----------------------------------------------------------------------------
LEMMA InitRegistrationInv == Init => RegistrationInv
<1> SUFFICES ASSUME Init PROVE RegistrationInv
  OBVIOUS
<1>1. PeopleType /\ KeysType /\ RowsType /\ LiveType /\ HostsType /\ CountType
  BY BoundsAssumption DEF Init, PeopleType, KeysType, RowsType, LiveType, HostsType, CountType,
     NoMachine, NewHost, Keys, Row, Host, Someone
<1>2. CodeInv /\ AdminInv /\ SecretInv /\ RemovedStaysOut
  BY DEF Init, CodeInv, AdminInv, SecretInv, RemovedStaysOut, SomeoneIsAdmin, SecretIsKept,
         At, Idle, NewHost, Closed
<1>3. Closed \in Connection /\ Idle \in Works
  BY DEF Closed, Connection, Idle, Works, Steps, Someone
<1> QED BY <1>1, <1>2, <1>3 DEF RegistrationInv, Parts, Init, ConnsType, DoingType

(* What a request is at next.                                              *)
LEMMA WorkTypes ==
  /\ Idle \in Works
  /\ \A l \in Logins : [Idle EXCEPT !.at = "unknown", !.who = l] \in Works
  /\ \A k \in Codes : [Idle EXCEPT !.at = "redeem", !.item = k] \in Works
  /\ \A t \in Tokens, h \in Hosts :
       [Idle EXCEPT !.at = "register", !.item = t, !.host = h] \in Works
  /\ \A m \in Machines : [Idle EXCEPT !.at = "drop", !.id = m] \in Works
  /\ \A m \in Machines, u \in Logins :
       [Idle EXCEPT !.at = "ensure", !.who = u, !.id = m] \in Works
BY DEF Idle, Works, Steps, Someone

LEMMA NextWorkTypes ==
  ASSUME NEW work \in Works
  PROVE  /\ work.at = "made" => [work EXCEPT !.at = "answered"] \in Works
         /\ work.at = "answered" => [work EXCEPT !.at = "saved"] \in Works
         /\ work.at = "drop" => [work EXCEPT !.at = "delete"] \in Works
         /\ work.at = "register" =>
              \A m \in Machines : [work EXCEPT !.at = "made", !.id = m] \in Works
         /\ \A role \in {"none", "user", "admin"} :
              [work EXCEPT !.at = "counted", !.role = role] \in Works
BY DEF Works, Steps

LEMMA TurnType ==
  ASSUME DoingType, NEW r, NEW work \in Works, Turn(r, work)
  PROVE  DoingType'
BY DEF DoingType, Turn

LEMMA StartType ==
  ASSUME DoingType, CountType, NEW r, NEW work \in Works, Start(r, work)
  PROVE  DoingType' /\ CountType'
<1>1. CountType'
  BY BoundsAssumption DEF Start, CountType
<1> QED BY <1>1, TurnType DEF Start

LEMMA DoneType ==
  ASSUME DoingType, NEW r, Done(r)
  PROVE  DoingType'
BY TurnType, WorkTypes DEF Done

LEMMA StepType ==
  ASSUME DoingType, NEW r \in Requests,
         \/ At(r, "made") /\ Step(r, "answered")
         \/ At(r, "answered") /\ Step(r, "saved")
         \/ At(r, "drop") /\ Step(r, "delete")
  PROVE  DoingType'
<1>1. doing[r] \in Works
  BY DEF DoingType
<1> QED BY <1>1, NextWorkTypes, TurnType DEF Step, At

LEMMA FaultType == ASSUME CountType, Fault PROVE CountType'
  BY BoundsAssumption DEF Fault, CountType

LEMMA PeopleTypes == ASSUME Parts, PeopleStep PROVE Parts'
<1> USE DEF Parts, keys, machines
<1>1. ASSUME NEW r \in Requests, NEW l \in Logins, SignIn(r, l) PROVE Parts'
  <2>1. DoingType' /\ CountType'
    BY <1>1, StartType, WorkTypes DEF SignIn
  <2> QED BY <1>1, <2>1 DEF SignIn, PeopleType, KeysType, RowsType, LiveType, ConnsType, HostsType
<1>2. ASSUME NEW r \in Requests, CountUsers(r) PROVE Parts'
  <2>1. \E work \in Works : Turn(r, work)
    <3>1. doing[r] \in Works
      BY DEF DoingType
    <3>2. \A l, others : RoleOf(l, others) \in {"none", "user", "admin"}
      BY DEF RoleOf
    <3> QED BY <1>2, <3>1, <3>2, NextWorkTypes, WorkTypes DEF CountUsers, Done
  <2>2. DoingType'
    BY <2>1, TurnType
  <2> QED BY <1>2, <2>2 DEF CountUsers, PeopleType, KeysType, RowsType, LiveType, ConnsType,
                            HostsType, CountType
<1>3. ASSUME NEW r \in Requests, CreateUser(r) PROVE Parts'
  <2>1. DoingType'
    BY <1>3, DoneType DEF CreateUser
  <2>2. doing[r].role \in {"none", "user", "admin"}
    BY DEF DoingType, Works
  <2>3. PeopleType'
    BY <1>3, <2>2 DEF CreateUser, PeopleType
  <2> QED BY <1>3, <2>1, <2>3 DEF CreateUser, KeysType, RowsType, LiveType, ConnsType, HostsType,
                                  CountType
<1>4. ASSUME NEW u \in Logins, NEW k \in Codes, MintCode(u, k) PROVE Parts'
  <2>1. KeysType'
    BY <1>4 DEF MintCode, KeysType, Keys, Someone
  <2> QED BY <1>4, <2>1 DEF MintCode, PeopleType, RowsType, LiveType, ConnsType, HostsType,
                            DoingType, CountType
<1>5. ASSUME NEW u \in Logins, NEW t \in Tokens, MintToken(u, t) PROVE Parts'
  <2>1. KeysType'
    BY <1>5 DEF MintToken, KeysType, Keys, Someone
  <2> QED BY <1>5, <2>1 DEF MintToken, PeopleType, RowsType, LiveType, ConnsType, HostsType,
                            DoingType, CountType
<1>6. ASSUME NEW r \in Requests, NEW k \in Codes, Redeem(r, k) PROVE Parts'
  <2>1. DoingType' /\ CountType'
    BY <1>6, StartType, WorkTypes DEF Redeem
  <2> QED BY <1>6, <2>1 DEF Redeem, PeopleType, KeysType, RowsType, LiveType, ConnsType, HostsType
<1>7. ASSUME NEW r \in Requests, ConsumeCode(r) PROVE Parts'
  <2>1. DoingType'
    BY <1>7, DoneType DEF ConsumeCode
  <2>2. KeysType'
    <3>1. CASE UNCHANGED <<codes, sessions>>
      BY <1>7, <3>1 DEF ConsumeCode, KeysType
    <3>2. CASE /\ codes' = [codes EXCEPT ![doing[r].item].at = "used"]
               /\ sessions' = [sessions EXCEPT ![doing[r].item] = @ + 1]
      <4>1. codes' \in [Codes -> Keys]
        BY <3>2 DEF KeysType, Keys
      <4>2. sessions' \in [Codes -> Nat]
        <5>1. \A k \in Codes : sessions[k] + 1 \in Nat
          BY DEF KeysType
        <5> QED BY <3>2, <5>1 DEF KeysType
      <4> QED BY <1>7, <4>1, <4>2 DEF ConsumeCode, KeysType
    <3> QED BY <1>7, <3>1, <3>2 DEF ConsumeCode
  <2> QED BY <1>7, <2>1, <2>2 DEF ConsumeCode, PeopleType, RowsType, LiveType, ConnsType,
                                  HostsType, CountType
<1>8. CASE Expire
  <2>1. KeysType'
    BY <1>8 DEF Expire, KeysType, Keys
  <2> QED BY <1>8, <2>1 DEF Expire, PeopleType, RowsType, LiveType, ConnsType, HostsType,
                            DoingType, CountType
<1> QED BY <1>1, <1>2, <1>3, <1>4, <1>5, <1>6, <1>7, <1>8 DEF PeopleStep

LEMMA RestartedType == ASSUME HostsType, NEW h, Restarted(h) PROVE HostsType'
  BY DEF Restarted, HostsType, Host

LEMMA RegisterTypes == ASSUME Parts, RegisterStep PROVE Parts'
<1> USE DEF Parts, keys, machines
<1>1. ASSUME NEW r \in Requests, NEW h \in Hosts, NEW t \in Tokens, Register(r, h, t)
      PROVE  Parts'
  <2>1. DoingType' /\ CountType'
    BY <1>1, StartType, WorkTypes DEF Register
  <2> QED BY <1>1, <2>1 DEF Register, PeopleType, KeysType, RowsType, LiveType, ConnsType,
                            HostsType
<1>2. ASSUME NEW r \in Requests, NEW h \in Hosts, NEW t \in Tokens, RegisterAgain(r, h, t)
      PROVE  Parts'
  <2>1. DoingType' /\ CountType' /\ HostsType'
    BY <1>2, StartType, WorkTypes, RestartedType DEF RegisterAgain
  <2> QED BY <1>2, <2>1 DEF RegisterAgain, PeopleType, KeysType, RowsType, LiveType, ConnsType
<1>3. ASSUME NEW r \in Requests, NEW m \in Machines, CreateMachine(r, m) PROVE Parts'
  <2>1. doing[r] \in Works /\ doing[r].at = "register"
    BY <1>3 DEF DoingType, CreateMachine, At
  <2>2. DoingType'
    BY <1>3, <2>1, NextWorkTypes, TurnType DEF CreateMachine
  <2>3. RowsType'
    <3>1. Made(doing[r].item) \in Row
      BY <2>1 DEF Made, Row, Works, KeysType, Keys, Someone
    <3> QED BY <1>3, <3>1 DEF CreateMachine, RowsType
  <2> QED BY <1>3, <2>2, <2>3 DEF CreateMachine, PeopleType, KeysType, LiveType, ConnsType,
                                  HostsType, CountType
<1>4. ASSUME NEW r \in Requests, ConsumeToken(r) PROVE Parts'
  <2>1. DoingType'
    BY <1>4, StepType DEF ConsumeToken
  <2>2. KeysType'
    BY <1>4 DEF ConsumeToken, KeysType, Keys
  <2> QED BY <1>4, <2>1, <2>2 DEF ConsumeToken, PeopleType, RowsType, LiveType, ConnsType, HostsType, CountType
<1>5. ASSUME NEW r \in Requests, SaveConfig(r) PROVE Parts'
  <2>1. DoingType'
    BY <1>5, StepType DEF SaveConfig
  <2>2. doing[r].id \in Machines \union {Nil}
    BY DEF DoingType, Works
  <2>3. HostsType'
    BY <1>5, <2>2 DEF SaveConfig, HostsType, Host
  <2> QED BY <1>5, <2>1, <2>3 DEF SaveConfig, PeopleType, KeysType, RowsType, LiveType, ConnsType, CountType
<1>6. ASSUME NEW r \in Requests, RestartAgent(r) \/ Abandon(r) PROVE Parts'
  <2>1. DoingType'
    BY <1>6, DoneType DEF RestartAgent, Abandon
  <2>2. HostsType'
    BY <1>6, RestartedType DEF RestartAgent, Abandon, HostsType
  <2> QED BY <1>6, <2>1, <2>2 DEF RestartAgent, PeopleType, KeysType, RowsType, LiveType, ConnsType, CountType, Abandon
<1> QED BY <1>1, <1>2, <1>3, <1>4, <1>5, <1>6 DEF RegisterStep

LEMMA EndedType == ASSUME HostsType, NEW c, Ended(c) PROVE HostsType'
  BY DEF Ended, HostsType, Host

LEMMA ConnTypes ==
  ASSUME NEW c \in Connection
  PROVE  /\ c.at = "authed" => [c EXCEPT !.at = "serving"] \in Connection
         /\ c.at = "serving" => [c EXCEPT !.at = "ended"] \in Connection
         /\ \A u \in Someone, b \in BOOLEAN : c.at = "sent" =>
              [c EXCEPT !.at = "authed", !.user = u, !.late = b] \in Connection
         /\ Closed \in Connection
         /\ \A m \in Machines, h \in Hosts :
              [Closed EXCEPT !.at = "sent", !.id = m, !.host = h] \in Connection
BY DEF Connection, Closed, Someone

LEMMA LinkTypes ==
  ASSUME Parts, RestartHub \/ (\E h \in Hosts : HostStep(h)) \/ (\E c \in Conns : ConnStep(c))
  PROVE  Parts'
<1> USE DEF Parts, keys, machines
<1>1. ASSUME NEW h \in Hosts, StartAgent(h) PROVE Parts'
  <2>1. HostsType'
    BY <1>1, RestartedType DEF StartAgent
  <2> QED BY <1>1, <2>1 DEF StartAgent, PeopleType, KeysType, RowsType, LiveType, ConnsType, DoingType, CountType
<1>2. ASSUME NEW h \in Hosts, NEW c \in Conns, Dial(h, c) PROVE Parts'
  <2>1. hosts[h].agent \in Machines
    BY <1>2 DEF Dial, HostsType, Host
  <2>2. conns[c] \in Connection
    BY DEF ConnsType
  <2>3. ConnsType'
    BY <1>2, <2>1, <2>2, ConnTypes DEF Dial, ConnsType
  <2>4. HostsType'
    BY <1>2 DEF Dial, HostsType, Host
  <2> QED BY <1>2, <2>3, <2>4 DEF Dial, PeopleType, KeysType, RowsType, LiveType, DoingType, CountType
<1>3. ASSUME NEW h \in Hosts, Lose(h) PROVE Parts'
  <2>1. HostsType'
    BY <1>3 DEF Lose, HostsType, Host
  <2>2. CountType'
    BY <1>3, FaultType DEF Lose
  <2> QED BY <1>3, <2>1, <2>2 DEF Lose, PeopleType, KeysType, RowsType, LiveType, ConnsType, DoingType
<1>4. ASSUME NEW c \in Conns, Authenticate(c) PROVE Parts'
  <2>1. conns[c] \in Connection /\ conns[c].at = "sent"
    BY <1>4 DEF Authenticate, ConnsType
  <2>2. conns[c].id \in Machines
    BY <2>1 DEF Connection
  <2>3. rows[conns[c].id].user \in Someone
    BY <2>2 DEF RowsType, Row
  <2>4. ConnsType'
    <3>1. CASE Verified(conns[c].id)
      <4>1. (conns[c].id \in removed) \in BOOLEAN
        OBVIOUS
      <4>2. [conns[c] EXCEPT !.at = "authed", !.user = rows[conns[c].id].user,
                             !.late = (conns[c].id \in removed)] \in Connection
        BY <2>1, <2>3, <4>1, ConnTypes
      <4> QED BY <1>4, <3>1, <4>2 DEF Authenticate, ConnsType
    <3>2. CASE ~Verified(conns[c].id)
      BY <1>4, <2>1, <3>2, ConnTypes DEF Authenticate, ConnsType
    <3> QED BY <3>1, <3>2
  <2>5. HostsType'
    BY <1>4, EndedType DEF Authenticate, HostsType
  <2> QED BY <1>4, <2>4, <2>5 DEF Authenticate, PeopleType, KeysType, RowsType, LiveType, DoingType, CountType
<1>5. ASSUME NEW c \in Conns, Serve(c) PROVE Parts'
  <2>1. conns[c] \in Connection /\ conns[c].at = "authed"
    BY <1>5 DEF Serve, ConnsType
  <2>2. ConnsType'
    BY <1>5, <2>1, ConnTypes DEF Serve, ConnsType
  <2>3. LiveType'
    BY <1>5 DEF Serve, LiveType
  <2> QED BY <1>5, <2>2, <2>3 DEF Serve, PeopleType, KeysType, RowsType, HostsType, DoingType, CountType
<1>6. ASSUME NEW c \in Conns, EndServing(c) PROVE Parts'
  <2>1. conns[c] \in Connection /\ conns[c].at = "serving"
    BY <1>6 DEF EndServing, ConnsType
  <2>2. ConnsType'
    BY <1>6, <2>1, ConnTypes DEF EndServing, ConnsType
  <2>3. HostsType'
    BY <1>6, EndedType DEF EndServing
  <2> QED BY <1>6, <2>2, <2>3 DEF EndServing, PeopleType, KeysType, RowsType, LiveType, DoingType, CountType
<1>7. ASSUME NEW c \in Conns, Unregister(c) PROVE Parts'
  <2>1. Closed \in Connection
    BY DEF Connection, Closed, Someone
  <2>2. ConnsType' /\ LiveType'
    BY <1>7, <2>1 DEF Unregister, ConnsType, LiveType
  <2> QED BY <1>7, <2>2 DEF Unregister, PeopleType, KeysType, RowsType, HostsType, DoingType, CountType
<1>8. CASE RestartHub
  <2>1. Closed \in Connection
    BY DEF Connection, Closed, Someone
  <2>2. ConnsType' /\ LiveType'
    BY <1>8, <2>1 DEF RestartHub, ConnsType, LiveType
  <2>3. HostsType'
    BY <1>8 DEF RestartHub, HostsType, Host
  <2>4. DoingType'
    BY <1>8, WorkTypes DEF RestartHub, DoingType
  <2>5. CountType'
    BY <1>8, FaultType DEF RestartHub
  <2> QED BY <1>8, <2>2, <2>3, <2>4, <2>5 DEF RestartHub, PeopleType, KeysType, RowsType
<1> QED BY <1>1, <1>2, <1>3, <1>4, <1>5, <1>6, <1>7, <1>8 DEF HostStep, ConnStep

LEMMA MachineTypes == ASSUME Parts, MachineStep PROVE Parts'
<1> USE DEF Parts, keys, machines
<1>1. ASSUME NEW r \in Requests, NEW m \in Machines, Remove(r, m) PROVE Parts'
  <2>1. DoingType' /\ CountType'
    BY <1>1, StartType, WorkTypes DEF Remove
  <2> QED BY <1>1, <2>1 DEF Remove, PeopleType, KeysType, RowsType, LiveType, ConnsType, HostsType
<1>2. ASSUME NEW r \in Requests, NEW u \in Logins, NEW m \in Machines, FindConnected(r, u, m)
      PROVE  Parts'
  <2>1. DoingType' /\ CountType'
    BY <1>2, StartType, WorkTypes DEF FindConnected
  <2> QED BY <1>2, <2>1 DEF FindConnected, PeopleType, KeysType, RowsType, LiveType, ConnsType, HostsType
<1>3. ASSUME NEW r \in Requests, DropConnection(r) PROVE Parts'
  <2>1. DoingType'
    BY <1>3, StepType DEF DropConnection
  <2>2. LiveType'
    BY <1>3 DEF DropConnection, LiveType
  <2> QED BY <1>3, <2>1, <2>2 DEF DropConnection, PeopleType, KeysType, RowsType, ConnsType, HostsType, CountType
<1>4. ASSUME NEW r \in Requests, DeleteMachine(r) PROVE Parts'
  <2>1. DoingType'
    BY <1>4, DoneType DEF DeleteMachine
  <2>2. doing[r].id \in Machines
    BY <1>4 DEF DeleteMachine, At, DoingType, Works
  <2>3. RowsType'
    BY <1>4, <2>2 DEF DeleteMachine, RowsType, NoMachine, Row, Someone
  <2> QED BY <1>4, <2>1, <2>3 DEF DeleteMachine, PeopleType, KeysType, LiveType, ConnsType, HostsType, CountType
<1>5. ASSUME NEW r \in Requests, EnsureMachine(r) PROVE Parts'
  <2>1. DoingType'
    BY <1>5, DoneType DEF EnsureMachine
  <2>2. doing[r].id \in Machines /\ doing[r].who \in Someone
    BY <1>5 DEF EnsureMachine, At, DoingType, Works
  <2>3. RowsType'
    BY <1>5, <2>2 DEF EnsureMachine, Ensured, RowsType, Row
  <2> QED BY <1>5, <2>1, <2>3 DEF EnsureMachine, PeopleType, KeysType, LiveType, ConnsType, HostsType, CountType
<1> QED BY <1>1, <1>2, <1>3, <1>4, <1>5 DEF MachineStep

LEMMA NextTypes == ASSUME Parts, [Next]_vars PROVE Parts'
<1>1. CASE UNCHANGED vars
  BY <1>1 DEF vars, keys, machines, Parts, PeopleType, KeysType, RowsType, LiveType, ConnsType, HostsType, DoingType, CountType
<1> QED BY <1>1, PeopleTypes, RegisterTypes, LinkTypes, MachineTypes DEF Next

-----------------------------------------------------------------------------
(* Which steps change what.                                                *)

LEMMA Frames ==
  ASSUME Next
  PROVE  /\ \/ UNCHANGED <<codes, sessions>> \/ Expire
            \/ \E u \in Logins, k \in Codes : MintCode(u, k)
            \/ \E r \in Requests : ConsumeCode(r)
         /\ UNCHANGED users \/ \E r \in Requests : CreateUser(r)
         /\ \/ UNCHANGED <<rows, removed>>
            \/ \E r \in Requests : \/ DeleteMachine(r) \/ EnsureMachine(r)
                                   \/ \E m \in Machines : CreateMachine(r, m)
         /\ \/ UNCHANGED conns \/ RestartHub
            \/ \E c \in Conns : ConnStep(c) \/ \E h \in Hosts : Dial(h, c)
<1> USE DEF keys, machines
<1>1. CASE PeopleStep
  BY <1>1 DEF PeopleStep, SignIn, CountUsers, CreateUser, MintCode, MintToken, Redeem,
              ConsumeCode, Expire
<1>2. CASE RegisterStep
  BY <1>2 DEF RegisterStep, Register, RegisterAgain, CreateMachine, ConsumeToken, SaveConfig,
              RestartAgent, Abandon
<1>3. CASE MachineStep
  BY <1>3 DEF MachineStep, Remove, FindConnected, DropConnection, DeleteMachine, EnsureMachine
<1>4. CASE \E h \in Hosts : HostStep(h)
  BY <1>4 DEF HostStep, StartAgent, Dial, Lose
<1>5. CASE \E c \in Conns : ConnStep(c)
  BY <1>5 DEF ConnStep, Authenticate, Serve, EndServing, Unregister
<1>6. CASE RestartHub
  BY <1>6 DEF RestartHub
<1> QED BY <1>1, <1>2, <1>3, <1>4, <1>5, <1>6 DEF Next

(* A host's machine.json is written by SaveConfig alone.                   *)
LEMMA ConfigFrame ==
  ASSUME Parts, Next, NEW h \in Hosts
  PROVE  hosts'[h].config = hosts[h].config \/ \E r \in Requests : SaveConfig(r)
<1> USE DEF keys, machines, Parts, HostsType, Host
<1>1. ASSUME NEW g, Restarted(g) PROVE hosts'[h].config = hosts[h].config
  BY <1>1 DEF Restarted
<1>2. ASSUME NEW c, Ended(c) PROVE hosts'[h].config = hosts[h].config
  BY <1>2 DEF Ended
<1>3. CASE PeopleStep \/ MachineStep
  BY <1>3 DEF PeopleStep, SignIn, CountUsers, CreateUser, MintCode, MintToken, Redeem,
     ConsumeCode, Expire, MachineStep, Remove, FindConnected, DropConnection, DeleteMachine,
     EnsureMachine
<1>4. CASE RegisterStep
  BY <1>1, <1>4 DEF RegisterStep, Register, RegisterAgain, CreateMachine, ConsumeToken,
     RestartAgent, Abandon
<1>5. ASSUME NEW g \in Hosts, HostStep(g) PROVE hosts'[h].config = hosts[h].config
  BY <1>1, <1>5 DEF HostStep, StartAgent, Dial, Lose
<1>6. ASSUME NEW c \in Conns, ConnStep(c) PROVE hosts'[h].config = hosts[h].config
  BY <1>2, <1>6 DEF ConnStep, Authenticate, Serve, EndServing, Unregister
<1>7. CASE RestartHub
  BY <1>7 DEF RestartHub
<1> QED BY <1>3, <1>4, <1>5, <1>6, <1>7 DEF Next

(* How a request comes to be at the steps the invariants speak of.         *)
LEMMA WorkSteps ==
  ASSUME Parts, Next, NEW r \in Requests
  PROVE  \/ doing'[r] = doing[r]
         \/ doing'[r].at \notin {"counted", "made", "answered", "saved"}
         \/ CountUsers(r)
         \/ \E m \in Machines : CreateMachine(r, m)
         \/ /\ doing[r].at \in {"made", "answered"} /\ doing'[r].at \in {"answered", "saved"}
            /\ doing'[r].id = doing[r].id
<1> DEFINE Goal == \/ doing'[r] = doing[r]
                   \/ doing'[r].at \notin {"counted", "made", "answered", "saved"}
                   \/ CountUsers(r)
                   \/ \E m \in Machines : CreateMachine(r, m)
                   \/ /\ doing[r].at \in {"made", "answered"}
                      /\ doing'[r].at \in {"answered", "saved"}
                      /\ doing'[r].id = doing[r].id
<1> USE DEF keys, machines
<1>1. ASSUME NEW q \in Requests, NEW work, Turn(q, work)
      PROVE  doing'[r] = IF q = r THEN work ELSE doing[r]
  BY <1>1 DEF Turn, Parts, DoingType
<1>2. ASSUME NEW q \in Requests, Done(q) PROVE Goal
  BY <1>1, <1>2 DEF Done, Idle
<1>3. ASSUME NEW q \in Requests, NEW work, Start(q, work),
             work.at \notin {"counted", "made", "answered", "saved"}
      PROVE  Goal
  BY <1>1, <1>3 DEF Start
<1>4. ASSUME NEW q \in Requests, q # r, CountUsers(q) \/ \E m \in Machines : CreateMachine(q, m)
      PROVE  Goal
  BY <1>1, <1>2, <1>4 DEF CountUsers, CreateMachine
<1>5. CASE PeopleStep
  BY <1>2, <1>3, <1>4, <1>5 DEF PeopleStep, SignIn, CreateUser, MintCode, MintToken, Redeem,
     ConsumeCode, Expire, Idle
<1>6. ASSUME NEW q \in Requests, ConsumeToken(q) \/ SaveConfig(q) PROVE Goal
  <2>1. doing[r] \in Works
    BY DEF Parts, DoingType
  <2>2. CASE q = r
    BY <1>1, <1>6, <2>1, <2>2 DEF ConsumeToken, SaveConfig, Step, At, Works
  <2>3. CASE q # r
    BY <1>1, <1>6, <2>3 DEF ConsumeToken, SaveConfig, Step
  <2> QED BY <2>2, <2>3
<1>7. CASE RegisterStep
  BY <1>2, <1>3, <1>4, <1>6, <1>7 DEF RegisterStep, Register, RegisterAgain, RestartAgent,
     Abandon, Idle
<1>8. ASSUME NEW q \in Requests, DropConnection(q) PROVE Goal
  BY <1>1, <1>8 DEF DropConnection, Step, Parts, DoingType, Works
<1>9. CASE MachineStep
  BY <1>2, <1>3, <1>8, <1>9 DEF MachineStep, Remove, FindConnected, DeleteMachine, EnsureMachine,
     Idle
<1>10. CASE \E h \in Hosts : HostStep(h)
  BY <1>10 DEF HostStep, StartAgent, Dial, Lose
<1>11. CASE \E c \in Conns : ConnStep(c)
  BY <1>11 DEF ConnStep, Authenticate, Serve, EndServing, Unregister
<1>12. CASE RestartHub
  BY <1>12 DEF RestartHub, Idle
<1> QED BY <1>5, <1>7, <1>9, <1>10, <1>11, <1>12 DEF Next

-----------------------------------------------------------------------------
(* Login codes and people.                                                 *)

LEMMA NextCodes == ASSUME RegistrationInv, [Next]_vars PROVE CodeInv'
<1> USE DEF RegistrationInv, Parts, KeysType, CodeInv
<1>1. CASE UNCHANGED <<codes, sessions>>
  BY <1>1
<1>2. ASSUME NEW u \in Logins, NEW k \in Codes, MintCode(u, k) PROVE CodeInv'
  BY <1>2 DEF MintCode, Keys
<1>3. ASSUME NEW r \in Requests, ConsumeCode(r) PROVE CodeInv'
  BY <1>1, <1>3 DEF ConsumeCode, Consumed, Keys
<1>4. CASE Expire
  BY <1>4 DEF Expire, Keys
<1> QED BY <1>1, <1>2, <1>3, <1>4, Frames DEF vars, keys

LEMMA NextAdmin == ASSUME RegistrationInv, [Next]_vars PROVE AdminInv'
<1> USE DEF RegistrationInv, Parts, PeopleType
<1>1. CASE UNCHANGED vars
  BY <1>1 DEF vars, AdminInv, SomeoneIsAdmin, At
<1>2. \A l \in Logins : Next /\ users[l] # "none" => users'[l] = users[l]
  BY Frames DEF CreateUser
<1>3. ASSUME Next PROVE SomeoneIsAdmin'
  <2>1. ASSUME NEW r \in Requests, CreateUser(r) PROVE SomeoneIsAdmin'
    <3> DEFINE l == doing[r].who
    <3>1. CASE l \in Logins /\ users[l] = "none" /\ doing[r].role = "admin"
      BY <2>1, <3>1 DEF CreateUser, SomeoneIsAdmin
    <3>2. CASE doing[r].role = "user"
      BY <1>2, <1>3, <2>1, <3>2 DEF CreateUser, AdminInv, SomeoneIsAdmin
    <3>3. CASE l \notin Logins \/ users[l] # "none"
      BY <2>1, <3>3 DEF CreateUser, AdminInv, SomeoneIsAdmin
    <3> QED BY <2>1, <3>1, <3>2, <3>3 DEF CreateUser, AdminInv
  <2> QED BY <1>3, <2>1, Frames DEF AdminInv, SomeoneIsAdmin
<1>4. ASSUME Next, NEW r \in Requests, At(r, "counted")'
      PROVE  /\ doing'[r].role \in {"user", "admin"}
             /\ doing'[r].role = "user" => \E l \in Logins : users'[l] # "none"
  <2>1. CASE doing'[r] = doing[r]
    BY <1>2, <1>4, <2>1 DEF AdminInv, At
  <2>2. CASE CountUsers(r)
    <3> DEFINE others == {l \in Logins : users[l] # "none"}
               role == RoleOf(doing[r].who, others)
    <3>1. doing[r] \in Works
      BY DEF DoingType
    <3>2. doing' = [doing EXCEPT ![r] = [doing[r] EXCEPT !.at = "counted", !.role = role]]
          /\ role # "none"
      BY <1>4, <2>2, <3>1 DEF CountUsers, Turn, Done, At, Idle, DoingType
    <3>3. doing'[r].role = role /\ UNCHANGED users
      BY <2>2, <3>1, <3>2 DEF CountUsers, Works, DoingType
    <3>4. role \in {"user", "admin"} /\ (role = "user" => others # {})
      BY <3>2 DEF RoleOf
    <3> QED BY <3>3, <3>4
  <2>3. CASE \E m \in Machines : CreateMachine(r, m)
    <3>1. doing[r] \in Works
      BY DEF DoingType
    <3>2. doing'[r].at = "made"
      BY <2>3, <3>1 DEF CreateMachine, Turn, DoingType, Works
    <3> QED BY <1>4, <3>2 DEF At
  <2> QED BY <1>4, <2>1, <2>2, <2>3, WorkSteps DEF At
<1> QED BY <1>1, <1>3, <1>4 DEF AdminInv

-----------------------------------------------------------------------------
(* Secrets.                                                                *)

\* A row with a secret ends by being removed.
LEMMA RowsStay ==
  ASSUME RegistrationInv, Next, NEW m
  PROVE  /\ m \in removed => m \in removed'
         /\ m \in Machines /\ Verified(m) => Verified(m)' \/ m \in removed'
<1> USE DEF RegistrationInv, Parts, RowsType
<1>1. CASE UNCHANGED <<rows, removed>>
  BY <1>1 DEF Verified
<1>2. ASSUME NEW r \in Requests, DeleteMachine(r)
      PROVE  /\ m \in removed => m \in removed'
             /\ m \in Machines /\ Verified(m) => Verified(m)' \/ m \in removed'
  BY <1>2 DEF DeleteMachine, Verified
<1>3. ASSUME NEW r \in Requests, EnsureMachine(r)
      PROVE  /\ m \in removed => m \in removed'
             /\ m \in Machines /\ Verified(m) => Verified(m)'
  BY <1>3 DEF EnsureMachine, Ensured, Verified, NoMachine
<1>4. ASSUME NEW r \in Requests, NEW n \in Machines, CreateMachine(r, n)
      PROVE  /\ m \in removed => m \in removed'
             /\ m \in Machines /\ Verified(m) => Verified(m)'
  BY <1>4 DEF CreateMachine, Verified, NoMachine
<1> QED BY <1>1, <1>2, <1>3, <1>4, Frames

LEMMA NextSecrets == ASSUME RegistrationInv, [Next]_vars PROVE SecretInv'
<1> USE DEF RegistrationInv, Parts, SecretInv
<1>1. CASE UNCHANGED vars
  BY <1>1 DEF vars, machines, SecretIsKept, Verified
<1>2. ASSUME Next, NEW h \in Hosts, NEW m, hosts'[h].config = m, m # Nil
      PROVE  Verified(m)' \/ m \in removed'
  <2>1. CASE hosts[h].config = m
    <3>1. m \in Machines /\ (Verified(m) \/ m \in removed)
      BY <1>2, <2>1 DEF SecretIsKept, HostsType, Host
    <3> QED BY <1>2, <3>1, RowsStay
  <2>2. ASSUME NEW r \in Requests, SaveConfig(r), hosts[h].config # m
        PROVE  Verified(m)' \/ m \in removed'
    <3>1. m = doing[r].id /\ UNCHANGED <<rows, removed>>
      BY <1>2, <2>2 DEF SaveConfig, HostsType, Host
    <3> QED BY <2>2, <3>1 DEF SaveConfig, At, Verified
  <2> QED BY <1>2, <2>1, <2>2, ConfigFrame
<1>3. ASSUME Next, NEW m \in removed' PROVE ~Verified(m)'
  <2>1. CASE UNCHANGED <<rows, removed>>
    BY <1>3, <2>1 DEF Verified
  <2>2. ASSUME NEW r \in Requests, DeleteMachine(r) PROVE ~Verified(m)'
    <3>1. doing[r].id \in Machines
      BY <2>2 DEF DeleteMachine, At, DoingType, Works
    <3>2. m \in Machines /\ (m = doing[r].id \/ m \in removed)
      BY <1>3, <2>2, <3>1 DEF DeleteMachine, RowsType
    <3> QED BY <2>2, <3>2 DEF DeleteMachine, Verified, NoMachine, RowsType
  <2>3. ASSUME NEW r \in Requests, EnsureMachine(r) PROVE ~Verified(m)'
    BY <1>3, <2>3 DEF EnsureMachine, Ensured, Verified, RowsType
  <2>4. ASSUME NEW r \in Requests, NEW n \in Machines, CreateMachine(r, n) PROVE ~Verified(m)'
    BY <1>3, <2>4 DEF CreateMachine, Verified, RowsType
  <2> QED BY <1>3, <2>1, <2>2, <2>3, <2>4, Frames
<1>4. ASSUME Next, NEW r \in Requests, NEW m, doing'[r].id = m,
             doing'[r].at \in {"made", "answered", "saved"}
      PROVE  m \in removed' \/ Verified(m)'
  <2>1. doing[r] \in Works
    BY DEF DoingType
  <2>2. CASE doing[r].at \in {"made", "answered", "saved"} /\ doing[r].id = m
    <3>1. m \in Machines /\ (Verified(m) \/ m \in removed)
      BY <2>1, <2>2 DEF Works
    <3> QED BY <1>4, <3>1, RowsStay
  <2>3. ASSUME NEW n \in Machines, CreateMachine(r, n)
        PROVE  Verified(m)'
    <3>1. n = m
      BY <1>4, <2>1, <2>3 DEF CreateMachine, Turn, DoingType, Works
    <3> QED BY <2>3, <3>1 DEF CreateMachine, Verified, Made, RowsType
  <2>4. CASE CountUsers(r)
    <3>1. \/ doing'[r] = Idle
          \/ \E role : doing'[r] = [doing[r] EXCEPT !.at = "counted", !.role = role]
      BY <2>4 DEF CountUsers, Turn, Done, DoingType
    <3>2. doing'[r].at \in {"idle", "counted"}
      <4>1. \A role : [doing[r] EXCEPT !.at = "counted", !.role = role].at = "counted"
        BY <2>1 DEF Works
      <4>2. Idle.at = "idle"
        BY DEF Idle
      <4>3. \/ doing'[r].at = Idle.at
            \/ \E role : doing'[r].at = [doing[r] EXCEPT !.at = "counted", !.role = role].at
        BY <3>1
      <4> QED BY <4>1, <4>2, <4>3
    <3> QED BY <1>4, <3>2
  <2>5. CASE doing'[r] = doing[r]
    BY <1>4, <2>2, <2>5
  <2> QED BY <1>4, <2>2, <2>3, <2>4, <2>5, WorkSteps
<1> QED BY <1>1, <1>2, <1>3, <1>4 DEF SecretIsKept

LEMMA NextRemoved == ASSUME RegistrationInv, [Next]_vars PROVE RemovedStaysOut'
<1> USE DEF RegistrationInv, Parts, ConnsType, RemovedStaysOut
<1>1. CASE UNCHANGED conns
  BY <1>1
<1>2. ASSUME NEW h \in Hosts, NEW c \in Conns, Dial(h, c) PROVE RemovedStaysOut'
  BY <1>2 DEF Dial, Closed
<1>3. ASSUME NEW c \in Conns, Authenticate(c) PROVE RemovedStaysOut'
  <2>1. CASE Verified(conns[c].id)
    <3>1. conns[c].id \notin removed
      BY <2>1 DEF SecretInv
    <3> QED BY <1>3, <2>1, <3>1 DEF Authenticate, Connection
  <2>2. CASE ~Verified(conns[c].id)
    BY <1>3, <2>2 DEF Authenticate, Closed
  <2> QED BY <2>1, <2>2
<1>4. ASSUME NEW c \in Conns, Serve(c) \/ EndServing(c) PROVE RemovedStaysOut'
  BY <1>4 DEF Serve, EndServing, Connection
<1>5. ASSUME NEW c \in Conns, Unregister(c) PROVE RemovedStaysOut'
  BY <1>5 DEF Unregister, Closed
<1>6. CASE RestartHub
  BY <1>6 DEF RestartHub, Closed
<1> QED BY <1>1, <1>2, <1>3, <1>4, <1>5, <1>6, Frames DEF vars, machines, ConnStep

-----------------------------------------------------------------------------
(* The invariant holds throughout, for every number of people, tokens,     *)
(* machines, hosts, connections and requests.                              *)
THEOREM RegistrationInvariant == Spec => []RegistrationInv
<1>1. RegistrationInv /\ [Next]_vars => RegistrationInv'
  BY NextTypes, NextCodes, NextAdmin, NextSecrets, NextRemoved DEF RegistrationInv
<1> QED BY <1>1, InitRegistrationInv, PTL DEF Spec

(* A login code is traded for one session at most, however many phones     *)
(* race for it.                                                            *)
THEOREM CodesAreSingleUse == Spec => []OneSessionPerCode
<1>1. RegistrationInv => OneSessionPerCode
  BY DEF RegistrationInv, CodeInv, OneSessionPerCode
<1> QED BY <1>1, RegistrationInvariant, PTL

(* A hub with users has an admin, in whatever order they sign in.          *)
THEOREM HubHasAdmin == Spec => []SomeoneIsAdmin
<1>1. RegistrationInv => SomeoneIsAdmin
  BY DEF RegistrationInv, AdminInv
<1> QED BY <1>1, RegistrationInvariant, PTL

(* A stored secret opens its hub until its machine is removed.             *)
THEOREM SecretsStayGood == Spec => []SecretIsKept
<1>1. RegistrationInv => SecretIsKept
  BY DEF RegistrationInv, SecretInv
<1> QED BY <1>1, RegistrationInvariant, PTL

(* A removed machine never authenticates again.                            *)
THEOREM RemovalIsFinal == Spec => []RemovedStaysOut
<1>1. RegistrationInv => RemovedStaysOut
  BY DEF RegistrationInv
<1> QED BY <1>1, RegistrationInvariant, PTL

=============================================================================
