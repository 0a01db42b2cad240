------------------------- MODULE ControlLeaseProofs -------------------------
(***************************************************************************)
(* Theorems of ControlLease, for every set of devices and machines and     *)
(* every bound on sockets.  IInv is inductive: the count is exact, a       *)
(* counted device has nothing stashed, and neither a lease nor a stash     *)
(* holds what its device has given up.                                     *)
(*                                                                         *)
(* Then of AttachStream, for every set of sockets and every bound on       *)
(* connections and queues: whatever is reset, closed, thinned, merged or   *)
(* reconnected meanwhile, no stream breaks and a closed socket leaves      *)
(* nothing behind.  AttachInv is inductive: for every attach it relates    *)
(* what is on its way in the two queues (an order to open it, the switches *)
(* of its compressor, its death, its output, and which comes before which) *)
(* to the state of its socket, its tmux client and its compressor.         *)
(***************************************************************************)
EXTENDS ControlLease, AttachStream, FunctionTheorems, FiniteSetTheorems, SequenceTheorems, TLAPS

IInv == TypeOK /\ CountMatches /\ StashOnlyWhenGone /\ ReleaseIsFinal

(* Asking for control keeps the lease maps well typed, and the machine is  *)
(* no longer one its new holder gave up.                                   *)
LEMMA ClaimKeeps ==
  ASSUME IInv, NEW d \in Devices, NEW m \in Machines, Claim(d, m),
         UNCHANGED <<count, stash, sockets, timers>>,
         inflight' \in [Devices -> {Idle} \union Message]
  PROVE  IInv'
<1>1. TypeOK'
  BY DEF IInv, TypeOK, Claim
<1>2. CountMatches' /\ StashOnlyWhenGone'
  BY DEF IInv, CountMatches, StashOnlyWhenGone
<1>3. ReleaseIsFinal'
  BY DEF IInv, TypeOK, ReleaseIsFinal, Claim
<1> QED BY <1>1, <1>2, <1>3 DEF IInv

(* Losing the last connection empties the device's leases into its stash.  *)
LEMMA LoseLastKeeps ==
  ASSUME IInv, NEW d \in Devices, count[d] = 1, timers[d] > 0, LoseLast(d),
         timers' = [timers EXCEPT ![d] = @ - 1],
         UNCHANGED <<sockets, inflight, lastClaim, renounced>>
  PROVE  IInv'
<1> USE NoneAssumption DEF IInv, TypeOK
<1>1. Held(d) \in SUBSET Machines
  BY DEF Held
<1>2. TypeOK'
  BY <1>1 DEF LoseLast
<1>3. CountMatches'
  BY DEF LoseLast, CountMatches
<1>4. StashOnlyWhenGone'
  BY DEF LoseLast, StashOnlyWhenGone
<1>5. ReleaseIsFinal'
  <2> SUFFICES ASSUME NEW e \in Devices, NEW m \in Machines,
                      leases'[m] = e \/ m \in stash'[e]
               PROVE  m \notin renounced[e]
    BY DEF ReleaseIsFinal
  <2>1. CASE leases'[m] = e
    BY <2>1 DEF LoseLast, ReleaseIsFinal
  <2>2. CASE m \in stash'[e]
    <3>1. m \in stash[e] \/ (e = d /\ leases[m] = d)
      BY <1>1, <2>2 DEF LoseLast, Held
    <3> QED BY <3>1 DEF ReleaseIsFinal
  <2> QED BY <2>1, <2>2
<1> QED BY <1>2, <1>3, <1>4, <1>5

(* The invariant holds of a hub that has just started.                     *)
LEMMA InitIInv == Init => IInv
  BY NoneAssumption DEF Init, IInv, TypeOK, CountMatches, StashOnlyWhenGone, ReleaseIsFinal

(* Every step of sockets, timers, requests and messages preserves it.      *)
LEMMA NextIInv == IInv /\ [Next]_vars => IInv'
<1> SUFFICES ASSUME IInv, [Next]_vars PROVE IInv'
  OBVIOUS
<1> USE NoneAssumption DEF IInv
<1>1. ASSUME NEW d \in Devices, RegisterDevice(d) PROVE IInv'
  <2>1. TypeOK'
    BY <1>1 DEF TypeOK, RegisterDevice, Counted, StashTaken, Restored
  <2>2. CountMatches'
    BY <1>1 DEF TypeOK, CountMatches, RegisterDevice, Counted
  <2>3. StashOnlyWhenGone'
    BY <1>1 DEF TypeOK, StashOnlyWhenGone, RegisterDevice, Counted, StashTaken
  <2>4. ReleaseIsFinal'
    BY <1>1 DEF TypeOK, ReleaseIsFinal, RegisterDevice, StashTaken, Restored
  <2> QED BY <2>1, <2>2, <2>3, <2>4
<1>2. ASSUME NEW d \in Devices, SocketEnds(d) PROVE IInv'
  <2>1. UNCHANGED <<leases, count, stash, inflight, lastClaim, renounced>>
    BY <1>2 DEF SocketEnds, modeVars, history
  <2>2. TypeOK' /\ CountMatches'
    BY <1>2, <2>1 DEF TypeOK, CountMatches, SocketEnds
  <2>3. StashOnlyWhenGone' /\ ReleaseIsFinal'
    BY <2>1 DEF StashOnlyWhenGone, ReleaseIsFinal
  <2> QED BY <2>2, <2>3
<1>3. ASSUME NEW d \in Devices, GraceTimerFires(d) PROVE IInv'
  <2>1. count[d] > 0
    BY <1>3 DEF TypeOK, CountMatches, GraceTimerFires
  <2>2. CASE count[d] > 1
    BY <1>3, <2>2 DEF TypeOK, CountMatches, StashOnlyWhenGone, ReleaseIsFinal,
                      GraceTimerFires, UnregisterDevice, LoseOne, history
  <2>3. CASE count[d] = 1
    <3>1. LoseLast(d)
      BY <1>3, <2>3 DEF GraceTimerFires, UnregisterDevice
    <3>2. UNCHANGED <<sockets, inflight, lastClaim, renounced>>
      BY <1>3 DEF GraceTimerFires, history
    <3>3. timers[d] > 0 /\ timers' = [timers EXCEPT ![d] = @ - 1]
      BY <1>3 DEF GraceTimerFires
    <3> QED BY <2>3, <3>1, <3>2, <3>3, LoseLastKeeps
  <2> QED BY <2>1, <2>2, <2>3 DEF TypeOK
<1>4. ASSUME NEW d \in Devices, NEW m \in Machines, RequestControl(d, m) PROVE IInv'
  BY <1>4, ClaimKeeps DEF RequestControl, TypeOK
<1>5. ASSUME NEW d \in Devices, NEW m \in Machines, ReleaseControl(d, m) PROVE IInv'
  <2>1. TypeOK' /\ CountMatches' /\ StashOnlyWhenGone'
    BY <1>5 DEF TypeOK, CountMatches, StashOnlyWhenGone, ReleaseControl, StashWithout
  <2>2. ReleaseIsFinal'
    BY <1>5 DEF TypeOK, ReleaseIsFinal, ReleaseControl, StashWithout
  <2> QED BY <2>1, <2>2
<1>6. ASSUME NEW m \in Machines, ClearMachineMode(m) PROVE IInv'
  BY <1>6 DEF TypeOK, CountMatches, StashOnlyWhenGone, ReleaseIsFinal,
              ClearMachineMode, history
<1>7. ASSUME NEW d \in Devices, NEW m \in Machines, NEW kind \in Kinds,
             CheckControl(d, m, kind)
      PROVE  IInv'
  BY <1>7 DEF TypeOK, CountMatches, StashOnlyWhenGone, ReleaseIsFinal,
              CheckControl, IsController, Message, modeVars, history
<1>8. ASSUME NEW d \in Devices, AdmitMessage(d) PROVE IInv'
  <2>1. inflight[d] \in Message
    BY <1>8 DEF TypeOK, AdmitMessage, Idle
  <2>2. inflight' \in [Devices -> {Idle} \union Message]
    <3>1. PICK v \in {Idle} \union Message : inflight' = [inflight EXCEPT ![d] = v]
      <4>1. [inflight[d] EXCEPT !.at = "admitted", !.can = TRUE] \in Message
        BY <2>1 DEF Message
      <4>2. [inflight[d] EXCEPT !.at = "admitted"] \in Message
        BY <2>1 DEF Message
      <4> QED BY <1>8, <4>1, <4>2 DEF AdmitMessage
    <3> QED BY <3>1 DEF TypeOK
  <2>3. CASE Claim(d, inflight[d].machine)
    BY <1>8, <2>1, <2>2, <2>3, ClaimKeeps DEF AdmitMessage, Message
  <2>4. CASE UNCHANGED <<leases, history>>
    BY <1>8, <2>2, <2>4 DEF AdmitMessage, TypeOK, CountMatches,
                            StashOnlyWhenGone, ReleaseIsFinal, history
  <2> QED BY <1>8, <2>3, <2>4 DEF AdmitMessage
<1>9. ASSUME NEW d \in Devices, SendMessage(d) PROVE IInv'
  <2>1. inflight[d] \in Message
    BY <1>9 DEF TypeOK, SendMessage, Idle
  <2> QED BY <1>9, <2>1 DEF TypeOK, CountMatches, StashOnlyWhenGone,
             ReleaseIsFinal, SendMessage, Message, modeVars, history
<1>10. CASE UNCHANGED vars
  BY <1>10 DEF vars, TypeOK, CountMatches, StashOnlyWhenGone, ReleaseIsFinal
<1> QED
  BY <1>1, <1>2, <1>3, <1>4, <1>5, <1>6, <1>7, <1>8, <1>9, <1>10 DEF Next

(* The inductive invariant holds throughout.                               *)
THEOREM LeaseInvariant == Spec => []IInv
  BY InitIInv, NextIInv, PTL DEF Spec

(* Every variable keeps its type.                                          *)
THEOREM TypeCorrect == Spec => []TypeOK
  BY LeaseInvariant, PTL DEF IInv

(* connected_devices counts every connection from register_device to the   *)
(* end of its grace period exactly once.                                   *)
THEOREM CountIsExact == Spec => []CountMatches
  BY LeaseInvariant, PTL DEF IInv

(* Only a device with no connection left has leases waiting for it.        *)
THEOREM StashWaitsForGone == Spec => []StashOnlyWhenGone
  BY LeaseInvariant, PTL DEF IInv

(* A lease given up explicitly comes back only on request.                 *)
THEOREM ReleaseFinality == Spec => []ReleaseIsFinal
  BY LeaseInvariant, PTL DEF IInv

(* A grace timer never takes a lease from a device with an open socket.    *)
THEOREM ConnectedKeepsLease == Spec => TimerSparesConnected
<1> DEFINE Spares == \A d \in Devices, m \in Machines :
             sockets[d] > 0 /\ leases[m] = d /\ timers' # timers => leases'[m] = d
<1>1. IInv /\ [Next]_vars => [Spares]_vars
  <2> SUFFICES ASSUME IInv, Next, NEW d \in Devices, NEW m \in Machines,
                      sockets[d] > 0, leases[m] = d, timers' # timers
               PROVE  leases'[m] = d
    OBVIOUS
  <2>1. PICK e \in Devices : SocketEnds(e) \/ GraceTimerFires(e)
    BY DEF Next, RegisterDevice, AdmitMessage, SendMessage, RequestControl,
           ReleaseControl, CheckControl, ClearMachineMode
  <2>2. CASE SocketEnds(e)
    BY <2>2 DEF SocketEnds, modeVars
  <2>3. CASE GraceTimerFires(e)
    <3>1. e = d => count[e] > 1
      BY <2>3 DEF IInv, TypeOK, CountMatches, GraceTimerFires
    <3>2. leases' = leases \/ (LoseLast(e) /\ e # d)
      BY <2>3, <3>1 DEF GraceTimerFires, UnregisterDevice, LoseOne, modeVars,
                        IInv, TypeOK
    <3> QED BY <3>2 DEF LoseLast, IInv, TypeOK
  <2> QED BY <2>1, <2>2, <2>3
<1> QED BY <1>1, LeaseInvariant, PTL DEF Spec, TimerSparesConnected

(* A reconnect never takes a lease another device holds.                   *)
THEOREM TransferNeedsClaim == Spec => OnlyClaimsTransfer
<1> DEFINE Asked == \A m \in Machines :
             leases[m] # None /\ leases'[m] \notin {None, leases[m]}
               => lastClaim'[m] = leases'[m]
<1>1. IInv /\ [Next]_vars => [Asked]_vars
  <2> SUFFICES ASSUME IInv, Next, NEW m \in Machines,
                      leases[m] # None, leases'[m] \notin {None, leases[m]}
               PROVE  lastClaim'[m] = leases'[m]
    OBVIOUS
  <2> USE DEF IInv, TypeOK
  <2>1. ASSUME NEW d \in Devices, NEW n \in Machines, Claim(d, n)
        PROVE  lastClaim'[m] = leases'[m]
    BY <2>1 DEF Claim
  <2>2. ASSUME NEW d \in Devices, RegisterDevice(d) PROVE FALSE
    BY <2>2 DEF RegisterDevice, Restored
  <2>3. ASSUME NEW d \in Devices, GraceTimerFires(d) PROVE FALSE
    BY <2>3 DEF GraceTimerFires, UnregisterDevice, LoseOne, LoseLast, modeVars
  <2>4. ASSUME NEW d \in Devices, AdmitMessage(d)
        PROVE  lastClaim'[m] = leases'[m]
    <3>1. inflight[d] \in Message
      BY <2>4 DEF AdmitMessage, Idle
    <3> QED BY <2>1, <2>4, <3>1 DEF AdmitMessage, Message
  <2>5. ASSUME NEW d \in Devices, NEW n \in Machines, ReleaseControl(d, n)
        PROVE  FALSE
    BY <2>5 DEF ReleaseControl
  <2>6. ASSUME NEW n \in Machines, ClearMachineMode(n) PROVE FALSE
    BY <2>6 DEF ClearMachineMode
  <2> QED
    BY <2>1, <2>2, <2>3, <2>4, <2>5, <2>6 DEF Next, SocketEnds, SendMessage,
       RequestControl, CheckControl, modeVars
<1> QED BY <1>1, LeaseInvariant, PTL DEF Spec, OnlyClaimsTransfer

-----------------------------------------------------------------------------
(* AttachStream.                                                           *)

(* What is on its way, in either direction, about one attach.              *)
Ops == {"open", "close", "on", "off", "died", "output"}
Orders == [op : {"open", "close", "refresh"}, a : Attaches, full : {FALSE}]
Items == [op : {"on", "off", "died"}, a : Attaches, full : {FALSE}]
         \union [op : {"output"}, a : Attaches, full : BOOLEAN]
At(q, i, op, a) == q[i].op = op /\ q[i].a = a
Has(q, op, a) == \E i \in 1..Len(q) : At(q, i, op, a)
Before(q, i, op, a) == \E j \in 1..(i - 1) : At(q, j, op, a)
Silent(q, a) == \A op \in Ops : ~Has(q, op, a)

AttachTyped ==
  /\ AttachTypeOK /\ chan \in [Attaches -> Seq(Frames)]
  /\ cmd \in Seq(Orders) /\ out \in Seq(Items) /\ IsFiniteSet(pending)

(* The machine's connection is the registered one, and without one nothing *)
(* of an attach is left on the machine.                                    *)
Linked ==
  /\ mconn \in 0..opened /\ conn \in 0..opened
  /\ mconn # 0 => conn = mconn
  /\ mconn = 0 => /\ cmd = <<>> /\ out = <<>> /\ comp = {}
                  /\ \A a \in Attaches : tty[a] \in {"none", "gone"}

(* Before the machine is asked, there is nothing of an attach anywhere.    *)
Fresh(a) ==
  sock[a] \in {"new", "asking"} =>
    a \notin comp /\ chan[a] = <<>> /\ ~hole[a] /\ tty[a] = "none" /\ Silent(cmd, a) /\ Silent(out, a)

(* An order to open an attach is its only one and comes before the order   *)
(* to close it; until it is read the machine says nothing of the attach.   *)
Awaited(a) ==
  \A i \in 1..Len(cmd) : At(cmd, i, "open", a) =>
    /\ ~Before(cmd, i, "open", a) /\ ~Before(cmd, i, "close", a)
    /\ sock[a] = "open" => tty[a] = "none" /\ a \notin comp /\ Silent(out, a)

(* While its socket is open an attach is not closed; it writes nothing     *)
(* after it died; and, as long as the hub has the route, the compressor is *)
(* on for every chunk of a compressed stream.                              *)
Steady(a) ==
  sock[a] = "open" =>
    /\ tty[a] # "closing" /\ ~Has(cmd, "close", a)
    /\ tty[a] = "running" => ~Has(out, "off", a) /\ ~Has(out, "died", a)
    /\ \A i \in 1..Len(out) : At(out, i, "output", a) => ~Before(out, i, "off", a) /\ ~Before(out, i, "died", a)
    /\ a \in route =>
         /\ \A i \in 1..Len(out) : At(out, i, "off", a) => Before(out, i, "died", a)
         /\ compress[a] =>
              /\ \A i \in 1..Len(out) : At(out, i, "output", a) => a \in comp \/ Before(out, i, "on", a)
              /\ tty[a] = "running" => a \in comp \/ Has(out, "on", a)

(* The stream is compressed if and only if the browser was told so, and a  *)
(* compressed one has no hole.                                             *)
Agreed(a) ==
  /\ a \in comp \/ Has(out, "on", a) => compress[a]
  /\ hole[a] => ~compress[a]
  /\ \A i \in 1..Len(chan[a]) : chan[a][i].comp = compress[a] /\ (compress[a] => ~chan[a][i].holed)
  /\ screen[a] # "garbage"

(* NothingLeaks, attach by attach.                                         *)
Cleaned(a) ==
  /\ sock[a] \in {"new", "closed"} => a \notin route
  /\ sock[a] = "closed" =>
       Has(cmd, "close", a) \/ (tty[a] \in {"none", "closing", "gone"} /\ ~Has(cmd, "open", a))

Path(a) == Fresh(a) /\ Awaited(a) /\ Steady(a) /\ Agreed(a) /\ Cleaned(a)
AttachInv == AttachTyped /\ Linked /\ \A a \in Attaches : Path(a)

-----------------------------------------------------------------------------
(* Queues.                                                                 *)

(* The messages of an attach with an operation of ops are the same in two  *)
(* queues, n places further ahead in the second.                           *)
Same(q, r, n, ops, a) ==
  /\ \A i \in 1..Len(r) : r[i].a = a /\ r[i].op \in ops => i + n \in 1..Len(q) /\ q[i + n] = r[i]
  /\ \A i \in 1..Len(q) : q[i].a = a /\ q[i].op \in ops => i - n \in 1..Len(r) /\ r[i - n] = q[i]

LEMMA SameSays ==
  ASSUME NEW S, NEW q \in Seq(S), NEW r \in Seq(S), NEW n \in Nat, NEW ops, NEW a, Same(q, r, n, ops, a)
  PROVE  /\ \A op \in ops : Has(r, op, a) <=> Has(q, op, a)
         /\ \A i \in 1..Len(r), op \in ops : At(r, i, op, a) => i + n \in 1..Len(q) /\ At(q, i + n, op, a)
         /\ \A i \in 1..Len(r), op \in ops :
              i + n \in 1..Len(q) => (Before(r, i, op, a) <=> Before(q, i + n, op, a))
<1>1. \A i \in 1..Len(r), op \in ops : At(r, i, op, a) => i + n \in 1..Len(q) /\ At(q, i + n, op, a)
  BY DEF Same, At
<1>2. \A i \in 1..Len(q), op \in ops : At(q, i, op, a) => i - n \in 1..Len(r) /\ At(r, i - n, op, a)
  BY DEF Same, At
<1>3. \A op \in ops : Has(r, op, a) <=> Has(q, op, a)
  BY <1>1, <1>2 DEF Has
<1>4. Len(q) \in Nat /\ Len(r) \in Nat
  OBVIOUS
<1>5. ASSUME NEW i \in 1..Len(r), NEW op \in ops, i + n \in 1..Len(q)
      PROVE  Before(r, i, op, a) <=> Before(q, i + n, op, a)
  <2>1. i \in Nat /\ i <= Len(r) /\ i + n <= Len(q)
    BY <1>4, <1>5
  <2>2. ASSUME NEW j \in 1..(i - 1), At(r, j, op, a) PROVE Before(q, i + n, op, a)
    <3>1. j \in 1..Len(r) /\ j + n \in 1..(i + n - 1)
      BY <1>4, <2>1
    <3> QED BY <1>1, <2>2, <3>1 DEF Before
  <2>3. ASSUME NEW j \in 1..(i + n - 1), At(q, j, op, a) PROVE Before(r, i, op, a)
    <3>1. j \in 1..Len(q)
      BY <1>4, <2>1
    <3>2. j - n \in 1..Len(r) /\ At(r, j - n, op, a)
      BY <1>2, <2>3, <3>1
    <3>3. j - n \in 1..(i - 1)
      BY <3>2
    <3> QED BY <3>2, <3>3 DEF Before
  <2> QED BY <2>2, <2>3 DEF Before
<1> QED BY <1>1, <1>3, <1>5

LEMMA Unmoved == \A q, ops, a : Same(q, q, 0, ops, a)
BY DEF Same

(* A queue that grows.                                                     *)
LEMMA Grows ==
  ASSUME NEW S, NEW q \in Seq(S), NEW s \in Seq(S), NEW a
  PROVE  /\ q \o s \in Seq(S) /\ Len(q \o s) = Len(q) + Len(s)
         /\ \A i \in 1..Len(q) : (q \o s)[i] = q[i]
         /\ \A i \in 1..Len(s) : (q \o s)[Len(q) + i] = s[i]
         /\ (\A i \in 1..Len(s) : ~(s[i].a = a /\ s[i].op \in Ops)) => Same(q, q \o s, 0, Ops, a)
<1> DEFINE r == q \o s
<1>1. /\ r \in Seq(S) /\ Len(r) = Len(q) + Len(s) /\ \A i \in 1..Len(q) : r[i] = q[i]
      /\ \A i \in 1..Len(s) : r[Len(q) + i] = s[i]
  OBVIOUS
<1>2. ASSUME \A i \in 1..Len(s) : ~(s[i].a = a /\ s[i].op \in Ops) PROVE Same(q, r, 0, Ops, a)
  <2> HIDE DEF r
  <2>1. ASSUME NEW i \in 1..Len(r), r[i].a = a, r[i].op \in Ops PROVE i \in 1..Len(q) /\ q[i] = r[i]
    <3>1. CASE i > Len(q)
      <4>1. i - Len(q) \in 1..Len(s) /\ Len(q) + (i - Len(q)) = i
        BY <1>1, <3>1
      <4>2. r[i] = s[i - Len(q)]
        BY <1>1, <4>1
      <4> QED BY <1>2, <2>1, <4>1, <4>2
    <3> QED BY <1>1, <2>1, <3>1
  <2> QED BY <1>1, <2>1 DEF Same
<1> QED BY <1>1, <1>2

LEMMA TailIs ==
  ASSUME NEW S, NEW q \in Seq(S), q # <<>>
  PROVE  Tail(q) = SubSeq(q, 2, Len(q)) /\ 1 \in 1..Len(q) /\ Head(q) = q[1]
OBVIOUS

(* An attach a step leaves alone.                                          *)
LEMMA PathKept ==
  ASSUME NEW a \in Attaches, Path(a), cmd \in Seq(Orders), out \in Seq(Items),
         cmd' \in Seq(Orders), out' \in Seq(Items), NEW n \in Nat, NEW m \in Nat,
         Same(cmd, cmd', n, Ops, a), Same(out, out', m, Ops, a),
         sock'[a] = sock[a], compress'[a] = compress[a], chan'[a] = chan[a], hole'[a] = hole[a],
         screen'[a] = screen[a], tty'[a] = tty[a], a \in route' => a \in route, a \in comp' <=> a \in comp
  PROVE  Path(a)'
<1>1. /\ \A op \in Ops : Has(cmd', op, a) <=> Has(cmd, op, a)
      /\ \A i \in 1..Len(cmd'), op \in Ops : At(cmd', i, op, a) => i + n \in 1..Len(cmd) /\ At(cmd, i + n, op, a)
      /\ \A i \in 1..Len(cmd'), op \in Ops :
           i + n \in 1..Len(cmd) => (Before(cmd', i, op, a) <=> Before(cmd, i + n, op, a))
  BY SameSays
<1>2. /\ \A op \in Ops : Has(out', op, a) <=> Has(out, op, a)
      /\ \A i \in 1..Len(out'), op \in Ops : At(out', i, op, a) => i + m \in 1..Len(out) /\ At(out, i + m, op, a)
      /\ \A i \in 1..Len(out'), op \in Ops :
           i + m \in 1..Len(out) => (Before(out', i, op, a) <=> Before(out, i + m, op, a))
  BY SameSays
<1>3. {"open", "close", "on", "off", "died", "output"} \subseteq Ops
  BY DEF Ops
<1>4. Silent(cmd', a) <=> Silent(cmd, a)
  BY <1>1 DEF Silent
<1>5. Silent(out', a) <=> Silent(out, a)
  BY <1>2 DEF Silent
<1>6. Fresh(a)'
  BY <1>4, <1>5 DEF Path, Fresh
<1>7. Awaited(a)'
  BY <1>1, <1>3, <1>5 DEF Path, Awaited
<1>8. Steady(a)'
  BY <1>1, <1>2, <1>3 DEF Path, Steady
<1>9. Agreed(a)' /\ Cleaned(a)'
  BY <1>1, <1>2, <1>3 DEF Path, Agreed, Cleaned
<1> QED BY <1>6, <1>7, <1>8, <1>9 DEF Path

(* One more message.                                                       *)
Adds(q, x, r) ==
  /\ Len(q) \in Nat /\ Len(r) = Len(q) + 1
  /\ \A i \in 1..Len(q) : r[i] = q[i]
  /\ r[Len(q) + 1] = x

LEMMA AppendAdds ==
  ASSUME NEW S, NEW q \in Seq(S), NEW x \in S
  PROVE  /\ Append(q, x) \in Seq(S) /\ Adds(q, x, Append(q, x))
         /\ q \o <<x>> = Append(q, x)
BY DEF Adds

LEMMA AddedAt ==
  ASSUME NEW q, NEW x, NEW r, Adds(q, x, r)
  PROVE  /\ \A i \in 1..Len(r) : i \in 1..Len(q) \/ i = Len(q) + 1
         /\ \A i \in 1..Len(q) : i \in 1..Len(r) /\ \A op, a : At(r, i, op, a) <=> At(q, i, op, a)
         /\ Len(q) + 1 \in 1..Len(r) /\ \A op, a : At(r, Len(q) + 1, op, a) <=> x.op = op /\ x.a = a
BY DEF Adds, At

LEMMA AddedHas ==
  ASSUME NEW q, NEW x, NEW r, Adds(q, x, r)
  PROVE  \A op, a : Has(r, op, a) <=> Has(q, op, a) \/ (x.op = op /\ x.a = a)
BY AddedAt DEF Has

LEMMA AddedBefore ==
  ASSUME NEW q, NEW x, NEW r, Adds(q, x, r)
  PROVE  /\ \A i \in 1..Len(q) : \A op, a : Before(r, i, op, a) <=> Before(q, i, op, a)
         /\ \A op, a : Before(r, Len(q) + 1, op, a) <=> Has(q, op, a)
<1>1. Len(q) \in Nat
  BY DEF Adds
<1>2. ASSUME NEW i \in 1..Len(q), NEW op, NEW a PROVE Before(r, i, op, a) <=> Before(q, i, op, a)
  <2>1. \A j \in 1..(i - 1) : j \in 1..Len(q)
    BY <1>1
  <2> QED BY <2>1, AddedAt DEF Before
<1>3. 1..(Len(q) + 1 - 1) = 1..Len(q)
  BY <1>1
<1>4. \A op, a : Before(r, Len(q) + 1, op, a) <=> Has(q, op, a)
  BY <1>3, AddedAt DEF Before, Has
<1> QED BY <1>2, <1>4

LEMMA AddedSame ==
  ASSUME NEW q, NEW x, NEW r, Adds(q, x, r), NEW a, ~(x.a = a /\ x.op \in Ops)
  PROVE  Same(q, r, 0, Ops, a)
<1>1. ASSUME NEW i \in 1..Len(r), r[i].a = a, r[i].op \in Ops PROVE i \in 1..Len(q) /\ q[i] = r[i]
  BY <1>1 DEF Adds
<1>2. \A i \in 1..Len(q) : i \in 1..Len(r) /\ r[i] = q[i]
  BY DEF Adds
<1> QED BY <1>1, <1>2 DEF Same

(* The next n messages are gone.                                           *)
Drops(q, n, r) ==
  /\ Len(q) \in Nat /\ n \in 1..Len(q) /\ Len(r) = Len(q) - n
  /\ \A i \in 1..Len(r) : i + n \in 1..Len(q) /\ r[i] = q[i + n]

LEMMA SubSeqDrops ==
  ASSUME NEW S, NEW q \in Seq(S), NEW n \in 1..Len(q)
  PROVE  SubSeq(q, n + 1, Len(q)) \in Seq(S) /\ Drops(q, n, SubSeq(q, n + 1, Len(q)))
BY DEF Drops

LEMMA Removed ==
  ASSUME NEW q, NEW n, NEW r, Drops(q, n, r)
  PROVE  /\ Len(r) = Len(q) - n /\ \A i \in 1..Len(r) : i + n \in 1..Len(q)
         /\ \A i \in 1..Len(r) : \A op, a : At(r, i, op, a) <=> At(q, i + n, op, a)
         /\ \A op, a : Has(r, op, a) => Has(q, op, a)
         /\ \A i \in 1..Len(r) : \A op, a : Before(r, i, op, a) => Before(q, i + n, op, a)
         /\ \A op, a : (\A j \in 1..n : ~At(q, j, op, a)) =>
              /\ Has(q, op, a) => Has(r, op, a)
              /\ \A i \in 1..Len(r) : Before(q, i + n, op, a) => Before(r, i, op, a)
         /\ \A a : (\A j \in 1..n : ~(q[j].a = a /\ q[j].op \in Ops)) => Same(q, r, n, Ops, a)
<1>1. /\ n \in Nat /\ n \in 1..Len(q) /\ Len(r) = Len(q) - n /\ Len(q) \in Nat
      /\ \A i \in 1..Len(r) : i + n \in 1..Len(q) /\ r[i] = q[i + n]
  BY DEF Drops
<1>2. \A i \in 1..Len(r) : \A op, a : At(r, i, op, a) <=> At(q, i + n, op, a)
  BY <1>1 DEF At
<1>3. \A op, a : Has(r, op, a) => Has(q, op, a)
  BY <1>1, <1>2 DEF Has
<1>4. \A i \in 1..Len(r) : \A op, a : Before(r, i, op, a) => Before(q, i + n, op, a)
  <2> SUFFICES ASSUME NEW i \in 1..Len(r), NEW op, NEW a, NEW j \in 1..(i - 1), At(r, j, op, a)
               PROVE  Before(q, i + n, op, a)
    BY DEF Before
  <2>1. j \in 1..Len(r) /\ j + n \in 1..(i + n - 1)
    BY <1>1
  <2>2. At(q, j + n, op, a)
    BY <1>2, <2>1
  <2> QED BY <1>1, <2>1, <2>2 DEF Before
<1>5. ASSUME NEW op, NEW a, \A j \in 1..n : ~At(q, j, op, a)
      PROVE  /\ Has(q, op, a) => Has(r, op, a)
             /\ \A i \in 1..Len(r) : Before(q, i + n, op, a) => Before(r, i, op, a)
  <2>1. ASSUME NEW j \in 1..Len(q), At(q, j, op, a) PROVE j - n \in 1..Len(r) /\ At(r, j - n, op, a)
    <3>1. ~(j \in 1..n)
      BY <1>5, <2>1
    <3>2. j - n \in 1..Len(r) /\ (j - n) + n = j
      BY <1>1, <3>1
    <3> QED BY <1>2, <2>1, <3>2
  <2>2. ASSUME NEW i \in 1..Len(r), NEW j \in 1..(i + n - 1), At(q, j, op, a) PROVE Before(r, i, op, a)
    <3>1. j \in 1..Len(q) /\ j - n <= i - 1
      BY <1>1
    <3>2. j - n \in 1..Len(r) /\ At(r, j - n, op, a)
      BY <2>1, <2>2, <3>1
    <3>3. j - n \in 1..(i - 1)
      BY <3>1, <3>2
    <3> QED BY <3>2, <3>3 DEF Before
  <2>3. Has(q, op, a) => Has(r, op, a)
    BY <2>1 DEF Has
  <2>4. \A i \in 1..Len(r) : Before(q, i + n, op, a) => Before(r, i, op, a)
    <3> SUFFICES ASSUME NEW i \in 1..Len(r), Before(q, i + n, op, a) PROVE Before(r, i, op, a)
      OBVIOUS
    <3>1. PICK j \in 1..(i + n - 1) : At(q, j, op, a)
      BY <1>1 DEF Before
    <3> QED BY <2>2, <3>1
  <2> QED BY <2>3, <2>4
<1>6. ASSUME NEW a, \A j \in 1..n : ~(q[j].a = a /\ q[j].op \in Ops) PROVE Same(q, r, n, Ops, a)
  <2>1. ASSUME NEW i \in 1..Len(q), q[i].a = a, q[i].op \in Ops PROVE i - n \in 1..Len(r) /\ r[i - n] = q[i]
    <3>1. i > n
      BY <1>1, <1>6, <2>1
    <3>2. i - n \in 1..Len(r) /\ (i - n) + n = i
      BY <1>1, <3>1
    <3> QED BY <1>1, <3>2
  <2> QED BY <1>1, <2>1 DEF Same
<1> QED BY <1>1, <1>2, <1>3, <1>4, <1>5, <1>6

LEMMA TailRemoved ==
  ASSUME NEW S, NEW q \in Seq(S), q # <<>>, NEW r, r = Tail(q)
  PROVE  /\ r \in Seq(S) /\ Len(r) = Len(q) - 1 /\ Len(q) \in Nat /\ 1 \in 1..Len(q) /\ Head(q) = q[1]
         /\ \A i \in 1..Len(r) : i + 1 \in 1..Len(q) /\ 1 \in 1..(i + 1 - 1)
         /\ \A i \in 1..Len(r) : \A op, a : At(r, i, op, a) <=> At(q, i + 1, op, a)
         /\ \A op, a : Has(r, op, a) => Has(q, op, a)
         /\ \A i \in 1..Len(r) : \A op, a : Before(r, i, op, a) => Before(q, i + 1, op, a)
         /\ \A op, a : ~At(q, 1, op, a) =>
              /\ Has(q, op, a) => Has(r, op, a)
              /\ \A i \in 1..Len(r) : Before(q, i + 1, op, a) => Before(r, i, op, a)
         /\ \A a : ~(q[1].a = a /\ q[1].op \in Ops) => Same(q, r, 1, Ops, a)
<1>1. PICK n : n = 1
  OBVIOUS
<1>2. r = SubSeq(q, n + 1, Len(q)) /\ n \in 1..Len(q) /\ Head(q) = q[1] /\ Len(q) \in Nat
  BY <1>1
<1>3. \A j \in 1..n : j = 1
  BY <1>1
<1>8. r \in Seq(S) /\ Drops(q, n, r)
  BY <1>2, SubSeqDrops
<1>4. /\ Len(r) = Len(q) - n /\ \A i \in 1..Len(r) : i + n \in 1..Len(q)
      /\ \A i \in 1..Len(r) : \A op, a : At(r, i, op, a) <=> At(q, i + n, op, a)
      /\ \A op, a : Has(r, op, a) => Has(q, op, a)
      /\ \A i \in 1..Len(r) : \A op, a : Before(r, i, op, a) => Before(q, i + n, op, a)
      /\ \A op, a : (\A j \in 1..n : ~At(q, j, op, a)) =>
           /\ Has(q, op, a) => Has(r, op, a)
           /\ \A i \in 1..Len(r) : Before(q, i + n, op, a) => Before(r, i, op, a)
      /\ \A a : (\A j \in 1..n : ~(q[j].a = a /\ q[j].op \in Ops)) => Same(q, r, n, Ops, a)
  BY <1>8, Removed
<1>5. \A i \in 1..Len(r) : 1 \in 1..(i + 1 - 1)
  BY <1>2, <1>4
<1>6. \A op, a : ~At(q, 1, op, a) => \A j \in 1..n : ~At(q, j, op, a)
  BY <1>3
<1>7. \A a : ~(q[1].a = a /\ q[1].op \in Ops) => \A j \in 1..n : ~(q[j].a = a /\ q[j].op \in Ops)
  BY <1>3
<1> QED BY <1>1, <1>2, <1>4, <1>5, <1>6, <1>7, <1>8

LEMMA SameTwice ==
  ASSUME NEW q, NEW r, NEW s, NEW ops, NEW a, Same(q, r, 0, ops, a), Same(r, s, 0, ops, a)
  PROVE  Same(q, s, 0, ops, a)
BY DEF Same

-----------------------------------------------------------------------------
LEMMA InitAttachInv == AttachInit => AttachInv
<1> SUFFICES ASSUME AttachInit PROVE AttachInv
  OBVIOUS
<1>1. /\ sock = [a \in Attaches |-> "new"] /\ compress = [a \in Attaches |-> FALSE]
      /\ route = {} /\ paint = {} /\ comp = {} /\ cmd = <<>> /\ out = <<>>
      /\ notices = <<>> /\ pending = {} /\ unheard = {} /\ chan = [a \in Attaches |-> <<>>]
      /\ hole = [a \in Attaches |-> FALSE] /\ screen = [a \in Attaches |-> "blank"]
      /\ mconn = 0 /\ opened = 0 /\ conn = 0 /\ printed = 0
      /\ serving = [c \in Conns |-> "no"] /\ via = [a \in Attaches |-> 0]
      /\ tty = [a \in Attaches |-> "none"]
  BY DEF AttachInit
<1>2. AttachTyped
  <2>1. chan \in [Attaches -> Seq(Frames)] /\ \A a \in Attaches : chan[a] = <<>> /\ chan[a] \in Seq(Frames)
    BY <1>1
  <2>2. OutCap \in Nat /\ ResyncCap \in Nat /\ MaxPrints \in Nat /\ MaxConns \in Nat
    BY CapsAssumption
  <2>3. cmd \in Seq(Orders) /\ out \in Seq(Items) /\ notices \in Seq(Attaches)
    BY <1>1, EmptySeq
  <2>4. IsFiniteSet(pending)
    BY <1>1, FS_EmptySet
  <2>5. Len(notices) <= ResyncCap /\ \A a \in Attaches : Len(chan[a]) <= OutCap
    BY <1>1, <2>1, <2>2
  <2>6. {mconn, opened, conn} \subseteq Conns \cup {0} /\ printed \in 0..MaxPrints
    BY <1>1, <2>2
  <2>7. compress \in [Attaches -> BOOLEAN] /\ hole \in [Attaches -> BOOLEAN]
    BY <1>1, Zenon
  <2> QED BY <1>1, <2>1, <2>3, <2>4, <2>5, <2>6, <2>7 DEF AttachTyped, AttachTypeOK, Ttys
<1>3. Linked
  BY <1>1 DEF Linked
<1>4. ASSUME NEW a \in Attaches PROVE Path(a)
  <2>1. \A op : ~Has(cmd, op, a) /\ ~Has(out, op, a)
    BY <1>1 DEF Has
  <2>2. ~compress[a] /\ ~hole[a] /\ a \notin comp /\ a \notin route
    BY <1>1
  <2>3. Silent(cmd, a) /\ Silent(out, a)
    BY <2>1 DEF Silent
  <2>4. Len(cmd) = 0 /\ Len(out) = 0 /\ chan[a] = <<>> /\ sock[a] = "new" /\ tty[a] = "none" /\ screen[a] = "blank"
    BY <1>1
  <2> QED BY <2>1, <2>2, <2>3, <2>4 DEF Path, Fresh, Awaited, Steady, Agreed, Cleaned
<1> QED BY <1>2, <1>3, <1>4 DEF AttachInv

(* The hub orders something: the order may be lost, but only together with *)
(* everything the connection carried.                                      *)
LEMMA TellSays ==
  ASSUME AttachInv, NEW msgs \in Seq(Orders), Tell(msgs)
  PROVE  /\ (cmd' = cmd \o msgs /\ mconn # 0) \/ cmd' = cmd
         /\ mconn # 0 /\ conn # 0 => cmd' = cmd \o msgs
         /\ cmd' \in Seq(Orders)
<1>1. cmd \in Seq(Orders) /\ (mconn # 0 => conn = mconn)
  BY DEF AttachInv, AttachTyped, Linked
<1> QED BY <1>1 DEF Tell

(* The steps of the hub's end of a socket, for the other sockets.          *)
LEMMA OthersKept ==
  ASSUME AttachInv, NEW a \in Attaches, NEW b \in Attaches, b # a,
         cmd' = cmd \/ (\E x \in Orders : x.a = a /\ cmd' \in Seq(Orders) /\ Adds(cmd, x, cmd')),
         out' = out \/ (\E x \in Items : x.a = a /\ out' \in Seq(Items) /\ Adds(out, x, out')),
         sock'[b] = sock[b], compress'[b] = compress[b], chan'[b] = chan[b], hole'[b] = hole[b],
         screen'[b] = screen[b], tty'[b] = tty[b], b \in route' => b \in route, b \in comp' <=> b \in comp
  PROVE  Path(b)'
<1>1. cmd \in Seq(Orders) /\ out \in Seq(Items) /\ Path(b)
  BY DEF AttachInv, AttachTyped
<1>2. cmd' \in Seq(Orders) /\ Same(cmd, cmd', 0, Ops, b)
  <2>1. ASSUME NEW x \in Orders, x.a = a, cmd' \in Seq(Orders), Adds(cmd, x, cmd') PROVE cmd' \in Seq(Orders) /\ Same(cmd, cmd', 0, Ops, b)
    BY <1>1, <2>1, AddedAt, AddedHas, AddedBefore, AddedSame
  <2> QED BY <1>1, <2>1, Unmoved
<1>3. out' \in Seq(Items) /\ Same(out, out', 0, Ops, b)
  <2>1. ASSUME NEW x \in Items, x.a = a, out' \in Seq(Items), Adds(out, x, out') PROVE out' \in Seq(Items) /\ Same(out, out', 0, Ops, b)
    BY <1>1, <2>1, AddedAt, AddedHas, AddedBefore, AddedSame
  <2> QED BY <1>1, <2>1, Unmoved
<1> QED BY <1>1, <1>2, <1>3, PathKept

LEMMA OpenSocketInv == ASSUME AttachInv, NEW a \in Attaches, OpenSocket(a) PROVE AttachInv'
<1> DEFINE agreed == a \in Asking /\ conn # 0
<1>1. /\ sock[a] = "new" /\ compress' = [compress EXCEPT ![a] = agreed]
      /\ sock' = [sock EXCEPT ![a] = "asking"] /\ route' = route \cup {a}
      /\ UNCHANGED <<chan, hole, screen, mconn, opened, conn, serving, cmd, out, notices, pending, unheard,
                     via, tty, paint, comp, printed>>
  BY DEF OpenSocket, Registered, links, resync, machine
<1>2. agreed \in BOOLEAN
  BY Zenon
<1> HIDE DEF agreed
<1>3. AttachTyped'
  BY <1>1, <1>2 DEF AttachInv, AttachTyped, AttachTypeOK
<1>4. Linked'
  BY <1>1 DEF AttachInv, Linked
<1>5. \A b \in Attaches : sock'[b] = (IF b = a THEN "asking" ELSE sock[b]) /\ (b # a => compress'[b] = compress[b])
  BY <1>1 DEF AttachInv, AttachTyped, AttachTypeOK
<1>6. ASSUME NEW b \in Attaches, b # a PROVE Path(b)'
  BY <1>1, <1>5, <1>6, OthersKept
<1>7. Path(a)'
  <2>1. Fresh(a)' /\ Silent(cmd', a) /\ Silent(out', a) /\ chan'[a] = <<>> /\ ~hole'[a] /\ a \notin comp'
    BY <1>1 DEF AttachInv, Path, Fresh
  <2>2. \A op \in Ops : ~Has(cmd', op, a) /\ ~Has(out', op, a)
    BY <2>1 DEF Silent
  <2>3. Awaited(a)'
    BY <2>2 DEF Awaited, Has, Ops
  <2>4. Agreed(a)'
    BY <1>1, <2>1, <2>2 DEF AttachInv, Path, Agreed, Ops
  <2> QED BY <1>5, <2>1, <2>3, <2>4 DEF Path, Steady, Cleaned
<1> QED BY <1>3, <1>4, <1>6, <1>7 DEF AttachInv

LEMMA RefuseAttachInv == ASSUME AttachInv, NEW a \in Attaches, RefuseAttach(a) PROVE AttachInv'
<1>1. /\ sock[a] = "asking" /\ sock' = [sock EXCEPT ![a] = "closed"] /\ route' = route \ {a}
      /\ UNCHANGED <<compress, chan, hole, screen, mconn, opened, conn, serving, cmd, out, notices, pending, unheard,
                     via, tty, paint, comp, printed>>
  BY DEF RefuseAttach, Unregistered, links, resync, machine
<1>3. AttachTyped'
  BY <1>1 DEF AttachInv, AttachTyped, AttachTypeOK
<1>4. Linked'
  BY <1>1 DEF AttachInv, Linked
<1>5. \A b \in Attaches : sock'[b] = IF b = a THEN "closed" ELSE sock[b]
  BY <1>1 DEF AttachInv, AttachTyped, AttachTypeOK
<1>6. ASSUME NEW b \in Attaches, b # a PROVE Path(b)'
  BY <1>1, <1>5, <1>6, OthersKept
<1>7. Path(a)'
  <2>1. Silent(cmd', a) /\ tty'[a] = "none"
    BY <1>1 DEF AttachInv, Path, Fresh
  <2>2. \A op \in Ops : ~Has(cmd', op, a)
    BY <2>1 DEF Silent
  <2>3. Awaited(a)'
    BY <2>2 DEF Awaited, Has, Ops
  <2>4. Agreed(a)'
    BY <1>1 DEF AttachInv, Path, Agreed
  <2> QED BY <1>1, <1>5, <2>1, <2>2, <2>3, <2>4 DEF Path, Fresh, Steady, Cleaned, Ops
<1> QED BY <1>3, <1>4, <1>6, <1>7 DEF AttachInv

LEMMA RequestAttachInv == ASSUME AttachInv, NEW a \in Attaches, RequestAttach(a) PROVE AttachInv'
<1> DEFINE order == Say("open", a)
<1>1. /\ sock[a] = "asking" /\ sock' = [sock EXCEPT ![a] = "open"] /\ via' = [via EXCEPT ![a] = conn]
      /\ Tell(<<order>>) /\ conn # 0
      /\ UNCHANGED <<compress, route, chan, hole, screen, mconn, opened, conn, serving, out, notices, pending, unheard,
                     tty, paint, comp, printed>>
  BY DEF RequestAttach, links, resync
<1>2. order \in Orders /\ order.a = a /\ order.op = "open" /\ order.op \in Ops
  BY DEF Orders, Say, Ops
<1> HIDE DEF order
<1>3. cmd' \in Seq(Orders) /\ (cmd' = cmd \/ (Adds(cmd, order, cmd') /\ mconn # 0))
  <2>1. <<order>> \in Seq(Orders) /\ cmd \in Seq(Orders)
    BY <1>2 DEF AttachInv, AttachTyped
  <2>2. Adds(cmd, order, cmd \o <<order>>)
    BY <1>2, <2>1, AppendAdds
  <2> QED BY <1>1, <2>1, <2>2, TellSays
<1>4. AttachTyped'
  BY <1>1, <1>3 DEF AttachInv, AttachTyped, AttachTypeOK
<1>5. Linked'
  BY <1>1, <1>3 DEF AttachInv, Linked
<1>6. \A b \in Attaches : sock'[b] = IF b = a THEN "open" ELSE sock[b]
  BY <1>1 DEF AttachInv, AttachTyped, AttachTypeOK
<1>7. ASSUME NEW b \in Attaches, b # a PROVE Path(b)'
  BY <1>1, <1>2, <1>3, <1>6, <1>7, OthersKept
<1>8. Path(a)'
  <2>1. Silent(cmd, a) /\ Silent(out, a) /\ tty[a] = "none" /\ a \notin comp
    BY <1>1 DEF AttachInv, Path, Fresh
  <2>2. \A op \in Ops : ~Has(cmd, op, a) /\ ~Has(out', op, a)
    BY <1>1, <2>1 DEF Silent
  <2>3. \A i \in 1..Len(cmd'), op \in Ops : ~Before(cmd', i, op, a) /\ (Has(cmd', op, a) => op = "open")
    <3>1. CASE cmd' = cmd
      BY <2>2, <3>1 DEF Has, Before
    <3>2. CASE Adds(cmd, order, cmd')
      <4>1. cmd \in Seq(Orders)
        BY DEF AttachInv, AttachTyped
      <4>2. /\ Len(cmd') = Len(cmd) + 1 /\ Len(cmd) \in Nat
            /\ \A op : Has(cmd', op, a) <=> Has(cmd, op, a) \/ (order.op = op /\ order.a = a)
            /\ \A i \in 1..Len(cmd) : \A op : Before(cmd', i, op, a) <=> Before(cmd, i, op, a)
            /\ \A op : Before(cmd', Len(cmd) + 1, op, a) <=> Has(cmd, op, a)
        <5>1. Len(cmd) \in Nat
          BY <4>1
        <5>2. order \in Orders
          BY <1>2
        <5> QED BY <3>2, <4>1, <5>1, <5>2, AddedAt, AddedHas, AddedBefore, AddedSame
      <4>3. \A i \in 1..Len(cmd), op \in Ops : ~Before(cmd, i, op, a)
        BY <2>2, <4>2 DEF Before, Has
      <4>4. \A i \in 1..Len(cmd') : i \in 1..Len(cmd) \/ i = Len(cmd) + 1
        BY <4>2
      <4> QED BY <1>2, <2>2, <4>2, <4>3, <4>4
    <3> QED BY <1>3, <3>1, <3>2
  <2>4. Awaited(a)'
    BY <1>1, <2>1, <2>3 DEF Awaited, Ops
  <2>5. Agreed(a)'
    BY <1>1 DEF AttachInv, Path, Agreed
  <2>6. Steady(a)'
    <3>1. ~Has(cmd', "close", a)
      <4>1. "close" \in Ops /\ "close" # "open"
        BY DEF Ops
      <4>2. \A i \in 1..Len(cmd') : TRUE => (Has(cmd', "close", a) => "close" = "open")
        BY <2>3, <4>1
      <4> QED BY <4>1, <4>2 DEF Has
    <3>2. \A i \in 1..Len(out') : \A op \in Ops : ~At(out', i, op, a)
      BY <2>2 DEF Has
    <3> QED BY <1>1, <2>1, <2>2, <3>1, <3>2 DEF Steady, Ops
  <2> QED BY <1>6, <2>4, <2>5, <2>6 DEF Path, Fresh, Cleaned
<1> QED BY <1>4, <1>5, <1>7, <1>8 DEF AttachInv

(* A frame leaves the channel for the screen.                              *)
LEMMA ReadFrameInv == ASSUME AttachInv, NEW a \in Attaches, ReadFrame(a) PROVE AttachInv'
<1> DEFINE f == Head(chan[a])
<1>1. /\ sock[a] = "open" /\ chan[a] # <<>> /\ screen' = [screen EXCEPT ![a] = Shown(a, f)]
      /\ chan' = [chan EXCEPT ![a] = Tail(chan[a])]
      /\ UNCHANGED <<sock, compress, route, hole, mconn, opened, conn, serving, cmd, out, notices, pending, unheard,
                     via, tty, paint, comp, printed>>
  BY DEF ReadFrame, links, resync, machine
<1>2. /\ chan[a] \in Seq(Frames) /\ chan \in [Attaches -> Seq(Frames)] /\ Len(chan[a]) <= OutCap
      /\ compress[a] \in BOOLEAN
      /\ \A i \in 1..Len(chan[a]) : chan[a][i].comp = compress[a] /\ (compress[a] => ~chan[a][i].holed)
      /\ screen[a] # "garbage" /\ screen[a] \in {"blank", "whole", "torn", "garbage"}
  BY DEF AttachInv, AttachTyped, AttachTypeOK, Path, Agreed
<1>3. f \in Frames /\ f.comp = compress[a] /\ (compress[a] => ~f.holed)
  <2>1. f = chan[a][1] /\ 1 \in 1..Len(chan[a]) /\ f \in Frames
    BY <1>1, <1>2
  <2> QED BY <1>2, <2>1
<1>4. Shown(a, f) \in {"blank", "whole", "torn"}
  <2> HIDE DEF f
  <2>1. ~(screen[a] = "garbage" \/ f.comp # compress[a] \/ (f.comp /\ f.holed))
    BY <1>2, <1>3
  <2> QED BY <1>2, <2>1 DEF Shown
<1>5. /\ Tail(chan[a]) \in Seq(Frames) /\ Len(Tail(chan[a])) = Len(chan[a]) - 1 /\ Len(chan[a]) \in Nat
      /\ \A i \in 1..Len(Tail(chan[a])) : i + 1 \in 1..Len(chan[a]) /\ Tail(chan[a])[i] = chan[a][i + 1]
  BY <1>1, <1>2
<1> HIDE DEF f
<1>6. /\ chan' \in [Attaches -> Seq(Frames)]
      /\ \A b \in Attaches : chan'[b] = (IF b = a THEN Tail(chan[a]) ELSE chan[b])
      /\ \A b \in Attaches : screen'[b] = (IF b = a THEN Shown(a, f) ELSE screen[b])
  BY <1>1, <1>2, <1>5 DEF AttachInv, AttachTyped, AttachTypeOK
<1>7. AttachTyped'
  <2>1. \A b \in Attaches : chan'[b] \in Seq(Frames) /\ Len(chan'[b]) <= OutCap
    BY <1>2, <1>5, <1>6, CapsAssumption DEF AttachInv, AttachTyped, AttachTypeOK
  <2>2. screen' \in [Attaches -> {"blank", "whole", "torn", "garbage"}]
    BY <1>1, <1>4 DEF AttachInv, AttachTyped, AttachTypeOK
  <2> QED BY <1>1, <1>6, <2>1, <2>2 DEF AttachInv, AttachTyped, AttachTypeOK
<1>8. Linked'
  BY <1>1 DEF AttachInv, Linked
<1>9. ASSUME NEW b \in Attaches, b # a PROVE Path(b)'
  BY <1>1, <1>6, <1>9, OthersKept
<1>10. Path(a)'
  <2>1. Agreed(a)'
    <3>1. screen'[a] # "garbage" /\ chan'[a] = Tail(chan[a])
      BY <1>4, <1>6
    <3>2. \A i \in 1..Len(chan'[a]) : chan'[a][i].comp = compress[a] /\ (compress[a] => ~chan'[a][i].holed)
      BY <1>2, <1>5, <3>1
    <3> QED BY <1>1, <3>1, <3>2 DEF AttachInv, Path, Agreed
  <2>2. Awaited(a)' /\ Steady(a)' /\ Cleaned(a)' /\ Fresh(a)'
    BY <1>1 DEF AttachInv, Path, Awaited, Steady, Cleaned, Fresh
  <2> QED BY <2>1, <2>2 DEF Path
<1> QED BY <1>7, <1>8, <1>9, <1>10 DEF AttachInv

LEMMA EndSocketInv ==
  ASSUME AttachInv, NEW a \in Attaches, BrowserLeaves(a) \/ SenderDropped(a)
  PROVE  AttachInv'
<1>1. /\ sock[a] = "open" /\ sock' = [sock EXCEPT ![a] = "closing"] /\ chan' = [chan EXCEPT ![a] = <<>>]
      /\ hole' = [hole EXCEPT ![a] = FALSE] /\ screen' = [screen EXCEPT ![a] = "blank"]
      /\ unheard' = unheard \ {a}
      /\ UNCHANGED <<compress, route, mconn, opened, conn, serving, cmd, out, notices, pending,
                     via, tty, paint, comp, printed>>
  BY DEF BrowserLeaves, SenderDropped, EndSocket, links, machine
<1>2. /\ chan \in [Attaches -> Seq(Frames)] /\ hole \in [Attaches -> BOOLEAN] /\ OutCap \in Nat
  BY CapsAssumption DEF AttachInv, AttachTyped, AttachTypeOK
<1>3. /\ chan' \in [Attaches -> Seq(Frames)]
      /\ \A b \in Attaches : chan'[b] = (IF b = a THEN <<>> ELSE chan[b])
  BY <1>1, <1>2
<1>4. /\ hole' \in [Attaches -> BOOLEAN] /\ ~hole'[a]
      /\ \A b \in Attaches : b # a => hole'[b] = hole[b]
  BY <1>1, <1>2
<1>5. \A b \in Attaches : /\ sock'[b] = (IF b = a THEN "closing" ELSE sock[b])
                          /\ screen'[b] = (IF b = a THEN "blank" ELSE screen[b])
  BY <1>1 DEF AttachInv, AttachTyped, AttachTypeOK
<1>6. AttachTyped'
  <2>1. \A b \in Attaches : chan'[b] \in Seq(Frames) /\ Len(chan'[b]) <= OutCap
    BY <1>2, <1>3 DEF AttachInv, AttachTyped, AttachTypeOK
  <2> QED BY <1>1, <1>3, <1>4, <2>1 DEF AttachInv, AttachTyped, AttachTypeOK
<1>7. Linked'
  BY <1>1 DEF AttachInv, Linked
<1>8. ASSUME NEW b \in Attaches, b # a PROVE Path(b)'
  BY <1>1, <1>3, <1>4, <1>5, <1>8, OthersKept
<1>9. Path(a)'
  <2>1. Agreed(a)'
    BY <1>1, <1>3, <1>4, <1>5 DEF AttachInv, Path, Agreed
  <2>2. Awaited(a)'
    BY <1>1, <1>5 DEF AttachInv, Path, Awaited
  <2> QED BY <1>5, <2>1, <2>2 DEF Path, Fresh, Steady, Cleaned
<1> QED BY <1>6, <1>7, <1>8, <1>9 DEF AttachInv

LEMMA CleanUpInv == ASSUME AttachInv, NEW a \in Attaches, CleanUp(a) PROVE AttachInv'
<1> DEFINE order == Say("close", a)
<1>1. /\ sock[a] = "closing" /\ sock' = [sock EXCEPT ![a] = "closed"] /\ route' = route \ {a}
      /\ Tell(<<order>>)
      /\ UNCHANGED <<compress, chan, hole, screen, mconn, opened, conn, serving, out, notices, pending, unheard,
                     via, tty, paint, comp, printed>>
  BY DEF CleanUp, Unregistered, links, resync, machine
<1>2. order \in Orders /\ order.a = a /\ order.op = "close"
  BY DEF Orders, Say
<1> HIDE DEF order
<1>3. /\ cmd \in Seq(Orders) /\ cmd' \in Seq(Orders)
      /\ (cmd' = cmd /\ mconn = 0) \/ (Adds(cmd, order, cmd') /\ mconn # 0)
  <2>1. <<order>> \in Seq(Orders) /\ cmd \in Seq(Orders)
    BY <1>2 DEF AttachInv, AttachTyped
  <2>2. Adds(cmd, order, cmd \o <<order>>)
    BY <1>2, <2>1, AppendAdds
  <2>3. mconn # 0 => conn = mconn
    BY DEF AttachInv, Linked
  <2> QED BY <1>1, <2>1, <2>2, <2>3, TellSays
<1>4. AttachTyped'
  BY <1>1, <1>3 DEF AttachInv, AttachTyped, AttachTypeOK
<1>5. Linked'
  BY <1>1, <1>3 DEF AttachInv, Linked
<1>6. \A b \in Attaches : sock'[b] = IF b = a THEN "closed" ELSE sock[b]
  BY <1>1 DEF AttachInv, AttachTyped, AttachTypeOK
<1>7. ASSUME NEW b \in Attaches, b # a PROVE Path(b)'
  BY <1>1, <1>2, <1>3, <1>6, <1>7, OthersKept
<1>8. Path(a)'
  <2>1. Agreed(a)'
    BY <1>1 DEF AttachInv, Path, Agreed
  <2>2. Awaited(a)' /\ Cleaned(a)'
    <3>1. CASE cmd' = cmd /\ mconn = 0
      <4>1. cmd = <<>> /\ tty[a] \in {"none", "gone"}
        BY <3>1 DEF AttachInv, Linked
      <4>2. \A op : ~Has(cmd', op, a)
        BY <3>1, <4>1 DEF Has
      <4>3. Awaited(a)'
        BY <4>2 DEF Has, Awaited
      <4> QED BY <1>1, <1>6, <4>1, <4>2, <4>3 DEF Cleaned
    <3>2. CASE Adds(cmd, order, cmd')
      <4>1. /\ Len(cmd') = Len(cmd) + 1
            /\ \A op, b : Has(cmd', op, b) <=> Has(cmd, op, b) \/ (order.op = op /\ order.a = b)
            /\ \A i \in 1..Len(cmd) : \A op, b : At(cmd', i, op, b) <=> At(cmd, i, op, b)
            /\ \A op, b : At(cmd', Len(cmd) + 1, op, b) <=> order.op = op /\ order.a = b
            /\ \A i \in 1..Len(cmd) : \A op, b : Before(cmd', i, op, b) <=> Before(cmd, i, op, b)
        BY <1>2, <1>3, <3>2, AddedAt, AddedHas, AddedBefore, AddedSame
      <4>2. Has(cmd', "close", a)
        BY <1>2, <4>1
      <4>3. \A i \in 1..Len(cmd') : At(cmd', i, "open", a) => i \in 1..Len(cmd)
        BY <1>2, <1>3, <4>1
      <4>4. Awaited(a)'
        BY <1>6, <4>1, <4>3 DEF AttachInv, Path, Awaited
      <4> QED BY <1>1, <1>6, <4>2, <4>4 DEF Cleaned
    <3> QED BY <1>3, <3>1, <3>2
  <2> QED BY <1>6, <2>1, <2>2 DEF Path, Fresh, Steady
<1> QED BY <1>4, <1>5, <1>7, <1>8 DEF AttachInv

-----------------------------------------------------------------------------
(* Connections.                                                            *)

(* A step that changes nothing about any attach but perhaps drops routes.  *)
LEMMA AllKept ==
  ASSUME AttachInv, UNCHANGED <<sock, compress, chan, hole, screen, cmd, out, tty, comp>>, route' \subseteq route
  PROVE  \A a \in Attaches : Path(a)'
<1> SUFFICES ASSUME NEW a \in Attaches PROVE Path(a)'
  OBVIOUS
<1>1. Path(a) /\ cmd \in Seq(Orders) /\ out \in Seq(Items)
  BY DEF AttachInv, AttachTyped
<1> QED BY <1>1, Unmoved, PathKept

LEMMA ConnectionInv ==
  ASSUME AttachInv, Connect \/ \E c \in Conns : EndServing(c) \/ DropRoutes(c)
  PROVE  AttachInv'
<1>1. /\ UNCHANGED <<sock, compress, chan, hole, screen, cmd, out, tty, comp, paint, via, printed, notices, pending,
                     unheard>>
      /\ route' \subseteq route
  BY DEF Connect, EndServing, DropRoutes, browser, resync, machine
<1>2. \A a \in Attaches : Path(a)'
  BY <1>1, AllKept
<1>3. /\ MaxConns \in Nat /\ opened \in Nat /\ mconn \in 0..opened /\ conn \in 0..opened /\ opened \in Conns \cup {0}
      /\ (mconn # 0 => conn = mconn) /\ serving \in [Conns -> {"no", "yes", "dropping", "over"}]
      /\ conn # 0 => serving[conn] = "yes"
      /\ mconn \in Conns \cup {0} /\ conn \in Conns \cup {0}
  BY CapsAssumption DEF AttachInv, AttachTyped, AttachTypeOK, Linked, Conns
<1>4. /\ mconn' \in Conns \cup {0} /\ opened' \in Conns \cup {0} /\ conn' \in Conns \cup {0}
      /\ mconn' \in 0..opened' /\ conn' \in 0..opened'
      /\ mconn' # 0 => conn' = mconn'
      /\ serving' \in [Conns -> {"no", "yes", "dropping", "over"}]
      /\ conn' # 0 => serving'[conn'] = "yes"
      /\ mconn' = 0 => mconn = 0
  <2>1. CASE Connect
    <3>1. /\ mconn = 0 /\ opened < MaxConns /\ opened' = opened + 1 /\ mconn' = opened + 1 /\ conn' = opened + 1
          /\ serving' = [serving EXCEPT ![opened + 1] = "yes"]
      BY <2>1 DEF Connect
    <3>2. MaxConns \in Nat /\ opened \in Nat /\ opened < MaxConns
      BY <1>3, <3>1
    <3>3. opened + 1 \in Conns
      BY <3>2 DEF Conns
    <3>4. serving' \in [Conns -> {"no", "yes", "dropping", "over"}] /\ serving'[opened + 1] = "yes"
      BY <1>3, <3>1, <3>3
    <3>5. opened + 1 \in 0..(opened + 1)
      BY <3>2
    <3> QED BY <3>1, <3>3, <3>4, <3>5
  <2>2. ASSUME NEW c \in Conns, EndServing(c)
        PROVE  /\ UNCHANGED <<mconn, opened>> /\ conn' = (IF conn = c THEN 0 ELSE conn) /\ c # mconn
               /\ serving' \in [Conns -> {"no", "yes", "dropping", "over"}]
               /\ \A d \in Conns : d # c => serving'[d] = serving[d]
    BY <1>3, <2>2 DEF EndServing
  <2>3. ASSUME NEW c \in Conns, DropRoutes(c)
        PROVE  /\ UNCHANGED <<mconn, opened, conn>> /\ serving[c] = "dropping"
               /\ serving' \in [Conns -> {"no", "yes", "dropping", "over"}]
               /\ \A d \in Conns : d # c => serving'[d] = serving[d]
    BY <1>3, <2>3 DEF DropRoutes
  <2>4. CASE \E c \in Conns : EndServing(c)
    BY <1>3, <2>2, <2>4
  <2>5. CASE \E c \in Conns : DropRoutes(c)
    BY <1>3, <2>3, <2>5
  <2> QED BY <2>1, <2>4, <2>5
<1>5. Linked'
  BY <1>1, <1>4 DEF AttachInv, Linked
<1>6. AttachTyped'
  BY <1>1, <1>4 DEF AttachInv, AttachTyped, AttachTypeOK
<1> QED BY <1>2, <1>5, <1>6 DEF AttachInv

LEMMA DisconnectInv == ASSUME AttachInv, Disconnect PROVE AttachInv'
<1>1. /\ mconn' = 0 /\ tty' = AllClosed /\ cmd' = <<>> /\ out' = <<>> /\ comp' = {} /\ paint' = {}
      /\ notices' = <<>> /\ pending' = {}
      /\ UNCHANGED <<sock, compress, route, chan, hole, screen, opened, conn, serving, unheard, via, printed>>
  BY DEF Disconnect, browser
<1>2. \A a \in Attaches : tty'[a] = IF tty[a] = "none" THEN "none" ELSE "gone"
  BY <1>1 DEF AllClosed
<1>3. AttachTyped'
  <2>1. cmd' \in Seq(Orders) /\ out' \in Seq(Items) /\ notices' \in Seq(Attaches) /\ Len(notices') <= ResyncCap
    BY <1>1, EmptySeq, CapsAssumption
  <2>2. IsFiniteSet(pending')
    BY <1>1, FS_EmptySet
  <2>3. tty' \in [Attaches -> Ttys]
    BY <1>1 DEF AllClosed, Ttys
  <2> QED BY <1>1, <2>1, <2>2, <2>3 DEF AttachInv, AttachTyped, AttachTypeOK
<1>4. Linked'
  BY <1>1, <1>2 DEF AttachInv, Linked, AttachTyped, AttachTypeOK, Conns
<1>5. ASSUME NEW a \in Attaches PROVE Path(a)'
  <2>1. \A op : ~Has(cmd', op, a) /\ ~Has(out', op, a)
    BY <1>1 DEF Has
  <2>2. Silent(cmd', a) /\ Silent(out', a) /\ Len(cmd') = 0 /\ Len(out') = 0
    BY <1>1, <2>1 DEF Silent
  <2>3. Fresh(a)'
    BY <1>1, <1>2, <2>2 DEF AttachInv, Path, Fresh
  <2>4. Awaited(a)' /\ Steady(a)'
    BY <1>1, <1>2, <2>1, <2>2 DEF Awaited, Steady
  <2>5. Agreed(a)' /\ Cleaned(a)'
    BY <1>1, <1>2, <2>1 DEF AttachInv, Path, Agreed, Cleaned
  <2> QED BY <2>3, <2>4, <2>5 DEF Path
<1> QED BY <1>3, <1>4, <1>5 DEF AttachInv

-----------------------------------------------------------------------------
(* The machine.                                                            *)

(* An order is read.                                                       *)
LEMMA OrderRead ==
  ASSUME AttachInv, NEW op, Order(op), NEW a, a = Head(cmd).a
  PROVE  /\ a \in Attaches /\ cmd' \in Seq(Orders) /\ Has(cmd, op, a) /\ mconn # 0
         /\ UNCHANGED <<sock, compress, route, chan, hole, screen, mconn, opened, conn, serving, notices, pending,
                        unheard, via, printed>>
         /\ At(cmd, 1, op, a) /\ 1 \in 1..Len(cmd)
         /\ \A i \in 1..Len(cmd') : i + 1 \in 1..Len(cmd) /\ 1 \in 1..(i + 1 - 1)
         /\ \A i \in 1..Len(cmd') : \A o, b : At(cmd', i, o, b) <=> At(cmd, i + 1, o, b)
         /\ \A o, b : Has(cmd', o, b) => Has(cmd, o, b)
         /\ \A i \in 1..Len(cmd') : \A o, b : Before(cmd', i, o, b) => Before(cmd, i + 1, o, b)
         /\ \A o, b : o # op /\ Has(cmd, o, b) => Has(cmd', o, b)
         /\ \A b : b # a \/ op \notin Ops => Same(cmd, cmd', 1, Ops, b)
<1>1. cmd \in Seq(Orders) /\ cmd # <<>> /\ Head(cmd).op = op /\ cmd' = Tail(cmd)
  BY DEF AttachInv, AttachTyped, Order
<1>2. /\ cmd' \in Seq(Orders) /\ Len(cmd) \in Nat /\ 1 \in 1..Len(cmd) /\ Head(cmd) = cmd[1]
      /\ \A i \in 1..Len(cmd') : i + 1 \in 1..Len(cmd) /\ 1 \in 1..(i + 1 - 1)
      /\ \A i \in 1..Len(cmd') : \A o, b : At(cmd', i, o, b) <=> At(cmd, i + 1, o, b)
      /\ \A o, b : Has(cmd', o, b) => Has(cmd, o, b)
      /\ \A i \in 1..Len(cmd') : \A o, b : Before(cmd', i, o, b) => Before(cmd, i + 1, o, b)
      /\ \A o, b : ~At(cmd, 1, o, b) => (Has(cmd, o, b) => Has(cmd', o, b))
      /\ \A b : ~(cmd[1].a = b /\ cmd[1].op \in Ops) => Same(cmd, cmd', 1, Ops, b)
  BY <1>1, TailRemoved
<1>3. At(cmd, 1, op, a) /\ Has(cmd, op, a)
  BY <1>1, <1>2 DEF At, Has
<1>4. a \in Attaches
  <2>1. Head(cmd) \in Orders
    BY <1>1
  <2> QED BY <2>1 DEF Orders
<1>6. \A o, b : o # op => ~At(cmd, 1, o, b)
  BY <1>1, <1>2 DEF At
<1>7. \A b : b # a \/ op \notin Ops => ~(cmd[1].a = b /\ cmd[1].op \in Ops)
  BY <1>1, <1>2
<1>9. mconn # 0
  BY <1>1 DEF AttachInv, Linked
<1> QED BY <1>2, <1>3, <1>4, <1>6, <1>7, <1>9 DEF Order, browser, links, resync

(* What an order to open an attach finds.                                  *)
LEMMA OpenRead ==
  ASSUME AttachInv, Order("open"), NEW a, a = Head(cmd).a
  PROVE  /\ sock[a] \notin {"new", "asking"} /\ ~Has(cmd', "open", a)
         /\ sock[a] = "open" => tty[a] = "none" /\ a \notin comp /\ Silent(out, a) /\ ~Has(cmd', "close", a)
         /\ sock[a] = "closed" => Has(cmd', "close", a)
<1>1. /\ a \in Attaches /\ Has(cmd, "open", a) /\ At(cmd, 1, "open", a) /\ 1 \in 1..Len(cmd)
      /\ \A i \in 1..Len(cmd') : i + 1 \in 1..Len(cmd) /\ 1 \in 1..(i + 1 - 1)
      /\ \A i \in 1..Len(cmd') : \A o, b : At(cmd', i, o, b) <=> At(cmd, i + 1, o, b)
      /\ \A o, b : Has(cmd', o, b) => Has(cmd, o, b)
      /\ \A o, b : o # "open" /\ Has(cmd, o, b) => Has(cmd', o, b)
  BY OrderRead
<1>2. Path(a)
  BY <1>1 DEF AttachInv
<1>3. ASSUME NEW i \in 1..Len(cmd'), At(cmd', i, "open", a) PROVE FALSE
  <2>1. At(cmd, i + 1, "open", a) /\ i + 1 \in 1..Len(cmd)
    BY <1>1, <1>3
  <2>2. Before(cmd, i + 1, "open", a)
    BY <1>1 DEF Before
  <2> QED BY <1>2, <2>1, <2>2 DEF Path, Awaited
<1>4. ~Has(cmd', "open", a)
  BY <1>3 DEF Has
<1> QED BY <1>1, <1>2, <1>4 DEF Path, Fresh, Awaited, Steady, Cleaned, Silent, Ops

LEMMA ItemsAre ==
  ASSUME NEW a \in Attaches
  PROVE  /\ \A op \in {"on", "off", "died"} :
              Say(op, a) \in Items /\ Say(op, a).op = op /\ Say(op, a).a = a /\ op \in Ops
         /\ \A full \in BOOLEAN :
              Chunk(a, full) \in Items /\ Chunk(a, full).op = "output" /\ Chunk(a, full).a = a
         /\ "output" \in Ops
BY DEF Items, Say, Chunk, Ops

LEMMA SwitchedOnSays ==
  ASSUME NEW q \in Seq(Items), NEW a \in Attaches, NEW r, r = q \o SwitchedOn(a), compress[a] \in BOOLEAN
  PROVE  /\ r \in Seq(Items)
         /\ \A op, b : Has(r, op, b) <=> Has(q, op, b) \/ (compress[a] /\ op = "on" /\ b = a)
         /\ \A b : b # a => Same(q, r, 0, Ops, b)
<1> DEFINE x == Say("on", a)
<1>1. x \in Items /\ x.op = "on" /\ x.a = a
  BY ItemsAre
<1> HIDE DEF x
<1>2. CASE compress[a]
  <2>1. Adds(q, x, r) /\ r \in Seq(Items)
    BY <1>1, <1>2, AppendAdds DEF SwitchedOn, x
  <2>2. /\ r \in Seq(Items)
        /\ \A op, b : Has(r, op, b) <=> Has(q, op, b) \/ (x.op = op /\ x.a = b)
        /\ \A b : ~(x.a = b /\ x.op \in Ops) => Same(q, r, 0, Ops, b)
    BY <2>1, AddedHas, AddedSame
  <2> QED BY <1>1, <1>2, <2>2
<1>3. CASE ~compress[a]
  <2>1. r = q
    BY <1>3 DEF SwitchedOn
  <2> QED BY <1>3, <2>1, Unmoved
<1> QED BY <1>2, <1>3

LEMMA FarewellSays ==
  ASSUME NEW q \in Seq(Items), NEW a \in Attaches, NEW r, r = q \o Farewell(a)
  PROVE  /\ r \in Seq(Items)
         /\ \A op, b : Has(r, op, b) <=> Has(q, op, b) \/ (b = a /\ op \in {"died", "off"})
         /\ \A i \in 1..Len(r) : At(r, i, "off", a) =>
              (i \in 1..Len(q) /\ At(q, i, "off", a)) \/ Before(r, i, "died", a)
         /\ \A i \in 1..Len(r) : At(r, i, "output", a) => i \in 1..Len(q) /\ At(q, i, "output", a)
         /\ \A i \in 1..Len(q) : \A op, b : Before(r, i, op, b) <=> Before(q, i, op, b)
         /\ \A b : b # a => Same(q, r, 0, Ops, b)
<1> DEFINE x == Say("died", a)
           y == Say("off", a)
<1>1. x \in Items /\ x.op = "died" /\ x.a = a /\ y \in Items /\ y.op = "off" /\ y.a = a
  BY ItemsAre
<1>0. PICK m : m = Append(q, x) /\ m \in Seq(Items) /\ Adds(q, x, m)
  BY <1>1, AppendAdds
<1>2. r = Append(m, y)
  BY <1>0, <1>1 DEF Farewell
<1> HIDE DEF x, y
<1>9. Adds(m, y, r) /\ r \in Seq(Items)
  BY <1>0, <1>1, <1>2, AppendAdds
<1>3. /\ m \in Seq(Items) /\ Len(m) = Len(q) + 1 /\ Len(q) \in Nat
      /\ \A op, b : Has(m, op, b) <=> Has(q, op, b) \/ (x.op = op /\ x.a = b)
      /\ \A i \in 1..Len(q) : \A op, b : At(m, i, op, b) <=> At(q, i, op, b)
      /\ \A op, b : At(m, Len(q) + 1, op, b) <=> x.op = op /\ x.a = b
      /\ \A i \in 1..Len(q) : \A op, b : Before(m, i, op, b) <=> Before(q, i, op, b)
      /\ \A b : ~(x.a = b /\ x.op \in Ops) => Same(q, m, 0, Ops, b)
  <2>1. Len(q) \in Nat /\ Len(m) = Len(q) + 1
    BY <1>0 DEF Adds
  <2> QED BY <1>0, <2>1, AddedAt, AddedHas, AddedBefore, AddedSame
<1>4. /\ r \in Seq(Items) /\ Len(r) = Len(m) + 1
      /\ \A op, b : Has(r, op, b) <=> Has(m, op, b) \/ (y.op = op /\ y.a = b)
      /\ \A i \in 1..Len(m) : \A op, b : At(r, i, op, b) <=> At(m, i, op, b)
      /\ \A op, b : At(r, Len(m) + 1, op, b) <=> y.op = op /\ y.a = b
      /\ \A i \in 1..Len(m) : \A op, b : Before(r, i, op, b) <=> Before(m, i, op, b)
      /\ \A op, b : Before(r, Len(m) + 1, op, b) <=> Has(m, op, b)
      /\ \A b : ~(y.a = b /\ y.op \in Ops) => Same(m, r, 0, Ops, b)
  <2>1. Len(r) = Len(m) + 1
    BY <1>9 DEF Adds
  <2> QED BY <1>9, <2>1, AddedAt, AddedHas, AddedBefore, AddedSame
<1>5. /\ \A i \in 1..Len(q) : i \in 1..Len(m)
      /\ \A i \in 1..Len(r) : i \in 1..Len(q) \/ i = Len(q) + 1 \/ i = Len(m) + 1
      /\ Len(q) + 1 \in 1..Len(m)
  BY <1>3, <1>4
<1>6. \A b : b # a => Same(q, r, 0, Ops, b)
  BY <1>1, <1>3, <1>4, SameTwice
<1>7. \A i \in 1..Len(r) : At(r, i, "off", a) => (i \in 1..Len(q) /\ At(q, i, "off", a)) \/ Before(r, i, "died", a)
  <2> SUFFICES ASSUME NEW i \in 1..Len(r), At(r, i, "off", a), i \notin 1..Len(q) PROVE Before(r, i, "died", a)
    BY <1>3, <1>4, <1>5
  <2>1. i = Len(m) + 1
    BY <1>1, <1>3, <1>4, <1>5
  <2>2. Has(m, "died", a)
    BY <1>1, <1>3
  <2> QED BY <1>4, <2>1, <2>2
<1>8. \A i \in 1..Len(r) : At(r, i, "output", a) => i \in 1..Len(q) /\ At(q, i, "output", a)
  BY <1>1, <1>3, <1>4, <1>5
<1> QED BY <1>1, <1>3, <1>4, <1>5, <1>6, <1>7, <1>8

(* The machine reads an order: the other attaches.                         *)
LEMMA ReadKeeps ==
  ASSUME AttachInv, NEW op, Order(op), NEW a, a = Head(cmd).a, NEW b \in Attaches, b # a \/ op \notin Ops,
         out' \in Seq(Items), Same(out, out', 0, Ops, b), tty'[b] = tty[b], b \in comp' <=> b \in comp
  PROVE  Path(b)'
<1>1. /\ cmd' \in Seq(Orders) /\ Same(cmd, cmd', 1, Ops, b)
      /\ UNCHANGED <<sock, compress, route, chan, hole, screen>>
  BY OrderRead
<1>2. Path(b) /\ cmd \in Seq(Orders) /\ out \in Seq(Items)
  BY DEF AttachInv, AttachTyped
<1> QED BY <1>1, <1>2, PathKept

LEMMA OpenInv == ASSUME AttachInv, OpenAttach \/ OpenFails PROVE AttachInv'
<1>0. PICK a : a = Head(cmd).a
  OBVIOUS
<1>s. PICK switched : switched = out \o SwitchedOn(a)
  OBVIOUS
<1>1. Order("open") /\ comp' = comp
  BY DEF OpenAttach, OpenFails
<1>2. /\ a \in Attaches /\ cmd' \in Seq(Orders) /\ mconn # 0
      /\ UNCHANGED <<sock, compress, route, chan, hole, screen, mconn, opened, conn, serving, notices, pending,
                     unheard, via, printed>>
      /\ \A o, b : o # "open" /\ Has(cmd, o, b) => Has(cmd', o, b)
  BY <1>0, <1>1, OrderRead
<1>3. /\ sock[a] \notin {"new", "asking"} /\ ~Has(cmd', "open", a)
      /\ sock[a] = "open" => tty[a] = "none" /\ a \notin comp /\ Silent(out, a) /\ ~Has(cmd', "close", a)
      /\ sock[a] = "closed" => Has(cmd', "close", a)
  BY <1>0, <1>1, OpenRead
<1>4. /\ switched \in Seq(Items)
      /\ \A op, b : Has(switched, op, b) <=> Has(out, op, b) \/ (compress[a] /\ op = "on" /\ b = a)
      /\ \A b : b # a => Same(out, switched, 0, Ops, b)
  <2>1. out \in Seq(Items) /\ compress[a] \in BOOLEAN
    BY <1>2 DEF AttachInv, AttachTyped, AttachTypeOK
  <2>2. a \in Attaches
    BY <1>2
  <2> QED BY ONLY <1>s, <2>1, <2>2, SwitchedOnSays
<1>5. \/ /\ tty' = [tty EXCEPT ![a] = "running"] /\ out' = switched /\ paint' = paint \cup {a}
      \/ /\ tty' = [tty EXCEPT ![a] = "died"] /\ out' = switched \o Farewell(a) /\ paint' = paint
  BY <1>0, <1>s DEF OpenAttach, OpenFails, Opened, Spawned
<1>6. /\ tty' \in [Attaches -> Ttys] /\ paint' \subseteq Attaches
      /\ tty'[a] \in {"running", "died"} /\ \A b \in Attaches : b # a => tty'[b] = tty[b]
  BY <1>2, <1>5 DEF AttachInv, AttachTyped, AttachTypeOK, Ttys
<1>7. /\ out' \in Seq(Items) /\ \A b : b # a => Same(out, out', 0, Ops, b)
      /\ Has(out', "on", a) <=> Has(out, "on", a) \/ compress[a]
      /\ Silent(out, a) =>
           /\ \A i \in 1..Len(out') : ~At(out', i, "output", a)
           /\ \A i \in 1..Len(out') : At(out', i, "off", a) => Before(out', i, "died", a)
           /\ tty'[a] = "running" => ~Has(out', "off", a) /\ ~Has(out', "died", a)
  <2>1. \A op \in Ops \ {"on"} : Silent(out, a) => ~Has(switched, op, a)
    BY <1>4 DEF Silent
  <2>2. {"on", "off", "died", "output"} \subseteq Ops
    BY DEF Ops
  <2>3. CASE out' = switched
    BY <1>4, <2>1, <2>2, <2>3 DEF Has
  <2>4. CASE out' = switched \o Farewell(a) /\ tty'[a] = "died"
    <3>1. /\ out' \in Seq(Items)
          /\ \A op, b : Has(out', op, b) <=> Has(switched, op, b) \/ (b = a /\ op \in {"died", "off"})
          /\ \A i \in 1..Len(out') : At(out', i, "off", a) =>
               (i \in 1..Len(switched) /\ At(switched, i, "off", a)) \/ Before(out', i, "died", a)
          /\ \A b : b # a => Same(switched, out', 0, Ops, b)
      <4>1. a \in Attaches /\ switched \in Seq(Items) /\ out' = switched \o Farewell(a)
        BY <1>2, <1>4, <2>4
      <4> QED BY ONLY <4>1, FarewellSays
    <3>2. \A b : b # a => Same(out, out', 0, Ops, b)
      BY <1>4, <3>1, SameTwice
    <3>3. Silent(out, a) => ~Has(switched, "off", a) /\ ~Has(switched, "output", a)
      BY <2>1, <2>2
    <3>4. Silent(out, a) => \A i \in 1..Len(out') : ~At(out', i, "output", a)
      BY <3>1, <3>3 DEF Has
    <3>5. Silent(out, a) => \A i \in 1..Len(out') : At(out', i, "off", a) => Before(out', i, "died", a)
      BY <3>1, <3>3 DEF Has
    <3> QED BY <1>4, <2>4, <3>1, <3>2, <3>4, <3>5
  <2> QED BY <1>2, <1>5, <1>6, <2>3, <2>4 DEF AttachInv, AttachTyped, AttachTypeOK
<1>8. AttachTyped'
  BY <1>1, <1>2, <1>6, <1>7 DEF AttachInv, AttachTyped, AttachTypeOK
<1>9. Linked'
  BY <1>2 DEF AttachInv, Linked
<1>10. ASSUME NEW b \in Attaches, b # a PROVE Path(b)'
  BY <1>0, <1>1, <1>6, <1>7, <1>10, ReadKeeps
<1>11. Path(a)'
  <2>1. Path(a)
    BY <1>2 DEF AttachInv
  <2>2. Awaited(a)'
    BY <1>3 DEF Awaited, Has
  <2>3. Steady(a)'
    BY <1>1, <1>2, <1>3, <1>6, <1>7 DEF Steady
  <2>4. Agreed(a)'
    BY <1>1, <1>2, <1>7, <2>1 DEF Path, Agreed
  <2>5. Fresh(a)' /\ Cleaned(a)'
    BY <1>2, <1>3, <2>1 DEF Path, Fresh, Cleaned
  <2> QED BY <2>2, <2>3, <2>4, <2>5 DEF Path
<1> QED BY <1>8, <1>9, <1>10, <1>11 DEF AttachInv

LEMMA CloseAttachInv == ASSUME AttachInv, CloseAttach PROVE AttachInv'
<1>0. PICK a : a = Head(cmd).a
  OBVIOUS
<1> DEFINE x == Say("off", a)
<1>1. /\ Order("close") /\ comp' = comp /\ out' = Append(out, x) /\ paint' = paint \ {a}
      /\ tty' = [tty EXCEPT ![a] = Dropped(tty[a])]
  BY <1>0 DEF CloseAttach
<1>2. /\ a \in Attaches /\ cmd' \in Seq(Orders) /\ mconn # 0 /\ Has(cmd, "close", a)
      /\ At(cmd, 1, "close", a)
      /\ UNCHANGED <<sock, compress, route, chan, hole, screen, mconn, opened, conn, serving, notices, pending,
                     unheard, via, printed>>
      /\ \A i \in 1..Len(cmd') : i + 1 \in 1..Len(cmd) /\ 1 \in 1..(i + 1 - 1)
      /\ \A i \in 1..Len(cmd') : \A o, b : At(cmd', i, o, b) <=> At(cmd, i + 1, o, b)
  BY <1>0, <1>1, OrderRead
<1>3. x \in Items /\ x.op = "off" /\ x.a = a
  BY <1>2, ItemsAre
<1>4. out' \in Seq(Items) /\ Adds(out, x, out')
  BY <1>1, <1>3, AppendAdds DEF AttachInv, AttachTyped
<1>5. /\ Dropped(tty[a]) \in {"none", "closing", "gone"}
      /\ tty' \in [Attaches -> Ttys] /\ \A b \in Attaches : b # a => tty'[b] = tty[b]
      /\ tty'[a] = Dropped(tty[a])
  BY <1>1, <1>2 DEF Dropped, Ttys, AttachInv, AttachTyped, AttachTypeOK
<1> HIDE DEF x
<1>6. AttachTyped'
  BY <1>1, <1>2, <1>4, <1>5 DEF AttachInv, AttachTyped, AttachTypeOK
<1>7. Linked'
  BY <1>2 DEF AttachInv, Linked
<1>8. ASSUME NEW b \in Attaches, b # a PROVE Path(b)'
  <2>1. Same(out, out', 0, Ops, b)
    BY <1>3, <1>4, <1>8, AddedSame
  <2> QED BY <1>0, <1>1, <1>4, <1>5, <1>8, <2>1, ReadKeeps
<1>9. Path(a)'
  <2>1. Path(a)
    BY <1>2 DEF AttachInv
  <2>2. sock[a] \notin {"new", "asking", "open"}
    BY <1>2, <2>1 DEF Path, Fresh, Steady, Silent, Ops
  <2>3. ASSUME NEW i \in 1..Len(cmd'), At(cmd', i, "open", a) PROVE FALSE
    <3>1. At(cmd, i + 1, "open", a) /\ Before(cmd, i + 1, "close", a)
      BY <1>2, <2>3 DEF Before
    <3> QED BY <1>2, <2>1, <3>1 DEF Path, Awaited
  <2>4. Awaited(a)' /\ ~Has(cmd', "open", a)
    BY <2>3 DEF Awaited, Has
  <2>5. Agreed(a)'
    BY <1>1, <1>2, <1>3, <1>4, <2>1, AddedHas DEF Path, Agreed
  <2> QED BY <1>2, <1>5, <2>1, <2>2, <2>4, <2>5 DEF Path, Fresh, Steady, Cleaned
<1> QED BY <1>6, <1>7, <1>8, <1>9 DEF AttachInv

LEMMA RefreshAttachInv == ASSUME AttachInv, RefreshAttach PROVE AttachInv'
<1>0. PICK a : a = Head(cmd).a
  OBVIOUS
<1>1. /\ Order("refresh") /\ UNCHANGED <<out, tty, comp>> /\ paint' \subseteq paint \cup {a}
  BY <1>0 DEF RefreshAttach, Refreshed
<1>2. /\ a \in Attaches /\ cmd' \in Seq(Orders) /\ mconn # 0 /\ "refresh" \notin Ops
      /\ UNCHANGED <<sock, compress, route, chan, hole, screen, mconn, opened, conn, serving, notices, pending,
                     unheard, via, printed>>
  BY <1>0, <1>1, OrderRead DEF Ops
<1>3. AttachTyped'
  BY <1>1, <1>2 DEF AttachInv, AttachTyped, AttachTypeOK
<1>4. Linked'
  BY <1>2 DEF AttachInv, Linked
<1>5. ASSUME NEW b \in Attaches PROVE Path(b)'
  <2>1. out' \in Seq(Items) /\ Same(out, out', 0, Ops, b)
    BY <1>1, Unmoved DEF AttachInv, AttachTyped
  <2> QED BY <1>0, <1>1, <1>2, <2>1, ReadKeeps
<1> QED BY <1>3, <1>4, <1>5 DEF AttachInv

(* A tmux client writes or repaints.                                       *)
LEMMA WriteInv == ASSUME AttachInv, NEW a \in Attaches, WriteText(a) \/ Repaint(a) PROVE AttachInv'
<1>1. PICK full \in BOOLEAN : out' = Append(out, Chunk(a, full))
  BY DEF WriteText, Repaint
<1> DEFINE x == Chunk(a, full)
<1>2. /\ tty[a] \in {"running", "closing"} /\ paint' \subseteq paint /\ printed' \in 0..MaxPrints
      /\ UNCHANGED <<sock, compress, route, chan, hole, screen, mconn, opened, conn, serving, cmd, notices, pending,
                     unheard, via, tty, comp>>
  <2>1. printed \in 0..MaxPrints /\ MaxPrints \in Nat
    BY CapsAssumption DEF AttachInv, AttachTyped, AttachTypeOK
  <2>2. printed' \in 0..MaxPrints
    <3>1. CASE WriteText(a)
      BY <2>1, <3>1 DEF WriteText
    <3>2. CASE Repaint(a)
      BY <2>1, <3>2 DEF Repaint
    <3> QED BY <3>1, <3>2
  <2> QED BY <2>2 DEF WriteText, Repaint, browser, links, resync
<1>3. x \in Items /\ x.op = "output" /\ x.a = a
  BY ItemsAre
<1>4. out' \in Seq(Items) /\ Adds(out, x, out')
  BY <1>1, <1>3, AppendAdds DEF AttachInv, AttachTyped
<1> HIDE DEF x
<1>5. AttachTyped'
  BY <1>2, <1>4 DEF AttachInv, AttachTyped, AttachTypeOK
<1>6. Linked'
  BY <1>2 DEF AttachInv, Linked
<1>7. ASSUME NEW b \in Attaches, b # a PROVE Path(b)'
  BY <1>2, <1>3, <1>4, <1>7, OthersKept
<1>8. Path(a)'
  <2>1. Path(a)
    BY DEF AttachInv
  <2>2. /\ \A op : Has(out', op, a) <=> Has(out, op, a) \/ op = "output"
        /\ \A i \in 1..Len(out') : i \in 1..Len(out) \/ i = Len(out) + 1
        /\ \A i \in 1..Len(out) : \A op : At(out', i, op, a) <=> At(out, i, op, a)
        /\ \A op : At(out', Len(out) + 1, op, a) <=> op = "output"
        /\ \A i \in 1..Len(out) : \A op : Before(out', i, op, a) <=> Before(out, i, op, a)
        /\ \A op : Before(out', Len(out) + 1, op, a) <=> Has(out, op, a)
    BY <1>3, <1>4, AddedAt, AddedHas, AddedBefore
  <2>3. Fresh(a)'
    BY <1>2, <2>1 DEF Path, Fresh
  <2>4. Awaited(a)'
    BY <1>2, <2>1 DEF Path, Awaited
  <2>5. Steady(a)'
    <3> SUFFICES ASSUME sock[a] = "open" PROVE Steady(a)'
      BY <1>2 DEF Steady
    <3>1. tty[a] = "running" /\ ~Has(out, "off", a) /\ ~Has(out, "died", a) /\ ~Has(cmd, "close", a)
      BY <1>2, <2>1 DEF Path, Steady
    <3>2. a \in route /\ compress[a] => a \in comp \/ Has(out, "on", a)
      BY <2>1, <3>1 DEF Path, Steady
    <3>3. \A i \in 1..Len(out') : At(out', i, "output", a) => ~Before(out', i, "off", a) /\ ~Before(out', i, "died", a)
      BY <2>1, <2>2, <3>1 DEF Path, Steady
    <3>4. \A i \in 1..Len(out') : a \in route /\ At(out', i, "off", a) => Before(out', i, "died", a)
      BY <2>1, <2>2, <3>1 DEF Path, Steady
    <3>5. \A i \in 1..Len(out') : a \in route /\ compress[a] /\ At(out', i, "output", a) => a \in comp \/ Before(out', i, "on", a)
      BY <2>1, <2>2, <3>2 DEF Path, Steady
    <3>6. ~Has(out', "off", a) /\ ~Has(out', "died", a) /\ (Has(out', "on", a) <=> Has(out, "on", a))
      BY <2>2, <3>1
    <3> QED BY <1>2, <3>1, <3>2, <3>3, <3>4, <3>5, <3>6 DEF Steady
  <2>6. Agreed(a)' /\ Cleaned(a)'
    BY <1>2, <2>1, <2>2 DEF Path, Agreed, Cleaned
  <2> QED BY <2>3, <2>4, <2>5, <2>6 DEF Path
<1> QED BY <1>5, <1>6, <1>7, <1>8 DEF AttachInv

(* A tmux client ends.                                                     *)
LEMMA EndInv == ASSUME AttachInv, NEW a \in Attaches, Exits(a) \/ Killed(a) PROVE AttachInv'
<1>1. /\ (tty[a] = "running" /\ tty' = [tty EXCEPT ![a] = "died"]) \/
         (tty[a] = "closing" /\ tty' = [tty EXCEPT ![a] = "gone"])
      /\ paint' = paint \ {a} /\ out' = out \o Farewell(a)
      /\ UNCHANGED <<sock, compress, route, chan, hole, screen, mconn, opened, conn, serving, cmd, notices, pending,
                     unheard, via, comp, printed>>
  BY DEF Exits, Killed, PtyEnds, browser, links, resync
<1>2. /\ tty' \in [Attaches -> Ttys] /\ tty'[a] = (IF tty[a] = "running" THEN "died" ELSE "gone")
      /\ \A b \in Attaches : b # a => tty'[b] = tty[b]
  BY <1>1 DEF AttachInv, AttachTyped, AttachTypeOK, Ttys
<1>3. out \in Seq(Items) /\ cmd \in Seq(Orders)
  BY DEF AttachInv, AttachTyped
<1>4. /\ out' \in Seq(Items)
      /\ \A op, b : Has(out', op, b) <=> Has(out, op, b) \/ (b = a /\ op \in {"died", "off"})
      /\ \A i \in 1..Len(out') : At(out', i, "off", a) =>
           (i \in 1..Len(out) /\ At(out, i, "off", a)) \/ Before(out', i, "died", a)
      /\ \A i \in 1..Len(out') : At(out', i, "output", a) => i \in 1..Len(out) /\ At(out, i, "output", a)
      /\ \A i \in 1..Len(out) : \A op, b : Before(out', i, op, b) <=> Before(out, i, op, b)
      /\ \A b : b # a => Same(out, out', 0, Ops, b)
  BY <1>1, <1>3, FarewellSays
<1>5. AttachTyped'
  BY <1>1, <1>2, <1>4 DEF AttachInv, AttachTyped, AttachTypeOK
<1>6. Linked'
  BY <1>1 DEF AttachInv, Linked
<1>7. ASSUME NEW b \in Attaches, b # a PROVE Path(b)'
  <2>1. Path(b) /\ Same(out, out', 0, Ops, b) /\ Same(cmd, cmd', 0, Ops, b)
    BY <1>1, <1>4, <1>7, Unmoved DEF AttachInv
  <2> QED BY <1>1, <1>2, <1>3, <1>4, <1>7, <2>1, PathKept
<1>8. Path(a)'
  <2>1. Path(a)
    BY DEF AttachInv
  <2>2. Fresh(a)' /\ Awaited(a)'
    BY <1>1, <2>1 DEF Path, Fresh, Awaited
  <2>3. Steady(a)'
    <3> SUFFICES ASSUME sock[a] = "open" PROVE Steady(a)'
      BY <1>1 DEF Steady
    <3>1. tty[a] = "running" /\ tty'[a] = "died" /\ ~Has(cmd, "close", a) /\ ~Has(out, "off", a)
      BY <1>1, <1>2, <2>1 DEF Path, Steady
    <3>2. \A i \in 1..Len(out') : At(out', i, "off", a) => Before(out', i, "died", a)
      BY <1>4, <3>1 DEF Has
    <3> QED BY <1>1, <1>4, <2>1, <3>1, <3>2 DEF Path, Steady
  <2>4. Has(out', "on", a) <=> Has(out, "on", a)
    BY <1>4
  <2>5. Agreed(a)'
    BY <1>1, <2>1, <2>4 DEF Path, Agreed
  <2>6. Cleaned(a)'
    BY <1>1, <1>2, <2>1 DEF Path, Cleaned
  <2> QED BY <2>2, <2>3, <2>5, <2>6 DEF Path
<1> QED BY <1>5, <1>6, <1>7, <1>8 DEF AttachInv

-----------------------------------------------------------------------------
(* The machine's send loop and the hub's receive loop.                     *)

(* An attach the machine speaks of has been asked for, and no order to     *)
(* open it is left if its socket is open.                                  *)
LEMMA HeardOf ==
  ASSUME AttachInv, NEW a \in Attaches, NEW op \in Ops, Has(out, op, a), sock'[a] = sock[a], cmd' = cmd
  PROVE  Fresh(a)' /\ Awaited(a)'
<1>1. Path(a) /\ ~Silent(out, a)
  BY DEF AttachInv, Silent
<1>2. sock'[a] \notin {"new", "asking"}
  BY <1>1 DEF Path, Fresh
<1>3. sock[a] = "open" => \A i \in 1..Len(cmd) : ~At(cmd, i, "open", a)
  BY <1>1 DEF Path, Awaited
<1>4. Awaited(a)'
  BY <1>1, <1>3 DEF Path, Awaited
<1> QED BY <1>2, <1>4 DEF Fresh

(* The first n messages leave: the attaches that none of them is about.    *)
LEMMA LeavesKeeps ==
  ASSUME AttachInv, NEW n \in 1..Len(out), Leaves(n), NEW a,
         \A i \in 1..n : out[i].a = a,
         NEW b \in Attaches, b # a, chan'[b] = chan[b], hole'[b] = hole[b], route' \subseteq route,
         b \in comp' <=> b \in comp
  PROVE  Path(b)'
<1>1. out \in Seq(Items) /\ cmd \in Seq(Orders) /\ Path(b)
  BY DEF AttachInv, AttachTyped
<1>2. /\ out' = SubSeq(out, n + 1, Len(out))
      /\ UNCHANGED <<sock, compress, screen, cmd, tty>>
  BY DEF Leaves
<1>3. \A j \in 1..n : ~(out[j].a = b /\ out[j].op \in Ops)
  OBVIOUS
<1>7. out' \in Seq(Items) /\ Drops(out, n, out')
  BY <1>1, <1>2, SubSeqDrops
<1>4. out' \in Seq(Items) /\ Same(out, out', n, Ops, b)
  BY <1>3, <1>7, Removed
<1>5. Same(cmd, cmd', 0, Ops, b)
  BY <1>2, Unmoved
<1>6. /\ n \in Nat /\ 0 \in Nat /\ cmd' \in Seq(Orders)
      /\ sock'[b] = sock[b] /\ compress'[b] = compress[b] /\ screen'[b] = screen[b] /\ tty'[b] = tty[b]
      /\ b \in route' => b \in route
  BY <1>1, <1>2
<1> QED BY <1>1, <1>4, <1>5, <1>6, PathKept

(* The head of the machine's queue leaves.                                 *)
LEMMA HeadLeaves ==
  ASSUME AttachInv, out # <<>>, Leaves(1)
  PROVE  /\ Head(out).a \in Attaches /\ Head(out).op \in Ops /\ mconn # 0
         /\ 1 \in 1..Len(out) /\ Head(out) = out[1] /\ out' \in Seq(Items) /\ (\A i \in 1..1 : out[i].a = Head(out).a)
         /\ \A op, a : At(out, 1, op, a) <=> op = Head(out).op /\ a = Head(out).a
         /\ Has(out, Head(out).op, Head(out).a)
         /\ \A i \in 1..Len(out') : i + 1 \in 1..Len(out) /\ 1 \in 1..(i + 1 - 1)
         /\ \A i \in 1..Len(out') : \A op, a : At(out', i, op, a) <=> At(out, i + 1, op, a)
         /\ \A op, a : Has(out', op, a) => Has(out, op, a)
         /\ \A i \in 1..Len(out') : \A op, a : Before(out', i, op, a) => Before(out, i + 1, op, a)
         /\ \A op, a : op # Head(out).op =>
              /\ Has(out, op, a) => Has(out', op, a)
              /\ \A i \in 1..Len(out') : Before(out, i + 1, op, a) => Before(out', i, op, a)
<1>1. out \in Seq(Items) /\ out # <<>> /\ mconn # 0
  BY DEF AttachInv, AttachTyped, Linked
<1>2. out' = Tail(out) /\ Head(out) \in Items
  BY <1>1 DEF Leaves
<1>3. /\ out' \in Seq(Items) /\ Len(out) \in Nat /\ 1 \in 1..Len(out) /\ Head(out) = out[1]
      /\ \A i \in 1..Len(out') : i + 1 \in 1..Len(out) /\ 1 \in 1..(i + 1 - 1)
      /\ \A i \in 1..Len(out') : \A op, a : At(out', i, op, a) <=> At(out, i + 1, op, a)
      /\ \A op, a : Has(out', op, a) => Has(out, op, a)
      /\ \A i \in 1..Len(out') : \A op, a : Before(out', i, op, a) => Before(out, i + 1, op, a)
      /\ \A op, a : ~At(out, 1, op, a) =>
           /\ Has(out, op, a) => Has(out', op, a)
           /\ \A i \in 1..Len(out') : Before(out, i + 1, op, a) => Before(out', i, op, a)
  BY <1>1, <1>2, TailRemoved
<1>4. Head(out).a \in Attaches /\ Head(out).op \in Ops
  BY <1>2 DEF Items, Ops
<1>5. \A op, a : At(out, 1, op, a) <=> op = Head(out).op /\ a = Head(out).a
  BY <1>3 DEF At
<1>6. Has(out, Head(out).op, Head(out).a)
  BY <1>3, <1>5 DEF Has
<1>7. \A i \in 1..1 : out[i].a = Head(out).a
  BY <1>3
<1> QED BY <1>1, <1>3, <1>4, <1>5, <1>6, <1>7

LEMMA SwitchCompressorInv == ASSUME AttachInv, SwitchCompressor PROVE AttachInv'
<1>1. PICK a, op : a = Head(out).a /\ op = Head(out).op
  OBVIOUS
<1>2. /\ out # <<>> /\ op \in {"on", "off"} /\ Leaves(1)
      /\ comp' = IF op = "on" THEN comp \cup {a} ELSE comp \ {a}
      /\ UNCHANGED <<sock, compress, screen, mconn, opened, conn, serving, cmd, via, tty, paint, printed,
                     route, chan, hole, notices, pending, unheard>>
  BY <1>1 DEF SwitchCompressor, Leaves, links, resync
<1>3. /\ a \in Attaches /\ op \in Ops /\ mconn # 0 /\ Has(out, op, a) /\ At(out, 1, op, a)
      /\ 1 \in 1..Len(out) /\ out' \in Seq(Items) /\ (\A i \in 1..1 : out[i].a = a)
      /\ \A i \in 1..Len(out') : i + 1 \in 1..Len(out) /\ 1 \in 1..(i + 1 - 1)
      /\ \A i \in 1..Len(out') : \A o, b : At(out', i, o, b) <=> At(out, i + 1, o, b)
      /\ \A o, b : Has(out', o, b) => Has(out, o, b)
      /\ \A i \in 1..Len(out') : \A o, b : Before(out', i, o, b) => Before(out, i + 1, o, b)
      /\ \A o, b : o # op =>
           /\ Has(out, o, b) => Has(out', o, b)
           /\ \A i \in 1..Len(out') : Before(out, i + 1, o, b) => Before(out', i, o, b)
  BY <1>1, <1>2, HeadLeaves
<1>4. AttachTyped'
  BY <1>2, <1>3 DEF AttachInv, AttachTyped, AttachTypeOK
<1>5. Linked'
  BY <1>2, <1>3 DEF AttachInv, Linked
<1>6. ASSUME NEW b \in Attaches, b # a PROVE Path(b)'
  BY <1>2, <1>3, <1>6, LeavesKeeps
<1>7. Path(a)'
  <2>1. Path(a) /\ Fresh(a)' /\ Awaited(a)'
    BY <1>2, <1>3, HeardOf DEF AttachInv
  <2>2. Steady(a)'
    <3> SUFFICES ASSUME sock[a] = "open" PROVE Steady(a)'
      BY <1>2 DEF Steady
    <3>1. tty[a] # "closing" /\ ~Has(cmd, "close", a)
      BY <2>1 DEF Path, Steady
    <3>2. tty[a] = "running" => ~Has(out', "off", a) /\ ~Has(out', "died", a)
      BY <1>3, <2>1 DEF Path, Steady
    <3>3. \A i \in 1..Len(out') : At(out', i, "output", a) => ~Before(out', i, "off", a) /\ ~Before(out', i, "died", a)
      BY <1>3, <2>1 DEF Path, Steady
    <3>4. a \in route => op = "on"
      <4> SUFFICES ASSUME a \in route, op = "off" PROVE FALSE
        BY <1>2
      <4>1. Before(out, 1, "died", a)
        BY <1>3, <2>1 DEF Path, Steady
      <4> QED BY <4>1 DEF Before
    <3>5. a \in route => \A i \in 1..Len(out') : At(out', i, "off", a) => Before(out', i, "died", a)
      BY <1>2, <1>3, <2>1 DEF Path, Steady
    <3>6. a \in route => a \in comp'
      BY <1>2, <3>4
    <3> QED BY <1>2, <3>1, <3>2, <3>3, <3>5, <3>6 DEF Steady
  <2>3. Agreed(a)'
    BY <1>2, <1>3, <2>1 DEF Path, Agreed
  <2>4. Cleaned(a)'
    BY <1>2, <2>1 DEF Path, Cleaned
  <2> QED BY <2>1, <2>2, <2>3, <2>4 DEF Path
<1> QED BY <1>4, <1>5, <1>6, <1>7 DEF AttachInv

LEMMA HandleDiedInv == ASSUME AttachInv, HandleDied PROVE AttachInv'
<1>1. PICK a, op : a = Head(out).a /\ op = Head(out).op
  OBVIOUS
<1>2. /\ out # <<>> /\ op = "died" /\ Leaves(1) /\ route' = route \ {a}
      /\ UNCHANGED <<sock, compress, screen, mconn, opened, conn, serving, cmd, via, tty, paint, printed,
                     comp, chan, hole, notices, pending, unheard>>
  BY <1>1 DEF HandleDied, Leaves, links, resync, Unregistered
<1>3. /\ a \in Attaches /\ op \in Ops /\ mconn # 0 /\ Has(out, op, a) /\ At(out, 1, op, a)
      /\ 1 \in 1..Len(out) /\ out' \in Seq(Items) /\ (\A i \in 1..1 : out[i].a = a)
      /\ \A i \in 1..Len(out') : i + 1 \in 1..Len(out) /\ 1 \in 1..(i + 1 - 1)
      /\ \A i \in 1..Len(out') : \A o, b : At(out', i, o, b) <=> At(out, i + 1, o, b)
      /\ \A o, b : Has(out', o, b) => Has(out, o, b)
      /\ \A i \in 1..Len(out') : \A o, b : Before(out', i, o, b) => Before(out, i + 1, o, b)
  BY <1>1, <1>2, HeadLeaves
<1>4. AttachTyped'
  BY <1>2, <1>3 DEF AttachInv, AttachTyped, AttachTypeOK
<1>5. Linked'
  BY <1>2, <1>3 DEF AttachInv, Linked
<1>6. ASSUME NEW b \in Attaches, b # a PROVE Path(b)'
  BY <1>2, <1>3, <1>6, LeavesKeeps
<1>7. Path(a)'
  <2>1. Path(a) /\ Fresh(a)' /\ Awaited(a)'
    BY <1>2, <1>3, HeardOf DEF AttachInv
  <2>2. Steady(a)'
    <3> SUFFICES ASSUME sock[a] = "open" PROVE Steady(a)'
      BY <1>2 DEF Steady
    <3>1. tty[a] # "closing" /\ ~Has(cmd, "close", a)
      BY <2>1 DEF Path, Steady
    <3>2. tty[a] = "running" => ~Has(out', "off", a) /\ ~Has(out', "died", a)
      BY <1>3, <2>1 DEF Path, Steady
    <3>3. \A i \in 1..Len(out') : At(out', i, "output", a) => ~Before(out', i, "off", a) /\ ~Before(out', i, "died", a)
      BY <1>3, <2>1 DEF Path, Steady
    <3> QED BY <1>2, <3>1, <3>2, <3>3 DEF Steady
  <2>3. Agreed(a)'
    BY <1>2, <1>3, <2>1 DEF Path, Agreed
  <2>4. Cleaned(a)'
    BY <1>2, <2>1 DEF Path, Cleaned
  <2> QED BY <2>1, <2>2, <2>3, <2>4 DEF Path
<1> QED BY <1>4, <1>5, <1>6, <1>7 DEF AttachInv

(* What a frame of the first n messages leaves behind: only output left.   *)
LEMMA FrameLeaves ==
  ASSUME AttachInv, NEW n \in 1..Len(out), NEW a, Mergeable(a, n), Leaves(n)
  PROVE  /\ a \in Attaches /\ mconn # 0 /\ Has(out, "output", a) /\ At(out, 1, "output", a) /\ 1 \in 1..Len(out)
         /\ (\A i \in 1..n : out[i].a = a) /\ out' \in Seq(Items)
         /\ \A i \in 1..Len(out') : i + n \in 1..Len(out)
         /\ \A i \in 1..Len(out') : \A op, b : At(out', i, op, b) <=> At(out, i + n, op, b)
         /\ \A i \in 1..Len(out') : \A op, b : Before(out', i, op, b) => Before(out, i + n, op, b)
         /\ \A op, b : op # "output" =>
              /\ Has(out, op, b) <=> Has(out', op, b)
              /\ \A i \in 1..Len(out') : Before(out, i + n, op, b) => Before(out', i, op, b)
<1>1. out \in Seq(Items) /\ Len(out) \in Nat
  BY DEF AttachInv, AttachTyped
<1>2. 1 \in 1..n /\ 1 \in 1..Len(out) /\ out # <<>>
  BY <1>1
<1>3. out[1] \in Items /\ out[1].op = "output" /\ out[1].a = a
  BY <1>1, <1>2 DEF Mergeable
<1>4. out' = SubSeq(out, n + 1, Len(out))
  BY DEF Leaves
<1>5. /\ out' \in Seq(Items) /\ \A i \in 1..Len(out') : i + n \in 1..Len(out)
      /\ \A i \in 1..Len(out') : \A op, b : At(out', i, op, b) <=> At(out, i + n, op, b)
      /\ \A op, b : Has(out', op, b) => Has(out, op, b)
      /\ \A i \in 1..Len(out') : \A op, b : Before(out', i, op, b) => Before(out, i + n, op, b)
      /\ \A op, b : (\A j \in 1..n : ~At(out, j, op, b)) =>
           /\ Has(out, op, b) => Has(out', op, b)
           /\ \A i \in 1..Len(out') : Before(out, i + n, op, b) => Before(out', i, op, b)
  <2>1. out' \in Seq(Items) /\ Drops(out, n, out')
    BY <1>1, <1>4, SubSeqDrops
  <2> QED BY <2>1, Removed
<1>6. \A op, b : op # "output" => \A j \in 1..n : ~At(out, j, op, b)
  BY DEF Mergeable, At
<1>7. a \in Attaches /\ At(out, 1, "output", a)
  BY <1>3 DEF Items, At
<1>8. Has(out, "output", a)
  BY <1>2, <1>7 DEF Has
<1>9. mconn # 0
  BY <1>2 DEF AttachInv, Linked
<1> QED BY <1>2, <1>5, <1>6, <1>7, <1>8, <1>9 DEF Mergeable

(* While the socket still listens, the compressor is as was agreed.        *)
LEMMA CompressorAgrees ==
  ASSUME AttachInv, NEW a \in Attaches, At(out, 1, "output", a), 1 \in 1..Len(out), Listens(a)
  PROVE  sock[a] = "open" /\ (a \in comp <=> compress[a])
<1>1. Path(a) /\ Has(out, "output", a) /\ a \in route /\ sock[a] \in {"asking", "open"}
  BY DEF AttachInv, Has, Listens
<1>2. sock[a] = "open"
  BY <1>1 DEF Path, Fresh, Silent, Ops
<1>3. ~Before(out, 1, "on", a)
  BY DEF Before
<1>4. compress[a] => a \in comp
  BY <1>1, <1>2, <1>3 DEF Path, Steady
<1>5. a \in comp => compress[a]
  BY <1>1 DEF Path, Agreed
<1> QED BY <1>2, <1>4, <1>5

LEMMA ReceiveFrameInv == ASSUME AttachInv, ReceiveFrame PROVE AttachInv'
<1>1. PICK a : a = Head(out).a
  OBVIOUS
<1>2. PICK n \in 1..Len(out) :
        Mergeable(a, n) /\ Leaves(n) /\ (Discard(a) \/ Queue(a, Merged(a, n)) \/ Reset(a) \/ Thin(a)) /\ comp' = comp
  BY <1>1 DEF ReceiveFrame
<1>3. /\ a \in Attaches /\ mconn # 0 /\ Has(out, "output", a) /\ At(out, 1, "output", a) /\ 1 \in 1..Len(out)
      /\ (\A i \in 1..n : out[i].a = a) /\ out' \in Seq(Items)
      /\ \A i \in 1..Len(out') : i + n \in 1..Len(out)
      /\ \A i \in 1..Len(out') : \A op, b : At(out', i, op, b) <=> At(out, i + n, op, b)
      /\ \A i \in 1..Len(out') : \A op, b : Before(out', i, op, b) => Before(out, i + n, op, b)
      /\ \A op, b : op # "output" =>
           /\ Has(out, op, b) <=> Has(out', op, b)
           /\ \A i \in 1..Len(out') : Before(out, i + n, op, b) => Before(out', i, op, b)
  BY <1>2, FrameLeaves
<1>4. UNCHANGED <<sock, compress, screen, mconn, opened, conn, serving, cmd, via, tty, paint, printed>>
  BY <1>2 DEF Leaves, links
<1>5. /\ chan \in [Attaches -> Seq(Frames)] /\ hole \in [Attaches -> BOOLEAN] /\ Path(a)
      /\ compress[a] \in BOOLEAN /\ hole[a] \in BOOLEAN
      /\ notices \in Seq(Attaches) /\ Len(notices) <= ResyncCap /\ ResyncCap \in Nat /\ OutCap \in Nat
      /\ unheard \subseteq Attaches /\ \A b \in Attaches : Len(chan[b]) <= OutCap
  BY <1>3, CapsAssumption DEF AttachInv, AttachTyped, AttachTypeOK
<1> DEFINE f == Merged(a, n)
<1>6. f \in Frames /\ (f.comp <=> a \in comp) /\ (f.holed <=> hole[a]) /\ f.comp \in BOOLEAN /\ f.holed \in BOOLEAN
  <2> DEFINE repaints == \E i \in 1..n : out[i].full
             on == a \in comp
  <2>1. repaints \in BOOLEAN
    BY ONLY Zenon
  <2>2. on \in BOOLEAN
    OBVIOUS
  <2>3. f = [full |-> repaints, comp |-> on, holed |-> hole[a]]
    BY DEF Merged
  <2>4. on <=> a \in comp
    OBVIOUS
  <2> HIDE DEF repaints, on, f
  <2> QED BY <1>5, <2>1, <2>2, <2>3, <2>4 DEF Frames
<1> HIDE DEF f
<1>7. /\ chan' \in [Attaches -> Seq(Frames)] /\ hole' \in [Attaches -> BOOLEAN]
      /\ \A b \in Attaches : b # a => chan'[b] = chan[b] /\ hole'[b] = hole[b]
      /\ \A b \in Attaches : Len(chan'[b]) <= OutCap
      /\ route' \subseteq route /\ notices' \in Seq(Attaches) /\ Len(notices') <= ResyncCap
      /\ unheard' \subseteq Attaches /\ pending' = pending
      /\ \/ chan'[a] = chan[a] /\ (hole'[a] => hole[a] \/ ~compress[a])
         \/ chan'[a] = Append(chan[a], f) /\ ~hole'[a] /\ Listens(a)
  <2>1. CASE Discard(a)
    BY <1>3, <1>5, <2>1 DEF Discard, resync
  <2>2. CASE Queue(a, f)
    <3>1. /\ Len(chan[a]) < OutCap /\ chan' = [chan EXCEPT ![a] = Append(chan[a], f)] /\ Listens(a)
          /\ hole' = [hole EXCEPT ![a] = FALSE] /\ UNCHANGED <<route, notices, pending, unheard>>
      BY <2>2 DEF Queue, resync
    <3>2. Append(chan[a], f) \in Seq(Frames) /\ Len(Append(chan[a], f)) <= OutCap
      <4>1. chan[a] \in Seq(Frames) /\ Len(chan[a]) \in Nat /\ Len(Append(chan[a], f)) = Len(chan[a]) + 1
        BY <1>3, <1>5
      <4> QED BY <1>5, <1>6, <3>1, <4>1
    <3>3. /\ chan' \in [Attaches -> Seq(Frames)] /\ chan'[a] = Append(chan[a], f)
          /\ \A b \in Attaches : b # a => chan'[b] = chan[b]
      BY <1>3, <1>5, <3>1, <3>2
    <3>4. /\ hole' \in [Attaches -> BOOLEAN] /\ ~hole'[a] /\ \A b \in Attaches : b # a => hole'[b] = hole[b]
      BY <1>3, <1>5, <3>1
    <3> QED BY <1>5, <3>1, <3>2, <3>3, <3>4
  <2>3. CASE Reset(a)
    BY <1>3, <1>5, <2>3 DEF Reset, Unregistered, resync
  <2>4. CASE Thin(a)
    <3>1. /\ ~compress[a] /\ hole' = [hole EXCEPT ![a] = TRUE] /\ UNCHANGED <<route, chan, pending>>
          /\ \/ /\ Len(notices) < ResyncCap /\ notices' = Append(notices, a) /\ unheard' = unheard \ {a}
             \/ unheard' = unheard \cup {a} /\ notices' = notices
      BY <2>4 DEF Thin
    <3>2. notices' \in Seq(Attaches) /\ Len(notices') <= ResyncCap /\ unheard' \subseteq Attaches
      <4>1. CASE Len(notices) < ResyncCap /\ notices' = Append(notices, a) /\ unheard' = unheard \ {a}
        <5>1. Len(notices) \in Nat /\ Len(notices') = Len(notices) + 1 /\ notices' \in Seq(Attaches)
          BY <1>3, <1>5, <4>1
        <5> QED BY <1>5, <4>1, <5>1
      <4>2. CASE unheard' = unheard \cup {a} /\ notices' = notices
        BY <1>3, <1>5, <4>2
      <4> QED BY <3>1, <4>1, <4>2
    <3>3. /\ hole' \in [Attaches -> BOOLEAN] /\ \A b \in Attaches : b # a => hole'[b] = hole[b]
      BY <1>3, <1>5, <3>1
    <3> QED BY <1>3, <1>5, <3>1, <3>2, <3>3
  <2> QED BY <1>2, <2>1, <2>2, <2>3, <2>4 DEF f
<1>8. AttachTyped'
  BY <1>2, <1>3, <1>4, <1>7 DEF AttachInv, AttachTyped, AttachTypeOK
<1>9. Linked'
  BY <1>3, <1>4 DEF AttachInv, Linked
<1>10. ASSUME NEW b \in Attaches, b # a PROVE Path(b)'
  BY <1>2, <1>3, <1>7, <1>10, LeavesKeeps
<1>11. Path(a)'
  <2>1. Fresh(a)' /\ Awaited(a)'
    BY <1>3, <1>4, HeardOf DEF Ops
  <2>2. Steady(a)'
    <3> SUFFICES ASSUME sock[a] = "open" PROVE Steady(a)'
      BY <1>4 DEF Steady
    <3>1. tty[a] # "closing" /\ ~Has(cmd, "close", a)
      BY <1>5 DEF Path, Steady
    <3>2. tty[a] = "running" => ~Has(out', "off", a) /\ ~Has(out', "died", a)
      BY <1>3, <1>5 DEF Path, Steady
    <3>3. \A i \in 1..Len(out') : At(out', i, "output", a) => ~Before(out', i, "off", a) /\ ~Before(out', i, "died", a)
      BY <1>3, <1>5 DEF Path, Steady
    <3>4. a \in route => \A i \in 1..Len(out') : At(out', i, "off", a) => Before(out', i, "died", a)
      BY <1>3, <1>5 DEF Path, Steady
    <3>5. a \in route /\ compress[a] => \A i \in 1..Len(out') : At(out', i, "output", a) => a \in comp \/ Before(out', i, "on", a)
      BY <1>3, <1>5 DEF Path, Steady
    <3>6. a \in route /\ compress[a] /\ tty[a] = "running" => a \in comp \/ Has(out', "on", a)
      BY <1>3, <1>5 DEF Path, Steady
    <3> QED BY <1>2, <1>4, <1>7, <3>1, <3>2, <3>3, <3>4, <3>5, <3>6 DEF Steady
  <2>3. Agreed(a)'
    <3>1. a \in comp' \/ Has(out', "on", a) => compress'[a]
      BY <1>2, <1>3, <1>4, <1>5 DEF Path, Agreed
    <3>2. hole'[a] => ~compress'[a]
      BY <1>4, <1>5, <1>7 DEF Path, Agreed
    <3>3. \A i \in 1..Len(chan'[a]) : chan'[a][i].comp = compress[a] /\ (compress[a] => ~chan'[a][i].holed)
      <4>1. CASE chan'[a] = chan[a]
        BY <1>5, <4>1 DEF Path, Agreed
      <4>2. CASE chan'[a] = Append(chan[a], f) /\ Listens(a)
        <5>1. f.comp = compress[a] /\ (compress[a] => ~f.holed)
          BY <1>3, <1>5, <1>6, <4>2, CompressorAgrees DEF Path, Agreed
        <5>2. /\ chan[a] \in Seq(Frames)
              /\ \A i \in 1..Len(chan'[a]) : (i \in 1..Len(chan[a]) /\ chan'[a][i] = chan[a][i]) \/ chan'[a][i] = f
          BY <1>3, <1>5, <4>2
        <5> QED BY <1>5, <5>1, <5>2 DEF Path, Agreed
      <4> QED BY <1>7, <4>1, <4>2
    <3> QED BY <1>4, <1>5, <3>1, <3>2, <3>3 DEF Path, Agreed
  <2>4. Cleaned(a)'
    BY <1>4, <1>5, <1>7 DEF Path, Cleaned
  <2> QED BY <2>1, <2>2, <2>3, <2>4 DEF Path
<1> QED BY <1>8, <1>9, <1>10, <1>11 DEF AttachInv

-----------------------------------------------------------------------------
(* The resync task.                                                        *)

(* A finite set of attaches makes a sequence of orders to redraw them.     *)
LEMMA RefreshOrders ==
  ASSUME IsFiniteSet(pending), pending \subseteq Attaches
  PROVE  LET s == SetToSeq({Say("refresh", a) : a \in pending}) IN
         s \in Seq(Orders) /\ \A i \in 1..Len(s) : s[i].op = "refresh"
<1> DEFINE T == {Say("refresh", a) : a \in pending}
           F == [a \in pending |-> Say("refresh", a)]
<1>1. F \in Bijection(pending, T)
  <2>1. F \in [pending -> T] /\ \A t \in T : \E a \in pending : F[a] = t
    OBVIOUS
  <2>2. \A a, b \in pending : F[a] = F[b] => a = b
    BY DEF Say
  <2> HIDE DEF F, T
  <2> QED BY <2>1, <2>2, Fun_IsBij
<1>2. T \subseteq Orders /\ \A t \in T : t.op = "refresh"
  <2>1. \A a \in Attaches : Say("refresh", a) \in Orders /\ Say("refresh", a).op = "refresh"
    BY DEF Say, Orders
  <2>2. \A t \in T : \E a \in pending : t = Say("refresh", a)
    OBVIOUS
  <2> HIDE DEF T
  <2> QED BY <2>1, <2>2
<1> HIDE DEF F, T
<1>3. IsFiniteSet(T)
  BY <1>1, FS_Bijection DEF ExistsBijection
<1>4. PICK f \in Bijection(1..Cardinality(T), T) : TRUE
  BY <1>3, FS_CardinalityType DEF ExistsBijection
<1>5. f \in [1..Cardinality(T) -> T] /\ IsInjective(f)
  <2>1. f \in [1..Cardinality(T) -> T] /\ \A i, j \in 1..Cardinality(T) : f[i] = f[j] => i = j
    BY <1>4, Fun_BijectionProperties
  <2>2. DOMAIN f = 1..Cardinality(T)
    BY <2>1
  <2> QED BY <2>1, <2>2 DEF IsInjective
<1>6. SetToSeq(T) \in [1..Cardinality(T) -> T]
  BY <1>5 DEF SetToSeq
<1>7. Cardinality(T) \in Nat
  BY <1>3, FS_CardinalityType
<1>8. SetToSeq(T) \in Seq(T)
  BY <1>6, <1>7
<1>9. SetToSeq(T) \in Seq(Orders) /\ \A i \in 1..Len(SetToSeq(T)) : SetToSeq(T)[i].op = "refresh"
  BY <1>2, <1>8
<1> QED BY <1>9 DEF T

LEMMA ResyncInv == ASSUME AttachInv, TakeNotice \/ SendRefresh PROVE AttachInv'
<1>1. /\ UNCHANGED <<sock, compress, route, chan, hole, screen, mconn, opened, conn, serving, out, unheard,
                     via, tty, paint, comp, printed>>
  BY DEF TakeNotice, SendRefresh, browser, links, machine
<1>2. /\ notices \in Seq(Attaches) /\ Len(notices) <= ResyncCap /\ ResyncCap \in Nat /\ pending \subseteq Attaches
      /\ IsFiniteSet(pending) /\ cmd \in Seq(Orders) /\ out \in Seq(Items)
  BY CapsAssumption DEF AttachInv, AttachTyped, AttachTypeOK
<1>3. /\ cmd' \in Seq(Orders) /\ (\A a \in Attaches : Same(cmd, cmd', 0, Ops, a)) /\ (mconn = 0 => cmd' = cmd)
      /\ notices' \in Seq(Attaches) /\ Len(notices') <= ResyncCap /\ pending' \subseteq Attaches
      /\ IsFiniteSet(pending')
  <2>1. CASE TakeNotice
    <3>1. notices # <<>> /\ pending' = pending \cup {Head(notices)} /\ notices' = Tail(notices) /\ cmd' = cmd
      BY <2>1 DEF TakeNotice
    <3>2. Head(notices) \in Attaches /\ notices' \in Seq(Attaches) /\ Len(notices') <= ResyncCap
      <4>1. Len(notices) \in Nat /\ Len(notices') = Len(notices) - 1 /\ notices' \in Seq(Attaches)
        BY <1>2, <3>1
      <4> QED BY <1>2, <3>1, <4>1
    <3>3. IsFiniteSet(pending')
      BY <1>2, <3>1, FS_AddElement
    <3> QED BY <1>2, <3>1, <3>2, <3>3, Unmoved
  <2>2. CASE SendRefresh
    <3>1. PICK s : s = SetToSeq({Say("refresh", a) : a \in pending})
      OBVIOUS
    <3>2. s \in Seq(Orders) /\ (\A i \in 1..Len(s) : s[i].op = "refresh") /\ "refresh" \notin Ops
      BY <1>2, <3>1, RefreshOrders DEF Ops
    <3>3. Tell(s) /\ pending' = {} /\ notices' = notices
      BY <2>2, <3>1 DEF SendRefresh
    <3>4. (cmd' = cmd \o s /\ mconn # 0) \/ cmd' = cmd
      BY <3>2, <3>3, TellSays
    <3>5. cmd' \in Seq(Orders) /\ \A a \in Attaches : Same(cmd, cmd', 0, Ops, a)
      <4>1. CASE cmd' = cmd \o s
        <5>1. cmd' \in Seq(Orders)
          BY <1>2, <3>2, <4>1
        <5>2. ASSUME NEW a \in Attaches PROVE Same(cmd, cmd', 0, Ops, a)
          <6>1. \A i \in 1..Len(s) : ~(s[i].a = a /\ s[i].op \in Ops)
            BY <3>2
          <6> QED BY <1>2, <3>2, <4>1, <6>1, Grows
        <5> QED BY <5>1, <5>2
      <4>2. CASE cmd' = cmd
        BY <1>2, <4>2, Unmoved
      <4> QED BY <3>4, <4>1, <4>2
    <3>6. IsFiniteSet(pending')
      BY <3>3, FS_EmptySet
    <3> QED BY <1>2, <3>3, <3>4, <3>5, <3>6
  <2> QED BY <2>1, <2>2
<1>4. AttachTyped'
  BY <1>1, <1>3 DEF AttachInv, AttachTyped, AttachTypeOK
<1>5. Linked'
  BY <1>1, <1>3 DEF AttachInv, Linked
<1>6. ASSUME NEW a \in Attaches PROVE Path(a)'
  <2>1. Same(out, out', 0, Ops, a) /\ Same(cmd, cmd', 0, Ops, a) /\ Path(a) /\ out' \in Seq(Items)
    BY <1>1, <1>2, <1>3, Unmoved DEF AttachInv
  <2> QED BY <1>1, <1>2, <1>3, <2>1, PathKept
<1> QED BY <1>4, <1>5, <1>6 DEF AttachInv

-----------------------------------------------------------------------------
LEMMA IdleInv == ASSUME AttachInv, UNCHANGED attachVars PROVE AttachInv'
<1>1. UNCHANGED <<sock, compress, route, chan, hole, screen, mconn, opened, conn, serving, cmd, out, notices,
                  pending, unheard, via, tty, paint, comp, printed>>
  BY DEF attachVars, browser, links, resync, machine
<1>2. \A a \in Attaches : Path(a)'
  BY <1>1, AllKept
<1> QED BY <1>1, <1>2 DEF AttachInv, AttachTyped, AttachTypeOK, Linked

LEMMA NextAttachInv == AttachInv /\ [AttachNext]_attachVars => AttachInv'
<1> SUFFICES ASSUME AttachInv, [AttachNext]_attachVars PROVE AttachInv'
  OBVIOUS
<1>1. ASSUME NEW a \in Attaches, OpenSocket(a) \/ RequestAttach(a) \/ RefuseAttach(a) \/ ReadFrame(a) PROVE AttachInv'
  BY <1>1, OpenSocketInv, RequestAttachInv, RefuseAttachInv, ReadFrameInv
<1>2. ASSUME NEW a \in Attaches, BrowserLeaves(a) \/ SenderDropped(a) \/ CleanUp(a) PROVE AttachInv'
  BY <1>2, EndSocketInv, CleanUpInv
<1>3. ASSUME NEW a \in Attaches, WriteText(a) \/ Repaint(a) \/ Exits(a) \/ Killed(a) PROVE AttachInv'
  BY <1>3, WriteInv, EndInv
<1>4. CASE Connect \/ Disconnect \/ \E c \in Conns : EndServing(c) \/ DropRoutes(c)
  BY <1>4, ConnectionInv, DisconnectInv
<1>5. CASE OpenAttach \/ OpenFails \/ CloseAttach \/ RefreshAttach
  BY <1>5, OpenInv, CloseAttachInv, RefreshAttachInv
<1>6. CASE SwitchCompressor \/ HandleDied \/ ReceiveFrame
  BY <1>6, SwitchCompressorInv, HandleDiedInv, ReceiveFrameInv
<1>7. CASE TakeNotice \/ SendRefresh
  BY <1>7, ResyncInv
<1>8. CASE UNCHANGED attachVars
  BY <1>8, IdleInv
<1> QED BY <1>1, <1>2, <1>3, <1>4, <1>5, <1>6, <1>7, <1>8 DEF AttachNext

(* What is on its way about an attach always fits the state of its socket, *)
(* its client and its compressor (ws.rs handle_terminal_ws, hub_conn.rs    *)
(* send loop): AttachInv is an invariant.                                  *)
THEOREM AttachInvariant == AttachSpec => []AttachInv
BY InitAttachInv, NextAttachInv, PTL DEF AttachSpec

(* For any number of sockets, connections and queued frames: no browser    *)
(* ever shows garbage, so a compressed stream is compressed from its first *)
(* frame and has no hole, and a plain one is never compressed (ws.rs       *)
(* try_send, hub_conn.rs send loop).                                       *)
THEOREM StreamsStayIntact == AttachSpec => []StreamIntact
<1>1. AttachInv => StreamIntact
  BY DEF AttachInv, Path, Agreed, StreamIntact
<1> QED BY <1>1, AttachInvariant, PTL

(* A closed socket leaves no route on the hub and, once its order to close *)
(* is read, nothing on the machine (handle_terminal_ws cleanup).           *)
THEOREM NothingIsLeaked == AttachSpec => []NothingLeaks
<1>1. AttachInv => NothingLeaks
  <2> SUFFICES ASSUME AttachInv, NEW a \in Attaches, sock[a] = "closed"
               PROVE  /\ a \notin route
                      /\ Ordered("close", a) \/ (tty[a] \in {"none", "closing", "gone"} /\ ~Ordered("open", a))
    BY DEF NothingLeaks
  <2>1. cmd \in Seq(Orders) /\ Cleaned(a)
    BY DEF AttachInv, AttachTyped, Path
  <2>2. \A i \in 1..Len(cmd) : cmd[i] \in Orders
    BY <2>1
  <2>3. ASSUME NEW op PROVE Ordered(op, a) <=> Has(cmd, op, a)
    <3>1. DOMAIN cmd = 1..Len(cmd)
      BY <2>1
    <3>2. \A i \in 1..Len(cmd) : cmd[i] = Say(op, a) <=> At(cmd, i, op, a)
      <4> SUFFICES ASSUME NEW i \in 1..Len(cmd) PROVE cmd[i] = Say(op, a) <=> At(cmd, i, op, a)
        OBVIOUS
      <4>1. PICK o, b : cmd[i] = [op |-> o, a |-> b, full |-> FALSE]
        BY <2>2 DEF Orders
      <4>2. cmd[i].op = o /\ cmd[i].a = b
        BY <4>1
      <4>3. Say(op, a).op = op /\ Say(op, a).a = a
        BY DEF Say
      <4> QED BY <4>1, <4>2, <4>3 DEF Say, At
    <3> QED BY <3>1, <3>2 DEF Ordered, Has
  <2> QED BY <2>1, <2>3 DEF Cleaned
<1> QED BY <1>1, AttachInvariant, PTL

(* Every reachable state of the path of a terminal's output is well typed, *)
(* and neither the queue of a socket nor that of the notices grows past    *)
(* its bound (ATTACH_OUTPUT_QUEUE, resync_tx).                             *)
THEOREM AttachTypes == AttachSpec => []AttachTypeOK
<1>1. AttachInv => AttachTypeOK
  BY DEF AttachInv, AttachTyped
<1> QED BY <1>1, AttachInvariant, PTL
=============================================================================
