------------------------- MODULE EventStreamProofs -------------------------
(***************************************************************************)
(* EventStream and TerminalRegistry, for every set of keys, terminals and  *)
(* tabs, every user of the hub, and every bound.                           *)
(*                                                                         *)
(* 1. The replay: what Missed takes from the history, by induction on it.  *)
(* 2. The browser in step with the hub: StreamInv speaks of a log, the set *)
(*    of all events numbered in this life of the hub, of which the history,*)
(*    the receiver and the replay hold parts; that there is such a set is  *)
(*    the invariant (InStep).                                              *)
(* 3. The hub's list of terminals: RegInv, which the registry's types, the *)
(*    connections (Wired), the messages (Messaged), the rows (Accounted)   *)
(*    and what the hub remembers of them (Remembered) make up.             *)
(* 4. The tab of a terminal: PlaceInv, on top of RegInv.  A creation on    *)
(*    the way is news to the hub, and nothing is listed before the report. *)
(***************************************************************************)
EXTENDS EventStream, TerminalRegistry, SequenceTheorems, FunctionTheorems, FiniteSetTheorems,
        WellFoundedInduction, TLAPS

-----------------------------------------------------------------------------
(* Induction over the naturals, by sets.                                   *)
LEMMA Induction ==
  ASSUME NEW S \in SUBSET Nat, 0 \in S, \A n \in S : n + 1 \in S
  PROVE  S = Nat
<1> SUFFICES ASSUME Nat \ S # {} PROVE FALSE
  OBVIOUS
<1> DEFINE Less == {p \in Nat \X Nat : p[1] < p[2]}
<1>1. OpToRel(<, Nat) = Less
  BY Zenon DEF OpToRel
<1>2. IsWellFoundedOn(Less, Nat)
  BY <1>1, NatLessThanWellFounded
<1>3. PICK x \in Nat \ S : \A y \in Nat \ S : ~ (<<y, x>> \in Less)
  <2> HIDE DEF Less
  <2> QED BY <1>2, WFMin
<1>4. x # 0 /\ x - 1 \in Nat
  BY <1>3
<1>5. <<x - 1, x>> \in Less
  BY <1>4
<1>6. x - 1 \in S
  BY <1>3, <1>4, <1>5
<1> QED BY <1>3, <1>4, <1>6

(* One entry of the history more.                                          *)
Keeps(after, s, e) == IF e.seq > after /\ Visible(e) THEN Append(s, e) ELSE s

(* The replay is gathered entry by entry...                                *)
LEMMA MissedSteps ==
  ASSUME NEW after, history \in Seq(Events)
  PROVE  \E f : /\ f[0] = <<>> /\ Missed(after) = f[Len(history)]
                /\ \A i \in 1..Len(history) : f[i] = Keeps(after, f[i - 1], history[i])
<1> DEFINE Step(f, n) == [i \in 0..n |-> IF i = 0 THEN <<>> ELSE Keeps(after, f[i - 1], history[i])]
           S == {n \in Nat : \E f : f = Step(f, n)}
<1>1. 0 \in S
  <2> DEFINE g == [i \in 0..0 |-> <<>>]
  <2>1. g = Step(g, 0)
    OBVIOUS
  <2> QED BY <2>1
<1>2. ASSUME NEW n \in S PROVE n + 1 \in S
  <2>1. PICK g : g = Step(g, n)
    OBVIOUS
  <2> DEFINE f == [i \in 0..n + 1 |-> IF i <= n THEN g[i] ELSE Keeps(after, g[n], history[n + 1])]
  <2>2. \A i \in 0..n : g[i] = IF i = 0 THEN <<>> ELSE Keeps(after, g[i - 1], history[i])
    BY <2>1
  <2> HIDE DEF S
  <2>3. n \in Nat
    BY DEF S
  <2>4. ASSUME NEW i \in 0..n + 1
        PROVE  f[i] = IF i = 0 THEN <<>> ELSE Keeps(after, f[i - 1], history[i])
    <3>1. CASE i = 0
      BY <2>2, <2>3, <3>1
    <3>2. CASE i \in 1..n
      <4>1. i <= n /\ i - 1 <= n /\ i - 1 \in 0..n + 1 /\ i \in 0..n /\ i # 0
        BY <2>3, <3>2
      <4> QED BY <2>2, <4>1
    <3>3. CASE i = n + 1
      <4>1. ~(i <= n) /\ i - 1 = n /\ n \in 0..n + 1 /\ i # 0
        BY <2>3, <3>3
      <4> QED BY <3>3, <4>1
    <3> QED BY <2>3, <3>1, <3>2, <3>3
  <2>5. f = Step(f, n + 1)
    BY <2>4
  <2> HIDE DEF f, Step
  <2>6. \E h : h = Step(h, n + 1)
    BY <2>5
  <2> QED BY <2>3, <2>6 DEF S
<1>3. Len(history) \in S
  <2> HIDE DEF S
  <2>1. S \in SUBSET Nat
    BY DEF S
  <2>2. S = Nat
    BY <1>1, <1>2, <2>1, Induction
  <2> QED BY <2>2
<1> DEFINE r == CHOOSE f : f = Step(f, Len(history))
<1>4. r = Step(r, Len(history))
  <2>1. \E f : f = Step(f, Len(history))
    BY <1>3
  <2> QED BY <2>1, Zenon
<1>5. Missed(after) = r[Len(history)]
  BY DEF Missed, Keeps
<1> HIDE DEF r
<1>6. r[0] = <<>> /\ \A i \in 1..Len(history) : r[i] = Keeps(after, r[i - 1], history[i])
  BY <1>4
<1> QED BY <1>5, <1>6

(* ... and is made of the visible entries past the number, all of them.    *)
LEMMA MissedAre ==
  ASSUME NEW after \in Nat, history \in Seq(Events)
  PROVE  /\ Missed(after) \in Seq(Events)
         /\ \A j \in 1..Len(Missed(after)) :
              Visible(Missed(after)[j]) /\ \E i \in 1..Len(history) : Missed(after)[j] = history[i]
         /\ \A i \in 1..Len(history) : history[i].seq > after /\ Visible(history[i]) =>
              \E j \in 1..Len(Missed(after)) : Missed(after)[j] = history[i]
<1>1. PICK f : /\ f[0] = <<>> /\ Missed(after) = f[Len(history)]
               /\ \A i \in 1..Len(history) : f[i] = Keeps(after, f[i - 1], history[i])
  BY MissedSteps
<1> DEFINE Kept(n) ==
             /\ f[n] \in Seq(Events)
             /\ \A j \in 1..Len(f[n]) : Visible(f[n][j]) /\ \E i \in 1..Len(history) : f[n][j] = history[i]
             /\ \A i \in 1..n : history[i].seq > after /\ Visible(history[i]) =>
                  \E j \in 1..Len(f[n]) : f[n][j] = history[i]
           S == {n \in Nat : n <= Len(history) => Kept(n)}
<1>2. 0 \in S
  <2>1. f[0] \in Seq(Events) /\ Len(f[0]) = 0
    BY <1>1, EmptySeq
  <2>2. 1..Len(f[0]) = {} /\ 1..0 = {}
    BY <2>1
  <2>3. Kept(0)
    BY <2>1, <2>2
  <2> QED BY <2>3
<1> HIDE DEF Kept
<1>3. ASSUME NEW n \in S PROVE n + 1 \in S
  <2> SUFFICES ASSUME n + 1 <= Len(history) PROVE Kept(n + 1)
    OBVIOUS
  <2> DEFINE s == f[n]
             e == history[n + 1]
  <2>0. n <= Len(history) => Kept(n)
    OBVIOUS
  <2>1. /\ n \in Nat /\ n + 1 \in 1..Len(history) /\ Len(history) \in Nat /\ e \in Events
        /\ \A i \in 1..n + 1 : i \in 1..n \/ i = n + 1
    <3> HIDE DEF S
    <3>1. Len(history) \in Nat /\ n \in Nat
      BY DEF S
    <3>2. n + 1 \in 1..Len(history)
      BY <3>1
    <3> QED BY <3>1, <3>2
  <2>2. /\ s \in Seq(Events)
        /\ \A j \in 1..Len(s) : Visible(s[j]) /\ \E i \in 1..Len(history) : s[j] = history[i]
        /\ \A i \in 1..n : history[i].seq > after /\ Visible(history[i]) =>
             \E j \in 1..Len(s) : s[j] = history[i]
    <3>1. n <= Len(history)
      BY <2>1
    <3> QED BY <2>0, <3>1 DEF Kept
  <2>3. f[n + 1] = Keeps(after, s, e)
    BY <1>1, <2>1
  <2> HIDE DEF s, S
  <2>4. CASE e.seq > after /\ Visible(e)
    <3>1. f[n + 1] = Append(s, e)
      BY <2>3, <2>4 DEF Keeps
    <3>2. /\ f[n + 1] \in Seq(Events) /\ Len(f[n + 1]) = Len(s) + 1 /\ Len(s) \in Nat
          /\ \A j \in 1..Len(s) : f[n + 1][j] = s[j] /\ f[n + 1][Len(s) + 1] = e
          /\ f[n + 1][Len(s) + 1] = e
      BY <2>1, <2>2, <3>1
    <3>3. /\ \A j \in 1..Len(f[n + 1]) : j \in 1..Len(s) \/ j = Len(s) + 1
          /\ \A j \in 1..Len(s) : j \in 1..Len(f[n + 1])
          /\ Len(s) + 1 \in 1..Len(f[n + 1])
      BY <3>2
    <3>4. \A j \in 1..Len(f[n + 1]) :
            Visible(f[n + 1][j]) /\ \E i \in 1..Len(history) : f[n + 1][j] = history[i]
      BY <2>1, <2>2, <2>4, <3>2, <3>3
    <3>5. ASSUME NEW i \in 1..n + 1, history[i].seq > after, Visible(history[i])
          PROVE  \E j \in 1..Len(f[n + 1]) : f[n + 1][j] = history[i]
      BY <2>1, <2>2, <3>2, <3>3, <3>5
    <3> QED BY <3>2, <3>4, <3>5 DEF Kept
  <2>5. CASE ~(e.seq > after /\ Visible(e))
    <3>1. f[n + 1] = s
      BY <2>3, <2>5 DEF Keeps
    <3> QED BY <2>1, <2>2, <2>5, <3>1 DEF Kept
  <2> QED BY <2>4, <2>5
<1>4. Len(history) \in S
  <2> HIDE DEF S
  <2>1. S \in SUBSET Nat
    BY DEF S
  <2>2. S = Nat
    BY <1>2, <1>3, <2>1, Induction
  <2> QED BY <2>2
<1>5. Kept(Len(history))
  BY <1>4
<1> QED BY <1>1, <1>5 DEF Kept

-----------------------------------------------------------------------------
(* What the hub has numbered in this life, wherever it is now.             *)
Holds(q, log) == \A i \in 1..Len(q) : q[i] \in log
Numbered(log) ==
  /\ log \subseteq Events
  /\ \A e \in log : e.seq <= nextSeq
  /\ \A e, f \in log : e.seq = f.seq => e = f
  /\ Holds(history, log) /\ Holds(rx, log) /\ Holds(replay, log)
  /\ \A i \in 1..Len(replay) : Visible(replay[i])
  /\ \A s \in sending : s.at # "changed" => Event(s) \in log

(* The last event of a key is the one that told its value.                 *)
Newest(log) ==
  \A e \in log : (\A f \in log : f.key = e.key => f.seq <= e.seq) => e.val = told[e.key]

(* A queue holds an event or a later one that the user may see.            *)
Due(q, e) == \E i \in 1..Len(q) : Visible(q[i]) /\ q[i].seq >= e.seq
Unrecorded(e) == \E s \in sending : s.at = "numbered" /\ s.seq = e.seq

(* Past what it let go of unnoticeably, an event the history does not make *)
(* up for is still to be recorded, or a gap before the first entry.        *)
Recorded(log) ==
  \A e \in log : Visible(e) /\ e.seq > lost =>
    \/ Unrecorded(e)
    \/ Due(history, e)
    \/ Len(history) >= 1 /\ history[1].seq > e.seq

Hub(log) == Numbered(log) /\ Newest(log) /\ Recorded(log) /\ Len(history) <= HistoryLimit

(* What is known of a key up to a number is its state, or what its last    *)
(* event told, or something is yet to be told.                             *)
Known(log, k, val, n) ==
  \/ val = state[k]
  \/ val = told[k]
  \/ \E s \in sending : s.key = k /\ s.at = "changed"
  \/ \E e \in log : e.key = k /\ e.seq > n

Snapped(log) ==
  client.at = "reading" =>
    client.snapSeq <= nextSeq /\ \A k \in Mine \ client.unread : Known(log, k, client.got[k], client.snapSeq)

Holding == client.at \in {"ready", "subscribed", "live"} /\ client.snapSeq > 0
Viewed(log) ==
  Holding /\ client.life = life =>
    /\ client.lastSeq > 0 /\ client.lastSeq <= nextSeq
    /\ \A k \in Mine : Known(log, k, client.view[k], client.lastSeq)

(* To a snapshot of an earlier life everything new looks like a gap.       *)
Foreign(log) ==
  Holding /\ client.life # life /\ ~burst =>
    client.lastSeq > 0 /\ client.lastSeq < nextSeq /\ \A e \in log : client.lastSeq + 1 < e.seq

(* An event a live browser has not seen, or a later one, is coming.        *)
Pending(e) == \E s \in sending : s.at # "changed" /\ s.seq = e.seq
Awaited(log) ==
  Holding /\ client.life = life /\ client.at = "live" /\ ~lagged =>
    \A e \in log : Visible(e) /\ e.seq > client.lastSeq /\ e.seq > lost =>
      Pending(e) \/ Due(replay, e) \/ Due(rx, e)

Browser(log) ==
  /\ Snapped(log) /\ Viewed(log) /\ Foreign(log) /\ Awaited(log)
  /\ lagged => rx # <<>>
  /\ client.life <= life

StreamInv(log) == TypeOK /\ Hub(log) /\ Browser(log)

-----------------------------------------------------------------------------
(* A new hub has numbered nothing.                                         *)
LEMMA InitStream == Init => StreamInv({})
<1> SUFFICES ASSUME Init PROVE StreamInv({})
  OBVIOUS
<1>1. /\ state = [k \in Keys |-> 0] /\ nextSeq = 0 /\ persisted = 0 /\ history = <<>>
      /\ sending = {} /\ told = state /\ lost = 0 /\ burst = FALSE
      /\ life = 1 /\ replay = <<>> /\ rx = <<>> /\ lagged = FALSE /\ drops = 0
      /\ client = [at |-> "down", lastSeq |-> 0, view |-> [k \in Mine |-> 0],
                   life |-> 1, snapSeq |-> 0, got |-> [k \in Mine |-> 0], unread |-> {}]
  BY DEF Init, NothingRead
<1>2. TypeOK
  <2>1. client \in Clients
    BY <1>1 DEF Clients, Steps, Views
  <2>2. history \in Seq(Events) /\ replay \in Seq(Events) /\ rx \in Seq(Events)
    BY <1>1, EmptySeq
  <2> QED BY <1>1, <2>1, <2>2 DEF TypeOK
<1>3. Hub({})
  <2>1. Len(history) = 0 /\ Len(rx) = 0 /\ Len(replay) = 0 /\ HistoryLimit \in Nat
    BY <1>1, LimitsAssumption
  <2> QED BY <1>1, <2>1 DEF Hub, Numbered, Newest, Recorded, Holds
<1>4. Browser({})
  <2>1. client.at = "down" /\ client.life = 1 /\ life = 1 /\ ~lagged
    BY <1>1
  <2> QED BY <2>1 DEF Browser, Snapped, Viewed, Foreign, Awaited, Holding
<1> QED BY <1>2, <1>3, <1>4 DEF StreamInv

(* The parts of the browser's record.                                      *)
LEMMA ClientShapes ==
  ASSUME TypeOK
  PROVE  /\ client.at \in Steps /\ client.lastSeq \in Nat /\ client.view \in [Mine -> Nat] /\ client.life \in Nat
         /\ client.snapSeq \in Nat /\ client.got \in [Mine -> Nat] /\ client.unread \subseteq Mine
BY DEF TypeOK, Clients, Views

(* The parts of a change being sent.                                       *)
LEMMA ChangeShapes ==
  ASSUME TypeOK, NEW s \in sending
  PROVE  /\ s \in Changes /\ s.key \in Keys /\ s.val \in Nat /\ s.seq \in Nat
         /\ s.at \in {"changed", "numbered", "recorded"}
         /\ Event(s) \in Events /\ Event(s).seq = s.seq /\ Event(s).key = s.key /\ Event(s).val = s.val
<1>1. s \in Changes
  BY DEF TypeOK
<1> QED BY <1>1 DEF Changes, Event, Events

(* What is numbered, and what the history holds of it, is made of events.  *)
LEMMA LogKeys ==
  ASSUME TypeOK, NEW log, Numbered(log)
  PROVE  /\ \A e \in log : e \in Events /\ e.key \in Keys /\ e.seq \in Nat /\ e.val \in Nat
         /\ \A i \in 1..Len(history) :
              history[i] \in log /\ history[i] \in Events /\ history[i].key \in Keys /\ history[i].seq \in Nat
BY DEF Numbered, Events, Holds

-----------------------------------------------------------------------------
(* The hub's steps.                                                        *)
(* A change makes its key unknown until its event is numbered...           *)
LEMMA ChangeStateInv ==
  ASSUME NEW log, StreamInv(log), NEW k \in Keys, ChangeState(k)
  PROVE  StreamInv(log)'
<1>0. PICK new : new = [key |-> k, val |-> state[k] + 1, at |-> "changed", seq |-> 0]
  OBVIOUS
<1>1. /\ state' = [state EXCEPT ![k] = state[k] + 1] /\ sending' = sending \union {new}
      /\ UNCHANGED <<nextSeq, persisted, history, told, lost, burst, life, client, replay, rx, lagged, drops>>
  BY <1>0 DEF ChangeState, socket
<1>2. /\ TypeOK /\ state[k] \in Nat /\ new \in Changes /\ new.at = "changed" /\ new.key = k
  <2>1. TypeOK /\ state[k] \in Nat
    BY DEF StreamInv, TypeOK
  <2> QED BY <1>0, <2>1 DEF Changes
<1>3. /\ state' \in [Keys -> Nat] /\ \A j \in Keys : j # k => state'[j] = state[j]
  BY <1>1, <1>2 DEF TypeOK
<1>4. TypeOK'
  BY <1>1, <1>2, <1>3 DEF TypeOK
<1>5. /\ \A e : (Unrecorded(e)') <=> Unrecorded(e)
      /\ \A e : (Pending(e)') <=> Pending(e)
  BY <1>1, <1>2 DEF Unrecorded, Pending
<1>6. Hub(log)'
  <2>1. Numbered(log)'
    BY <1>1, <1>2 DEF StreamInv, Hub, Numbered, Holds, Visible, Event
  <2>2. Newest(log)'
    BY <1>1 DEF StreamInv, Hub, Newest
  <2>3. Recorded(log)'
    BY <1>1, <1>5 DEF StreamInv, Hub, Recorded, Visible, Due
  <2> QED BY <1>1, <2>1, <2>2, <2>3 DEF StreamInv, Hub
<1>7. Browser(log)'
  <2>1. ASSUME NEW j \in Keys, NEW val, NEW n, Known(log, j, val, n) PROVE Known(log, j, val, n)'
    <3>1. CASE j = k
      BY <1>1, <1>2, <3>1 DEF Known
    <3>2. CASE j # k
      BY <1>1, <1>3, <2>1, <3>2 DEF Known
    <3> QED BY <3>1, <3>2
  <2>2. Mine \subseteq Keys
    BY KeysAssumption
  <2>3. Snapped(log)'
    BY <1>1, <2>1, <2>2 DEF StreamInv, Browser, Snapped
  <2>4. Viewed(log)'
    BY <1>1, <2>1, <2>2 DEF StreamInv, Browser, Viewed, Holding
  <2>5. Foreign(log)'
    BY <1>1 DEF StreamInv, Browser, Foreign, Holding
  <2>6. Awaited(log)'
    BY <1>1, <1>5 DEF StreamInv, Browser, Awaited, Holding, Due, Visible
  <2> QED BY <1>1, <2>3, <2>4, <2>5, <2>6 DEF StreamInv, Browser
<1> QED BY <1>4, <1>6, <1>7 DEF StreamInv

(* ... which is then the newest of all events, and on its way.             *)
LEMMA NumberEventInv ==
  ASSUME NEW log, StreamInv(log), NEW s \in sending, NumberEvent(s)
  PROVE  \E new : StreamInv(log \union {new})'
<1>0. PICK t, new : /\ t = [s EXCEPT !.at = "numbered", !.seq = nextSeq + 1]
                    /\ new = [seq |-> nextSeq + 1, key |-> s.key, val |-> s.val]
  OBVIOUS
<1>1. /\ s.at = "changed" /\ nextSeq' = nextSeq + 1 /\ sending' = (sending \ {s}) \union {t}
      /\ told' = [told EXCEPT ![s.key] = s.val]
      /\ UNCHANGED <<state, persisted, history, lost, burst, life, client, replay, rx, lagged, drops>>
  BY <1>0 DEF NumberEvent, Moved, socket
<1>2. TypeOK /\ Numbered(log) /\ nextSeq \in Nat /\ s \in Changes /\ s.key \in Keys /\ s.val \in Nat
  <2>1. TypeOK /\ Numbered(log)
    BY DEF StreamInv, Hub
  <2> QED BY <2>1, ChangeShapes DEF TypeOK
<1>3. /\ t \in Changes /\ t.at = "numbered" /\ t.seq = nextSeq + 1 /\ t.key = s.key /\ t.val = s.val
      /\ new \in Events /\ new.seq = nextSeq + 1 /\ new.key = s.key /\ new.val = s.val
  <2>1. nextSeq + 1 \in Nat /\ "numbered" \in {"changed", "numbered", "recorded"}
    BY <1>2
  <2>2. t \in Changes /\ t.at = "numbered" /\ t.seq = nextSeq + 1 /\ t.key = s.key /\ t.val = s.val
    BY <1>0, <1>2, <2>1 DEF Changes
  <2>3. new \in Events /\ new.seq = nextSeq + 1 /\ new.key = s.key /\ new.val = s.val
    BY <1>0, <1>2, <2>1 DEF Events
  <2> QED BY <2>2, <2>3
<1>4. Event(t) = new
  BY <1>0, <1>3 DEF Event
<1>5. /\ told' \in [Keys -> Nat] /\ told'[s.key] = s.val
      /\ \A j \in Keys : j # s.key => told'[j] = told[j]
  BY <1>1, <1>2 DEF TypeOK
<1>6. TypeOK'
  BY <1>1, <1>2, <1>3, <1>5 DEF TypeOK
<1>7. /\ \A e \in log : e \in Events /\ e.key \in Keys /\ e.seq \in Nat /\ e.seq <= nextSeq /\ e.seq < new.seq
      /\ \A i \in 1..Len(history) : history[i] \in log /\ history[i].seq \in Nat
  BY <1>2, <1>3, LogKeys DEF Numbered
<1>8. /\ \A e : Unrecorded(e) => Unrecorded(e)'
      /\ \A e : Pending(e) => Pending(e)'
      /\ Unrecorded(new)' /\ Pending(new)'
  BY <1>1, <1>3 DEF Unrecorded, Pending
<1> DEFINE all == log \union {new}
<1>9. /\ \A e : e \in all <=> e \in log \/ e = new
      /\ \A e \in all : e.seq <= nextSeq + 1
  BY <1>2, <1>3, <1>7
<1> HIDE DEF all
<1>10. Hub(all)'
  <2>1. Numbered(all)'
    <3>1. all \subseteq Events
      BY <1>3, <1>7, <1>9
    <3>2. \A e, f \in all : e.seq = f.seq => e = f
      <4> SUFFICES ASSUME NEW e \in all, NEW f \in all, e.seq = f.seq PROVE e = f
        OBVIOUS
      <4>1. CASE e \in log /\ f \in log
        BY <1>2, <4>1 DEF Numbered
      <4>2. CASE e = new \/ f = new
        BY <1>2, <1>3, <1>7, <1>9, <4>2
      <4> QED BY <1>9, <4>1, <4>2
    <3>3. Holds(history, all) /\ Holds(rx, all) /\ Holds(replay, all) /\ \A i \in 1..Len(replay) : Visible(replay[i])
      BY <1>2, <1>9 DEF Numbered, Holds
    <3>4. \A x \in sending' : x.at # "changed" => Event(x) \in all
      BY <1>1, <1>2, <1>4, <1>9 DEF Numbered
    <3> QED BY <1>1, <1>9, <3>1, <3>2, <3>3, <3>4 DEF Numbered, Holds, Event, Visible
  <2>2. Newest(all)'
    <3> SUFFICES ASSUME NEW e \in all, \A f \in all : f.key = e.key => f.seq <= e.seq
                 PROVE  e.val = told'[e.key]
      BY DEF Newest
    <3>1. CASE e = new
      BY <1>3, <1>5, <3>1
    <3>2. CASE e \in log /\ e.key = s.key
      <4>1. new.seq <= e.seq
        BY <1>3, <1>9, <3>2
      <4> QED BY <1>2, <1>3, <1>7, <3>2, <4>1
    <3>3. CASE e \in log /\ e.key # s.key
      <4>1. \A f \in log : f.key = e.key => f.seq <= e.seq
        BY <1>9
      <4>2. e.val = told[e.key]
        BY <3>3, <4>1 DEF StreamInv, Hub, Newest
      <4> QED BY <1>5, <1>7, <3>3, <4>2
    <3> QED BY <1>9, <3>1, <3>2, <3>3
  <2>3. Recorded(all)'
    <3> SUFFICES ASSUME NEW e \in all, Visible(e), e.seq > lost
                 PROVE  Unrecorded(e)' \/ Due(history, e) \/ (Len(history) >= 1 /\ history[1].seq > e.seq)
      BY <1>1 DEF Recorded, Due, Visible
    <3>1. CASE e = new
      BY <1>8, <3>1
    <3>2. CASE e \in log
      BY <1>8, <3>2 DEF StreamInv, Hub, Recorded
    <3> QED BY <1>9, <3>1, <3>2
  <2> QED BY <1>1, <2>1, <2>2, <2>3 DEF StreamInv, Hub
<1>11. Browser(all)'
  <2>1. ASSUME NEW j \in Keys, NEW val, NEW n \in Nat, n <= nextSeq, Known(log, j, val, n) PROVE Known(all, j, val, n)'
    <3>1. CASE j = s.key
      <4>1. new \in all /\ new.key = j /\ new.seq > n
        BY <1>2, <1>3, <1>9, <2>1, <3>1
      <4> QED BY <4>1 DEF Known
    <3>2. CASE j # s.key
      <4>1. CASE val = state[j] \/ val = told[j]
        BY <1>1, <1>5, <3>2, <4>1 DEF Known
      <4>2. CASE \E x \in sending : x.key = j /\ x.at = "changed"
        BY <1>1, <3>2, <4>2 DEF Known
      <4>3. CASE \E e \in log : e.key = j /\ e.seq > n
        BY <1>9, <4>3 DEF Known
      <4> QED BY <2>1, <4>1, <4>2, <4>3 DEF Known
    <3> QED BY <3>1, <3>2
  <2>2. Mine \subseteq Keys /\ client.lastSeq \in Nat /\ client.snapSeq \in Nat
    BY <1>2, KeysAssumption, ClientShapes
  <2>3. Snapped(all)'
    <3> SUFFICES ASSUME client.at = "reading"
                 PROVE  /\ client.snapSeq <= nextSeq + 1
                        /\ \A j \in Mine \ client.unread : Known(all, j, client.got[j], client.snapSeq)'
      BY <1>1 DEF Snapped
    <3> QED BY <1>1, <1>2, <2>1, <2>2 DEF StreamInv, Browser, Snapped
  <2>4. Viewed(all)'
    <3> SUFFICES ASSUME Holding, client.life = life
                 PROVE  /\ client.lastSeq > 0 /\ client.lastSeq <= nextSeq + 1
                        /\ \A j \in Mine : Known(all, j, client.view[j], client.lastSeq)'
      BY <1>1 DEF Viewed, Holding
    <3> QED BY <1>1, <1>2, <2>1, <2>2 DEF StreamInv, Browser, Viewed
  <2>5. Foreign(all)'
    <3> SUFFICES ASSUME Holding, client.life # life, ~burst
                 PROVE  /\ client.lastSeq > 0 /\ client.lastSeq < nextSeq + 1
                        /\ \A e \in all : client.lastSeq + 1 < e.seq
      BY <1>1 DEF Foreign, Holding
    <3>1. client.lastSeq > 0 /\ client.lastSeq < nextSeq /\ \A e \in log : client.lastSeq + 1 < e.seq
      BY DEF StreamInv, Browser, Foreign
    <3> QED BY <1>2, <1>3, <1>9, <2>2, <3>1
  <2>6. Awaited(all)'
    <3> SUFFICES ASSUME Holding, client.life = life, client.at = "live", ~lagged,
                        NEW e \in all, Visible(e), e.seq > client.lastSeq, e.seq > lost
                 PROVE  Pending(e)' \/ Due(replay, e) \/ Due(rx, e)
      BY <1>1 DEF Awaited, Holding, Due, Visible
    <3>1. CASE e = new
      BY <1>8, <3>1
    <3>2. CASE e \in log
      BY <1>8, <3>2 DEF StreamInv, Browser, Awaited
    <3> QED BY <1>9, <3>1, <3>2
  <2> QED BY <1>1, <2>3, <2>4, <2>5, <2>6 DEF StreamInv, Browser
<1>12. StreamInv(all)'
  BY <1>6, <1>10, <1>11 DEF StreamInv
<1> QED BY <1>12 DEF all

(* A queue of events with one more,                                        *)
LEMMA AppendFacts ==
  ASSUME NEW q \in Seq(Events), NEW e \in Events
  PROVE  /\ Append(q, e) \in Seq(Events) /\ Len(q) \in Nat /\ Len(Append(q, e)) = Len(q) + 1
         /\ \A i \in 1..Len(q) : Append(q, e)[i] = q[i]
         /\ Append(q, e)[Len(q) + 1] = e
         /\ \A i \in 1..Len(Append(q, e)) : i \in 1..Len(q) \/ i = Len(q) + 1
OBVIOUS

(* and with one less.                                                      *)
LEMMA TailFacts ==
  ASSUME NEW q \in Seq(Events), q # <<>>
  PROVE  /\ Tail(q) \in Seq(Events) /\ Len(q) \in Nat /\ Len(q) >= 1 /\ Len(Tail(q)) = Len(q) - 1
         /\ \A i \in 1..Len(Tail(q)) : Tail(q)[i] = q[i + 1] /\ i + 1 \in 1..Len(q)
         /\ \A i \in 2..Len(q) : Tail(q)[i - 1] = q[i] /\ i - 1 \in 1..Len(Tail(q))
         /\ Head(q) = q[1] /\ Head(q) \in Events /\ 1 \in 1..Len(q)
OBVIOUS

(* A full history lets go of its first entry.  Unless that misleads, what  *)
(* the entry made up for is made up for by another, or is a gap.           *)
LEMMA TrimmedHistory ==
  ASSUME NEW longer \in Seq(Events), Len(longer) > HistoryLimit, NEW e \in Events, ~Misleads(longer),
         (Visible(longer[1]) /\ longer[1].seq >= e.seq) \/ longer[1].seq > e.seq
  PROVE  Due(Tail(longer), e) \/ (Len(Tail(longer)) >= 1 /\ Tail(longer)[1].seq > e.seq)
<1>1. HistoryLimit \in Nat \ {0} /\ Len(longer) \in Nat /\ longer # <<>> /\ Len(longer) >= 2
  BY LimitsAssumption
<1>2. /\ Len(Tail(longer)) = Len(longer) - 1
      /\ \A i \in 2..Len(longer) : Tail(longer)[i - 1] = longer[i] /\ i - 1 \in 1..Len(Tail(longer))
  BY <1>1, TailFacts
<1>3. 2 \in 2..Len(longer) /\ 1 \in 1..Len(longer) /\ \A i \in 2..Len(longer) : i \in 1..Len(longer)
  BY <1>1
<1>4. e.seq \in Nat /\ \A i \in 1..Len(longer) : longer[i].seq \in Nat
  <2>1. \A f \in Events : f.seq \in Nat
    BY DEF Events
  <2>2. \A i \in 1..Len(longer) : longer[i] \in Events
    OBVIOUS
  <2> QED BY <2>1, <2>2
<1>5. longer[1].seq >= e.seq
  BY <1>3, <1>4
<1>6. CASE ~(longer[2].seq <= longer[1].seq)
  <2>1. longer[2].seq > e.seq
    BY <1>3, <1>4, <1>5, <1>6
  <2>2. Tail(longer)[1] = longer[2] /\ Len(Tail(longer)) >= 1
    BY <1>1, <1>2, <1>3
  <2> QED BY <2>1, <2>2
<1>7. CASE \E i \in 2..Len(longer) : Visible(longer[i]) /\ ~(longer[i].seq < longer[1].seq)
  <2>1. PICK i \in 2..Len(longer) : Visible(longer[i]) /\ ~(longer[i].seq < longer[1].seq)
    BY <1>7
  <2>2. longer[i].seq >= e.seq
    BY <1>3, <1>4, <1>5, <2>1
  <2> QED BY <1>2, <2>1, <2>2 DEF Due
<1> QED BY <1>6, <1>7 DEF Misleads

(* An event enters the history, which may lose its first entry.            *)
LEMMA RecordEventInv ==
  ASSUME NEW log, StreamInv(log), NEW s \in sending, RecordEvent(s)
  PROVE  StreamInv(log)'
<1>0. PICK t, e, longer : /\ t = [s EXCEPT !.at = "recorded"] /\ e = Event(s)
                          /\ longer = Append(history, e)
  OBVIOUS
<1>1. /\ s.at = "numbered" /\ sending' = (sending \ {s}) \union {t}
      /\ history' = IF Len(longer) > HistoryLimit THEN Tail(longer) ELSE longer
      /\ lost' = IF Misleads(longer) /\ longer[1].seq > lost THEN longer[1].seq ELSE lost
      /\ UNCHANGED <<state, nextSeq, persisted, told, burst, life, client, replay, rx, lagged, drops>>
  BY <1>0 DEF RecordEvent, Moved, socket
<1>2. /\ TypeOK /\ Numbered(log) /\ s \in Changes /\ e \in Events /\ e.seq = s.seq /\ e \in log
      /\ history \in Seq(Events) /\ lost \in Nat /\ HistoryLimit \in Nat \ {0} /\ Len(history) <= HistoryLimit
  <2>1. TypeOK /\ Numbered(log) /\ Len(history) <= HistoryLimit
    BY DEF StreamInv, Hub
  <2>2. e \in log
    BY <1>0, <1>1, <2>1 DEF Numbered
  <2> QED BY <1>0, <2>1, <2>2, ChangeShapes, LimitsAssumption DEF TypeOK
<1>3. t \in Changes /\ t.at = "recorded" /\ t.seq = s.seq /\ t.key = s.key /\ t.val = s.val /\ Event(t) = e
  BY <1>0, <1>2 DEF Changes, Event
<1>4. /\ longer \in Seq(Events) /\ Len(history) \in Nat /\ Len(longer) = Len(history) + 1
      /\ \A i \in 1..Len(history) : longer[i] = history[i]
      /\ longer[Len(history) + 1] = e /\ longer # <<>> /\ longer[1] \in Events
      /\ \A i \in 1..Len(longer) : i \in 1..Len(history) \/ i = Len(history) + 1
  <2>1. /\ longer \in Seq(Events) /\ Len(history) \in Nat /\ Len(longer) = Len(history) + 1
        /\ \A i \in 1..Len(history) : longer[i] = history[i]
        /\ longer[Len(history) + 1] = e
        /\ \A i \in 1..Len(longer) : i \in 1..Len(history) \/ i = Len(history) + 1
    BY <1>0, <1>2, AppendFacts
  <2>2. longer # <<>> /\ longer[1] \in Events
    BY <2>1
  <2> QED BY <2>1, <2>2
<1>5. /\ Tail(longer) \in Seq(Events) /\ Len(Tail(longer)) = Len(longer) - 1
      /\ \A i \in 1..Len(Tail(longer)) : Tail(longer)[i] = longer[i + 1] /\ i + 1 \in 1..Len(longer)
      /\ \A i \in 2..Len(longer) : Tail(longer)[i - 1] = longer[i] /\ i - 1 \in 1..Len(Tail(longer))
  BY <1>4, TailFacts
<1>6. longer[1].seq \in Nat /\ lost' \in Nat /\ lost' >= lost
  <2>1. longer[1].seq \in Nat
    BY <1>4 DEF Events
  <2> QED BY <1>1, <1>2, <2>1
<1>7. history' \in Seq(Events) /\ Len(history') <= HistoryLimit
  <2>1. CASE Len(longer) > HistoryLimit
    BY <1>1, <1>2, <1>4, <1>5, <2>1
  <2>2. CASE ~(Len(longer) > HistoryLimit)
    BY <1>1, <1>2, <1>4, <2>2
  <2> QED BY <2>1, <2>2
<1>8. TypeOK'
  BY <1>1, <1>2, <1>3, <1>6, <1>7 DEF TypeOK
<1>9. Holds(longer, log)
  BY <1>2, <1>4 DEF Numbered, Holds
<1>10. Holds(history', log)
  BY <1>1, <1>5, <1>9 DEF Holds
<1>11. /\ \A f : Unrecorded(f) => Unrecorded(f)' \/ f.seq = e.seq
       /\ \A f : (Pending(f)') <=> Pending(f)
  BY <1>1, <1>2, <1>3 DEF Unrecorded, Pending
<1>12. Hub(log)'
  <2>1. Numbered(log)'
    BY <1>1, <1>2, <1>3, <1>10 DEF Numbered, Holds, Visible, Event
  <2>2. Newest(log)'
    BY <1>1 DEF StreamInv, Hub, Newest
  <2>3. Recorded(log)'
    <3> SUFFICES ASSUME NEW f \in log, Visible(f), f.seq > lost'
                 PROVE  Unrecorded(f)' \/ Due(history', f) \/ (Len(history') >= 1 /\ history'[1].seq > f.seq)
      BY DEF Recorded, Due, Visible
    <3>1. f \in Events /\ f.seq \in Nat /\ f.seq > lost
      <4>1. f \in Events /\ f.seq \in Nat
        BY <1>2, LogKeys
      <4> QED BY <1>2, <1>6, <4>1
    <3>2. \/ Unrecorded(f)'
          \/ Due(longer, f)
          \/ Len(longer) >= 1 /\ longer[1].seq > f.seq
      <4>1. Unrecorded(f) \/ Due(history, f) \/ (Len(history) >= 1 /\ history[1].seq > f.seq)
        BY <3>1 DEF StreamInv, Hub, Recorded
      <4>2. CASE f.seq = e.seq
        <5>1. f = e /\ Len(history) + 1 \in 1..Len(longer)
          BY <1>2, <1>4, <4>2 DEF Numbered
        <5> QED BY <1>4, <3>1, <5>1 DEF Due
      <4>3. CASE Due(history, f)
        BY <1>4, <4>3 DEF Due
      <4>4. CASE Len(history) >= 1 /\ history[1].seq > f.seq
        BY <1>4, <4>4
      <4> QED BY <1>11, <4>1, <4>2, <4>3, <4>4
    <3>3. CASE ~(Len(longer) > HistoryLimit)
      BY <1>1, <3>2, <3>3
    <3>4. CASE Len(longer) > HistoryLimit
      <4>1. history' = Tail(longer)
        BY <1>1, <3>4
      <4>2. (Visible(longer[1]) /\ longer[1].seq >= f.seq) \/ longer[1].seq > f.seq => ~Misleads(longer)
        BY <1>1, <1>2, <1>6, <3>1
      <4>3. CASE (Visible(longer[1]) /\ longer[1].seq >= f.seq) \/ longer[1].seq > f.seq
        BY <1>4, <3>1, <3>4, <4>1, <4>2, <4>3, TrimmedHistory
      <4>4. CASE Due(longer, f) /\ ~(Visible(longer[1]) /\ longer[1].seq >= f.seq)
        <5>1. PICK i \in 1..Len(longer) : Visible(longer[i]) /\ longer[i].seq >= f.seq
          BY <4>4 DEF Due
        <5>2. i # 1
          BY <4>4, <5>1
        <5>3. i \in 2..Len(longer)
          BY <1>4, <5>2
        <5> QED BY <1>5, <4>1, <5>1, <5>3 DEF Due
      <4> QED BY <3>2, <4>3, <4>4
    <3> QED BY <3>3, <3>4
  <2> QED BY <1>7, <2>1, <2>2, <2>3 DEF Hub
<1>13. Browser(log)'
  <2>1. ASSUME NEW j \in Keys, NEW val, NEW m, Known(log, j, val, m) PROVE Known(log, j, val, m)'
    BY <1>1, <1>3, <2>1 DEF Known
  <2>2. Mine \subseteq Keys
    BY KeysAssumption
  <2>3. Snapped(log)'
    BY <1>1, <2>1, <2>2 DEF StreamInv, Browser, Snapped
  <2>4. Viewed(log)'
    BY <1>1, <2>1, <2>2 DEF StreamInv, Browser, Viewed, Holding
  <2>5. Foreign(log)'
    BY <1>1 DEF StreamInv, Browser, Foreign, Holding
  <2>6. Awaited(log)'
    <3> SUFFICES ASSUME Holding, client.life = life, client.at = "live", ~lagged,
                        NEW f \in log, Visible(f), f.seq > client.lastSeq, f.seq > lost'
                 PROVE  Pending(f)' \/ Due(replay, f) \/ Due(rx, f)
      BY <1>1 DEF Awaited, Holding, Due, Visible
    <3>1. f.seq > lost
      <4>1. f.seq \in Nat
        BY <1>2, LogKeys
      <4> QED BY <1>2, <1>6, <4>1
    <3> QED BY <1>11, <3>1 DEF StreamInv, Browser, Awaited
  <2> QED BY <1>1, <2>3, <2>4, <2>5, <2>6 DEF StreamInv, Browser
<1> QED BY <1>8, <1>12, <1>13 DEF StreamInv

(* An event enters the receiver of a browser that is connected: it is      *)
(* there, or the receiver knows that it overflowed.                        *)
LEMMA BroadcastEventInv ==
  ASSUME NEW log, StreamInv(log), NEW s \in sending, BroadcastEvent(s)
  PROVE  StreamInv(log)'
<1>0. PICK e : e = Event(s)
  OBVIOUS
<1> DEFINE joined == client.at \in {"subscribed", "live"}
<1>1. /\ s.at = "recorded" /\ sending' = sending \ {s}
      /\ joined => /\ rx' = IF Len(Append(rx, e)) > ChannelCap THEN Tail(Append(rx, e)) ELSE Append(rx, e)
                   /\ lagged' = (lagged \/ Len(Append(rx, e)) > ChannelCap)
      /\ ~joined => UNCHANGED <<rx, lagged>>
      /\ UNCHANGED <<state, nextSeq, persisted, history, told, lost, burst, life, client, replay, drops>>
  BY <1>0 DEF BroadcastEvent
<1>2. /\ TypeOK /\ Numbered(log) /\ lagged \in BOOLEAN /\ rx \in Seq(Events)
      /\ e \in Events /\ e.seq = s.seq /\ e \in log /\ e.seq \in Nat
  <2>1. TypeOK /\ Numbered(log)
    BY DEF StreamInv, Hub
  <2>2. e \in log
    BY <1>0, <1>1, <2>1 DEF Numbered
  <2> QED BY <1>0, <2>1, <2>2, ChangeShapes DEF TypeOK
<1>3. /\ \A f : (Unrecorded(f)') <=> Unrecorded(f)
      /\ \A f : Pending(f) => Pending(f)' \/ f.seq = e.seq
  BY <1>1, <1>2 DEF Unrecorded, Pending
<1>4. /\ rx' \in Seq(Events) /\ lagged' \in BOOLEAN
      /\ Holds(rx', log)
      /\ lagged' => rx' # <<>>
      /\ joined /\ ~lagged' => /\ ~lagged
                               /\ \A f : Due(rx, f) => Due(rx', f)
                               /\ \A f : f.seq = e.seq /\ Visible(e) => Due(rx', f)
  <2>1. PICK longer : longer = Append(rx, e)
    OBVIOUS
  <2>2. /\ longer \in Seq(Events) /\ Len(rx) \in Nat /\ Len(longer) = Len(rx) + 1
        /\ \A i \in 1..Len(rx) : longer[i] = rx[i]
        /\ longer[Len(rx) + 1] = e
        /\ \A i \in 1..Len(longer) : i \in 1..Len(rx) \/ i = Len(rx) + 1
    BY <1>2, <2>1, AppendFacts
  <2>3. Holds(longer, log) /\ longer # <<>>
    BY <1>2, <2>2 DEF Numbered, Holds
  <2>4. CASE ~joined
    BY <1>1, <1>2, <2>4 DEF StreamInv, Numbered, Browser
  <2>5. CASE joined /\ Len(longer) > ChannelCap
    <3>1. rx' = Tail(longer) /\ lagged' = TRUE
      BY <1>1, <2>1, <2>5
    <3>2. /\ Tail(longer) \in Seq(Events) /\ Len(Tail(longer)) = Len(longer) - 1
          /\ \A i \in 1..Len(Tail(longer)) : Tail(longer)[i] = longer[i + 1] /\ i + 1 \in 1..Len(longer)
      BY <2>2, <2>3, TailFacts
    <3>3. Tail(longer) # <<>>
      <4>1. Len(Tail(longer)) # 0
        BY <2>2, <2>5, <3>2, LimitsAssumption
      <4>2. Len(<<>>) = 0
        OBVIOUS
      <4> HIDE DEF joined
      <4> QED BY <4>1, <4>2, Zenon
    <3> QED BY <2>3, <3>1, <3>2, <3>3 DEF Holds
  <2>6. CASE joined /\ ~(Len(longer) > ChannelCap)
    <3>1. rx' = longer /\ lagged' = lagged
      BY <1>1, <1>2, <2>1, <2>6
    <3>2. \A f : Due(rx, f) => Due(longer, f)
      BY <2>2 DEF Due
    <3>3. \A f : f.seq = e.seq /\ Visible(e) => Due(longer, f)
      <4>1. Len(rx) + 1 \in 1..Len(longer) /\ longer[Len(rx) + 1] = e /\ e.seq >= e.seq
        BY <1>2, <2>2
      <4> QED BY <4>1 DEF Due
    <3> QED BY <1>2, <2>2, <2>3, <3>1, <3>2, <3>3
  <2> QED BY <2>4, <2>5, <2>6
<1>5. TypeOK'
  BY <1>1, <1>2, <1>4 DEF TypeOK
<1>6. Hub(log)'
  <2>1. Numbered(log)'
    BY <1>1, <1>2, <1>4 DEF Numbered, Holds, Visible, Event
  <2>2. Newest(log)'
    BY <1>1 DEF StreamInv, Hub, Newest
  <2>3. Recorded(log)'
    BY <1>1, <1>3 DEF StreamInv, Hub, Recorded, Due, Visible
  <2> QED BY <1>1, <2>1, <2>2, <2>3 DEF StreamInv, Hub
<1>7. Browser(log)'
  <2>1. ASSUME NEW j \in Keys, NEW val, NEW m, Known(log, j, val, m) PROVE Known(log, j, val, m)'
    BY <1>1, <2>1 DEF Known
  <2>2. Mine \subseteq Keys
    BY KeysAssumption
  <2>3. Snapped(log)'
    BY <1>1, <2>1, <2>2 DEF StreamInv, Browser, Snapped
  <2>4. Viewed(log)'
    BY <1>1, <2>1, <2>2 DEF StreamInv, Browser, Viewed, Holding
  <2>5. Foreign(log)'
    BY <1>1 DEF StreamInv, Browser, Foreign, Holding
  <2>6. Awaited(log)'
    <3> SUFFICES ASSUME Holding, client.life = life, client.at = "live", ~lagged',
                        NEW f \in log, Visible(f), f.seq > client.lastSeq, f.seq > lost
                 PROVE  Pending(f)' \/ Due(replay, f) \/ Due(rx', f)
      BY <1>1 DEF Awaited, Holding, Due, Visible
    <3>1. /\ ~lagged /\ (\A g : Due(rx, g) => Due(rx', g))
          /\ (\A g : g.seq = e.seq /\ Visible(e) => Due(rx', g))
      BY <1>4
    <3>2. Pending(f) \/ Due(replay, f) \/ Due(rx, f)
      BY <3>1 DEF StreamInv, Browser, Awaited
    <3>3. f.seq = e.seq => Visible(e)
      BY <1>2 DEF Numbered
    <3> QED BY <1>3, <3>1, <3>2, <3>3
  <2> QED BY <1>1, <1>4, <2>3, <2>4, <2>5, <2>6 DEF StreamInv, Browser
<1> QED BY <1>5, <1>6, <1>7 DEF StreamInv

(* The flush saves the counter.                                            *)
LEMMA FlushSeqInv ==
  ASSUME NEW log, StreamInv(log), FlushSeq
  PROVE  StreamInv(log)'
<1>1. /\ persisted' = nextSeq
      /\ UNCHANGED <<state, nextSeq, history, sending, told, lost, burst, life, client, replay, rx, lagged, drops>>
  BY DEF FlushSeq, socket
<1>2. TypeOK'
  BY <1>1 DEF StreamInv, TypeOK
<1>3. Hub(log)'
  BY <1>1 DEF StreamInv, Hub, Numbered, Newest, Recorded, Holds, Unrecorded, Due, Visible, Event
<1>4. Browser(log)'
  BY <1>1 DEF StreamInv, Browser, Snapped, Viewed, Foreign, Awaited, Holding, Known, Due, Pending, Visible
<1> QED BY <1>2, <1>3, <1>4 DEF StreamInv

-----------------------------------------------------------------------------
(* The browser's steps: the hub stays as it is.                            *)
LEMMA HubStays ==
  ASSUME NEW log, StreamInv(log), UNCHANGED hub, Holds(rx', log), Holds(replay', log),
         \A i \in 1..Len(replay') : Visible(replay'[i])
  PROVE  /\ Hub(log)' /\ life' = life /\ nextSeq' = nextSeq /\ lost' = lost /\ burst' = burst
         /\ \A e : (Pending(e)') <=> Pending(e)
         /\ \A j, val, n : Known(log, j, val, n) => Known(log, j, val, n)'
<1>1. UNCHANGED <<state, nextSeq, persisted, history, sending, told, lost, burst, life>>
  BY DEF hub
<1>2. Numbered(log)'
  BY <1>1 DEF StreamInv, Hub, Numbered, Holds, Visible, Event
<1>3. Hub(log)'
  BY <1>1, <1>2 DEF StreamInv, Hub, Newest, Recorded, Unrecorded, Due, Visible
<1>4. \A j, val, n : Known(log, j, val, n) => Known(log, j, val, n)'
  BY <1>1 DEF Known
<1>5. \A e : (Pending(e)') <=> Pending(e)
  BY <1>1 DEF Pending
<1> QED BY <1>1, <1>3, <1>4, <1>5

(* The types, when only the browser and its socket change.                 *)
LEMMA HubTypes ==
  ASSUME TypeOK, UNCHANGED hub, client' \in Clients, replay' \in Seq(Events), rx' \in Seq(Events),
         lagged' \in BOOLEAN, drops' \in Nat
  PROVE  TypeOK'
BY DEF TypeOK, hub

(* Closing the socket, or not having one.                                  *)
LEMMA DownInv ==
  ASSUME NEW log, StreamInv(log), UNCHANGED hub, NoSocket, drops' \in Nat,
         client' \in Clients, client'.at = "down", client'.life = client.life
  PROVE  StreamInv(log)'
<1>1. replay' = <<>> /\ rx' = <<>> /\ lagged' = FALSE /\ Len(replay') = 0 /\ Len(rx') = 0
  BY DEF NoSocket
<1>2. TypeOK'
  <2>1. replay' \in Seq(Events) /\ rx' \in Seq(Events)
    BY <1>1, EmptySeq
  <2> QED BY <1>1, <2>1, HubTypes DEF StreamInv
<1>3. Holds(rx', log) /\ Holds(replay', log) /\ \A i \in 1..Len(replay') : Visible(replay'[i])
  BY <1>1 DEF Holds
<1>4. Hub(log)' /\ life' = life
  BY <1>3, HubStays
<1>5. Browser(log)'
  BY <1>1, <1>4 DEF StreamInv, Browser, Snapped, Viewed, Foreign, Awaited, Holding
<1> QED BY <1>2, <1>4, <1>5 DEF StreamInv

(* What is on its way to the browser, while no step touches it.            *)
LEMMA SocketHeld ==
  ASSUME NEW log, StreamInv(log), UNCHANGED <<replay, rx, lagged>>
  PROVE  /\ replay' \in Seq(Events) /\ rx' \in Seq(Events) /\ lagged' \in BOOLEAN /\ (lagged' => rx' # <<>>)
         /\ Holds(rx', log) /\ Holds(replay', log) /\ \A i \in 1..Len(replay') : Visible(replay'[i])
BY DEF StreamInv, TypeOK, Hub, Numbered, Browser, Holds

(* The snapshot: each key is read after the number, so what it misses has  *)
(* a higher one.                                                           *)
LEMMA SnapshotInv ==
  ASSUME NEW log, StreamInv(log), SnapshotSeq \/ (\E k \in Mine : SnapshotKey(k)) \/ ApplySnapshot
  PROVE  StreamInv(log)'
<1>1. UNCHANGED <<hub, replay, rx, lagged, drops>> /\ UNCHANGED hub /\ life' = life /\ UNCHANGED <<replay, rx, lagged>>
  BY DEF SnapshotSeq, SnapshotKey, ApplySnapshot, socket, hub
<1>2. /\ replay' \in Seq(Events) /\ rx' \in Seq(Events) /\ lagged' \in BOOLEAN /\ (lagged' => rx' # <<>>)
      /\ Holds(rx', log) /\ Holds(replay', log) /\ \A i \in 1..Len(replay') : Visible(replay'[i])
  BY <1>1, SocketHeld
<1>3. /\ Hub(log)' /\ nextSeq' = nextSeq
      /\ \A j, val, n : Known(log, j, val, n) => Known(log, j, val, n)'
  BY <1>1, <1>2, HubStays
<1>4. TypeOK /\ client \in Clients /\ drops' \in Nat /\ nextSeq \in Nat /\ state \in [Keys -> Nat] /\ Mine \subseteq Keys /\ life \in Nat
  BY <1>1, KeysAssumption DEF StreamInv, TypeOK
<1>5. Snapped(log) /\ client.life <= life
  BY DEF StreamInv, Browser
<1>6. CASE SnapshotSeq
  <2>1. /\ client' \in Clients /\ client'.at = "reading" /\ client'.snapSeq = nextSeq /\ client'.unread = Mine
        /\ client'.life = client.life
    BY <1>4, <1>6 DEF SnapshotSeq, Clients, Steps
  <2>2. TypeOK'
    BY <1>1, <1>2, <1>4, <2>1, HubTypes
  <2>3. Browser(log)'
    BY <1>1, <1>2, <1>3, <1>4, <1>5, <2>1 DEF Browser, Snapped, Viewed, Foreign, Awaited, Holding
  <2> QED BY <1>3, <2>2, <2>3 DEF StreamInv
<1>7. CASE \E k \in Mine : SnapshotKey(k)
  <2>0. PICK k \in Mine : SnapshotKey(k)
    BY <1>7
  <2>1. /\ client.at = "reading" /\ client' = [client EXCEPT !.got[k] = state[k], !.unread = client.unread \ {k}]
        /\ state[k] \in Nat
    BY <1>4, <2>0 DEF SnapshotKey
  <2>2. /\ client' \in Clients /\ client'.at = "reading" /\ client'.snapSeq = client.snapSeq
        /\ client'.unread = client.unread \ {k} /\ client'.life = client.life
        /\ client'.got = [client.got EXCEPT ![k] = state[k]]
    BY <1>4, <2>1 DEF Clients, Views
  <2>3. /\ client'.got[k] = state[k] /\ \A j \in Mine : j # k => client'.got[j] = client.got[j]
    BY <1>4, <2>2, ClientShapes
  <2>4. TypeOK'
    BY <1>1, <1>2, <1>4, <2>2, HubTypes
  <2>5. Snapped(log)'
    <3>1. client.snapSeq <= nextSeq /\ \A j \in Mine \ client.unread : Known(log, j, client.got[j], client.snapSeq)
      BY <1>5, <2>1 DEF Snapped
    <3>2. ASSUME NEW j \in Mine, j \notin client'.unread
          PROVE  Known(log, j, client.got[j], client.snapSeq)'
      <4>1. PICK val, n : val = client'.got[j] /\ n = client'.snapSeq
        OBVIOUS
      <4>2. Known(log, j, val, n)
        <5>1. CASE j = k
          BY <2>3, <4>1, <5>1 DEF Known
        <5>2. CASE j # k
          BY <2>2, <2>3, <3>1, <3>2, <4>1, <5>2
        <5> QED BY <5>1, <5>2
      <4>3. Known(log, j, val, n)'
        BY <1>3, <4>2
      <4> QED BY <4>1, <4>3
    <3> QED BY <1>3, <2>2, <3>1, <3>2 DEF Snapped
  <2>6. Browser(log)'
    BY <1>1, <1>2, <1>5, <2>2, <2>5 DEF Browser, Viewed, Foreign, Awaited, Holding
  <2> QED BY <1>3, <2>4, <2>6 DEF StreamInv
<1>8. CASE ApplySnapshot
  <2>1. /\ client.at = "reading" /\ client.unread = {}
        /\ client' = [client EXCEPT !.at = "ready", !.lastSeq = client.snapSeq, !.view = client.got, !.life = life,
                                    !.got = NothingRead]
        /\ NothingRead \in Views
    BY <1>8 DEF ApplySnapshot, NothingRead, Views
  <2>2. /\ client' \in Clients /\ client'.at = "ready" /\ client'.lastSeq = client.snapSeq /\ client'.view = client.got
        /\ client'.life = life /\ client'.snapSeq = client.snapSeq
    BY <1>4, <2>1 DEF Clients, Steps
  <2>3. TypeOK'
    BY <1>1, <1>2, <1>4, <2>2, HubTypes
  <2>4. client.snapSeq <= nextSeq /\ \A j \in Mine : Known(log, j, client.got[j], client.snapSeq)
    BY <1>5, <2>1 DEF Snapped
  <2>5. Viewed(log)'
    <3>1. ASSUME NEW j \in Mine PROVE Known(log, j, client.view[j], client.lastSeq)'
      <4>1. PICK val, n : val = client'.view[j] /\ n = client'.lastSeq
        OBVIOUS
      <4>2. Known(log, j, val, n)'
        BY <1>3, <2>2, <2>4, <4>1
      <4> QED BY <4>1, <4>2
    <3>2. Holding' => client'.lastSeq > 0
      BY <2>2 DEF Holding
    <3> QED BY <1>3, <2>2, <2>4, <3>1, <3>2 DEF Viewed
  <2>6. Browser(log)'
    <3>1. client'.life <= life'
      BY <1>1, <1>4, <2>2
    <3> QED BY <1>1, <1>2, <2>2, <2>5, <3>1 DEF Browser, Snapped, Foreign, Awaited
  <2> QED BY <1>3, <2>3, <2>6 DEF StreamInv
<1> QED BY <1>6, <1>7, <1>8

(* A socket that ends, for whatever reason.                                *)
LEMMA ClosedInv ==
  ASSUME NEW log, StreamInv(log), UNCHANGED hub, NoSocket, drops' \in Nat, client' = [client EXCEPT !.at = "down"]
  PROVE  StreamInv(log)'
<1>1. client' \in Clients /\ client'.at = "down" /\ client'.life = client.life
  <2>1. client \in Clients
    BY DEF StreamInv, TypeOK
  <2> QED BY <2>1 DEF Clients, Steps
<1> QED BY <1>1, DownInv

(* Nothing has been sent yet to a browser that subscribes.                 *)
LEMMA SubscribeInv ==
  ASSUME NEW log, StreamInv(log), Subscribe
  PROVE  StreamInv(log)'
<1>1. /\ client.at = "ready" /\ UNCHANGED hub /\ drops' = drops
      /\ replay' = <<>> /\ rx' = <<>> /\ lagged' = FALSE /\ Len(replay') = 0 /\ Len(rx') = 0
  BY DEF Subscribe, NoSocket
<1>2. /\ client' \in Clients /\ client'.at = "subscribed" /\ client'.lastSeq = client.lastSeq /\ client'.view = client.view
      /\ client'.life = client.life /\ client'.snapSeq = client.snapSeq
  <2>1. client \in Clients /\ client' = [client EXCEPT !.at = "subscribed"]
    BY DEF StreamInv, TypeOK, Subscribe
  <2> QED BY <2>1 DEF Clients, Steps
<1>3. TypeOK'
  <2>1. replay' \in Seq(Events) /\ rx' \in Seq(Events) /\ drops' \in Nat
    BY <1>1, EmptySeq DEF StreamInv, TypeOK
  <2> QED BY <1>1, <1>2, <2>1, HubTypes DEF StreamInv
<1>4. Holds(rx', log) /\ Holds(replay', log) /\ \A i \in 1..Len(replay') : Visible(replay'[i])
  BY <1>1 DEF Holds
<1>5. /\ Hub(log)' /\ life' = life /\ nextSeq' = nextSeq /\ burst' = burst
      /\ \A j, val, n : Known(log, j, val, n) => Known(log, j, val, n)'
  BY <1>1, <1>4, HubStays
<1>6. (Holding') <=> Holding
  BY <1>1, <1>2 DEF Holding
<1>7. Viewed(log)'
  <2> SUFFICES ASSUME Holding, client.life = life
               PROVE  /\ client.lastSeq > 0 /\ client.lastSeq <= nextSeq
                      /\ \A j \in Mine : Known(log, j, client.view[j], client.lastSeq)'
    BY <1>2, <1>5, <1>6 DEF Viewed
  <2>1. /\ client.lastSeq > 0 /\ client.lastSeq <= nextSeq
        /\ \A j \in Mine : Known(log, j, client.view[j], client.lastSeq)
    BY DEF StreamInv, Browser, Viewed
  <2>2. ASSUME NEW j \in Mine PROVE Known(log, j, client.view[j], client.lastSeq)'
    <3>1. PICK val, n : val = client.view[j] /\ n = client.lastSeq
      OBVIOUS
    <3>2. Known(log, j, val, n)'
      BY <1>5, <2>1, <3>1
    <3>3. val = client'.view[j] /\ n = client'.lastSeq
      BY <1>2, <3>1
    <3> QED BY <3>2, <3>3
  <2> QED BY <2>1, <2>2
<1>8. Foreign(log)'
  BY <1>2, <1>5, <1>6 DEF StreamInv, Browser, Foreign
<1>9. Browser(log)'
  BY <1>1, <1>2, <1>5, <1>7, <1>8 DEF StreamInv, Browser, Snapped, Awaited
<1> QED BY <1>3, <1>5, <1>9 DEF StreamInv

(* A browser that keeps its number and view and stays connected.           *)
LEMMA ViewStays ==
  ASSUME NEW log, StreamInv(log), Holding, client'.at \in {"subscribed", "live"}, life' = life, nextSeq' = nextSeq, burst' = burst,
         client'.lastSeq = client.lastSeq, client'.view = client.view, client'.life = client.life,
         client'.snapSeq = client.snapSeq,
         \A j, val, n : Known(log, j, val, n) => Known(log, j, val, n)'
  PROVE  Viewed(log)' /\ Foreign(log)'
<1>1. Viewed(log)'
  <2> SUFFICES ASSUME client.life = life
               PROVE  /\ client.lastSeq > 0 /\ client.lastSeq <= nextSeq
                      /\ \A j \in Mine : Known(log, j, client.view[j], client.lastSeq)'
    BY DEF Viewed
  <2>1. /\ client.lastSeq > 0 /\ client.lastSeq <= nextSeq
        /\ \A j \in Mine : Known(log, j, client.view[j], client.lastSeq)
    BY DEF StreamInv, Browser, Viewed
  <2>2. ASSUME NEW j \in Mine PROVE Known(log, j, client.view[j], client.lastSeq)'
    <3>1. PICK val, n : val = client.view[j] /\ n = client.lastSeq
      OBVIOUS
    <3>2. Known(log, j, val, n)'
      BY <2>1, <3>1
    <3>3. val = client'.view[j] /\ n = client'.lastSeq
      BY <3>1
    <3> QED BY <3>2, <3>3
  <2> QED BY <2>1, <2>2
<1>2. Foreign(log)'
  BY DEF StreamInv, Browser, Foreign
<1> QED BY <1>1, <1>2

(* The replay has an entry as high as any event the browser lacks, as the  *)
(* history has one, or the event still has to be recorded and will be      *)
(* broadcast after.                                                        *)
LEMMA TakeReplayInv ==
  ASSUME NEW log, StreamInv(log), TakeReplay
  PROVE  StreamInv(log)'
<1>1. client.at = "subscribed" /\ UNCHANGED hub /\ drops' = drops /\ drops \in Nat /\ TypeOK
  BY DEF TakeReplay, StreamInv, TypeOK
<1>2. CASE client' = [client EXCEPT !.at = "down"] /\ NoSocket
  BY <1>1, <1>2, ClosedInv
<1>3. CASE /\ ~HasGap(client.lastSeq)
           /\ client' = [client EXCEPT !.at = "live"]
           /\ replay' = Missed(client.lastSeq)
           /\ UNCHANGED <<rx, lagged>>
  <2>1. /\ client' \in Clients /\ client'.at = "live" /\ client'.lastSeq = client.lastSeq /\ client'.view = client.view
        /\ client'.life = client.life /\ client'.snapSeq = client.snapSeq /\ client.lastSeq \in Nat
    <3>1. client \in Clients
      BY <1>1 DEF TypeOK
    <3> QED BY <1>3, <3>1 DEF Clients, Steps
  <2>2. /\ replay' \in Seq(Events)
        /\ \A j \in 1..Len(replay') :
             Visible(replay'[j]) /\ \E i \in 1..Len(history) : replay'[j] = history[i]
        /\ \A i \in 1..Len(history) : history[i].seq > client.lastSeq /\ Visible(history[i]) =>
             \E j \in 1..Len(replay') : replay'[j] = history[i]
    <3>1. history \in Seq(Events)
      BY <1>1 DEF TypeOK
    <3> QED BY <1>3, <2>1, <3>1, MissedAre
  <2>3. /\ Holds(rx', log) /\ Holds(replay', log) /\ \A i \in 1..Len(replay') : Visible(replay'[i])
        /\ rx' \in Seq(Events) /\ lagged' \in BOOLEAN /\ (lagged' => rx' # <<>>)
    BY <1>1, <1>3, <2>2 DEF StreamInv, Hub, Numbered, Holds, TypeOK, Browser
  <2>4. /\ Hub(log)' /\ life' = life /\ nextSeq' = nextSeq
        /\ lost' = lost /\ burst' = burst /\ \A f : (Pending(f)') <=> Pending(f)
        /\ \A j, val, n : Known(log, j, val, n) => Known(log, j, val, n)'
    BY <1>1, <2>3, HubStays
  <2>5. TypeOK'
    BY <1>1, <2>1, <2>2, <2>3, HubTypes
  <2>6. Viewed(log)' /\ Foreign(log)'
    <3>1. CASE Holding
      BY <2>1, <2>4, <3>1, ViewStays
    <3>2. CASE ~Holding
      <4>1. ~Holding'
        BY <1>1, <2>1, <3>2 DEF Holding
      <4> QED BY <4>1 DEF Viewed, Foreign
    <3> QED BY <3>1, <3>2
  <2>7. Awaited(log)'
    <3> SUFFICES ASSUME Holding', client'.life = life', ~lagged',
                        NEW e \in log, Visible(e), e.seq > client.lastSeq, e.seq > lost
                 PROVE  Pending(e)' \/ Due(replay', e) \/ Due(rx', e)
      BY <2>1, <2>4 DEF Awaited, Due, Visible
    <3>1. /\ e \in Events /\ e.key \in Keys /\ e.seq \in Nat
          /\ \A i \in 1..Len(history) :
               history[i] \in log /\ history[i] \in Events /\ history[i].key \in Keys /\ history[i].seq \in Nat
      BY <1>1, LogKeys DEF StreamInv, Hub
    <3>2. \/ Unrecorded(e)
          \/ Due(history, e)
          \/ Len(history) >= 1 /\ history[1].seq > e.seq
      BY DEF StreamInv, Hub, Recorded
    <3>3. CASE Unrecorded(e)
      <4>1. Pending(e)
        BY <3>3 DEF Unrecorded, Pending
      <4> QED BY <2>4, <4>1
    <3>4. CASE Due(history, e)
      <4>1. PICK i \in 1..Len(history) : Visible(history[i]) /\ history[i].seq >= e.seq
        BY <3>4 DEF Due
      <4>2. history[i].seq > client.lastSeq
        BY <2>1, <3>1, <4>1
      <4>3. PICK j \in 1..Len(replay') : replay'[j] = history[i]
        BY <2>2, <4>1, <4>2
      <4>4. Visible(replay'[j]) /\ replay'[j].seq >= e.seq
        BY <4>1, <4>3
      <4> QED BY <4>4 DEF Due
    <3>5. CASE Len(history) >= 1 /\ history[1].seq > e.seq
      <4>1. Holding /\ client.life = life
        BY <1>1, <2>1, <2>4 DEF Holding
      <4>2. client.lastSeq # 0
        BY <2>1, <4>1 DEF StreamInv, Browser, Viewed
      <4>3. history # <<>> /\ Head(history) = history[1] /\ 1 \in 1..Len(history)
        <5>1. history \in Seq(Events)
          BY <1>1 DEF TypeOK
        <5> QED BY <3>5, <5>1
      <4>4. client.lastSeq + 1 < history[1].seq
        BY <2>1, <3>1, <3>5, <4>3
      <4> QED BY <1>3, <4>2, <4>3, <4>4 DEF HasGap
    <3> QED BY <3>2, <3>3, <3>4, <3>5
  <2>8. Browser(log)'
    BY <2>1, <2>3, <2>4, <2>6, <2>7 DEF StreamInv, Browser, Snapped
  <2> QED BY <2>4, <2>5, <2>8 DEF StreamInv
<1> QED BY <1>2, <1>3 DEF TakeReplay

(* An event that does not look like a gap is the very next one: the other  *)
(* keys are known as well as before, and its own is known now.             *)
LEMMA ReceiveKeeps ==
  ASSUME NEW log, StreamInv(log), NEW e \in log, Visible(e), client.at = "live", Receive(e), client'.at # "down",
         life' = life, nextSeq' = nextSeq, burst' = burst,
         \A j, val, n : Known(log, j, val, n) => Known(log, j, val, n)'
  PROVE  /\ client' \in Clients /\ client'.at = "live" /\ client'.life = client.life /\ client'.snapSeq = client.snapSeq
         /\ client.lastSeq \in Nat /\ client'.lastSeq \in Nat /\ client'.lastSeq >= client.lastSeq
         /\ client'.lastSeq >= e.seq
         /\ Viewed(log)' /\ Foreign(log)'
         /\ client.snapSeq > 0 /\ client.life # life /\ ~burst => client' = client
<1>1. /\ TypeOK /\ client \in Clients /\ client.lastSeq \in Nat /\ client.view \in [Mine -> Nat]
      /\ client.snapSeq \in Nat /\ e \in Events /\ e.seq \in Nat /\ e.val \in Nat /\ e.key \in Mine /\ e.key \in Keys
      /\ e.seq <= nextSeq /\ nextSeq \in Nat
  <2>1. TypeOK /\ Numbered(log)
    BY DEF StreamInv, Hub
  <2> QED BY <2>1, LogKeys, ClientShapes DEF TypeOK, Visible, Numbered
<1>2. CASE ~ShouldResync(e) /\ e.seq <= client.lastSeq /\ client' = client
  <2>1. client'.at = "live" /\ client' \in Clients /\ client'.lastSeq >= client.lastSeq /\ client'.lastSeq >= e.seq
    BY <1>1, <1>2
  <2>2. Viewed(log)' /\ Foreign(log)'
    <3>1. CASE Holding
      BY <1>2, <2>1, <3>1, ViewStays
    <3>2. CASE ~Holding
      BY <1>2, <3>2 DEF Viewed, Foreign, Holding
    <3> QED BY <3>1, <3>2
  <2> QED BY <1>1, <1>2, <2>1, <2>2
<1>3. CASE ~ShouldResync(e) /\ e.seq > client.lastSeq
           /\ client' = [client EXCEPT !.view[e.key] = e.val, !.lastSeq = e.seq]
  <2>1. /\ client' \in Clients /\ client'.at = "live" /\ client'.life = client.life /\ client'.snapSeq = client.snapSeq
        /\ client'.lastSeq = e.seq /\ client'.view = [client.view EXCEPT ![e.key] = e.val]
    BY <1>1, <1>3 DEF Clients, Views
  <2>2. client'.view[e.key] = e.val /\ \A j \in Mine : j # e.key => client'.view[j] = client.view[j]
    BY <1>1, <2>1
  <2>3. client.lastSeq > 0 => e.seq = client.lastSeq + 1
    BY <1>1, <1>3 DEF ShouldResync
  <2>4. Viewed(log)'
    <3> SUFFICES ASSUME Holding, client.life = life
                 PROVE  e.seq > 0 /\ \A j \in Mine : Known(log, j, client.view[j], client.lastSeq)'
      BY <1>1, <2>1 DEF Viewed, Holding
    <3>1. /\ client.lastSeq > 0 /\ e.seq = client.lastSeq + 1
          /\ \A j \in Mine : Known(log, j, client.view[j], client.lastSeq)
      BY <2>3 DEF StreamInv, Browser, Viewed
    <3>2. ASSUME NEW j \in Mine PROVE Known(log, j, client.view[j], client.lastSeq)'
      <4>1. PICK val : val = client'.view[j]
        OBVIOUS
      <4>2. Known(log, j, val, e.seq)
        <5>1. CASE j = e.key
          <6>1. val = e.val
            BY <2>2, <4>1, <5>1
          <6>2. CASE \A f \in log : f.key = e.key => f.seq <= e.seq
            BY <5>1, <6>1, <6>2 DEF StreamInv, Hub, Newest, Known
          <6>3. CASE \E f \in log : f.key = e.key /\ ~(f.seq <= e.seq)
            <7>1. PICK f \in log : f.key = e.key /\ ~(f.seq <= e.seq)
              BY <6>3
            <7>2. f.seq > e.seq
              BY <1>1, <7>1, LogKeys DEF StreamInv, Hub
            <7> QED BY <5>1, <7>1, <7>2 DEF Known
          <6> QED BY <6>2, <6>3
        <5>2. CASE j # e.key
          <6>1. Known(log, j, val, client.lastSeq)
            BY <2>2, <3>1, <4>1, <5>2
          <6>2. CASE val = state[j] \/ val = told[j] \/ \E x \in sending : x.key = j /\ x.at = "changed"
            BY <6>2 DEF Known
          <6>3. CASE \E f \in log : f.key = j /\ f.seq > client.lastSeq
            <7>1. PICK f \in log : f.key = j /\ f.seq > client.lastSeq
              BY <6>3
            <7>2. f.seq # e.seq /\ f.seq \in Nat
              <8>1. f.seq \in Nat
                BY <1>1, LogKeys DEF StreamInv, Hub
              <8> QED BY <5>2, <7>1, <8>1 DEF StreamInv, Hub, Numbered
            <7>3. f.seq > e.seq
              BY <1>1, <3>1, <7>1, <7>2
            <7> QED BY <7>1, <7>3 DEF Known
          <6> QED BY <6>1, <6>2, <6>3 DEF Known
        <5> QED BY <5>1, <5>2
      <4>3. Known(log, j, val, e.seq)'
        <5>1. PICK n : n = e.seq
          OBVIOUS
        <5>2. Known(log, j, val, n)'
          BY <4>2, <5>1
        <5> QED BY <5>1, <5>2
      <4> QED BY <2>1, <4>1, <4>3
    <3> QED BY <1>1, <3>1, <3>2
  <2>5. ~(Holding /\ client.life # life /\ ~burst)
    <3> SUFFICES ASSUME Holding, client.life # life, ~burst PROVE FALSE
      OBVIOUS
    <3>1. client.lastSeq > 0 /\ client.lastSeq + 1 < e.seq
      BY DEF StreamInv, Browser, Foreign
    <3> QED BY <1>1, <2>3, <3>1
  <2>6. Foreign(log)'
    BY <2>1, <2>5 DEF Foreign, Holding
  <2>7. ~(client.snapSeq > 0 /\ client.life # life /\ ~burst)
    BY <2>5 DEF Holding
  <2>8. client'.lastSeq \in Nat /\ client'.lastSeq >= client.lastSeq /\ client'.lastSeq >= e.seq
    BY <1>1, <1>3, <2>1
  <2> QED BY <1>1, <2>1, <2>4, <2>6, <2>7, <2>8
<1>4. ~(client' = [client EXCEPT !.at = "down"])
  <2>1. [client EXCEPT !.at = "down"].at = "down"
    BY <1>1 DEF Clients
  <2> QED BY <2>1
<1> QED BY <1>2, <1>3, <1>4 DEF Receive

(* The replay's first entry is received, or closes the socket.             *)
LEMMA SendReplayInv ==
  ASSUME NEW log, StreamInv(log), SendReplay
  PROVE  /\ StreamInv(log)'
         /\ client.snapSeq > 0 /\ client.life # life /\ ~burst => client'.view = client.view
<1>1. /\ client.at = "live" /\ replay # <<>> /\ UNCHANGED hub /\ UNCHANGED drops /\ drops' \in Nat /\ TypeOK
      /\ rx \in Seq(Events) /\ replay \in Seq(Events) /\ lagged \in BOOLEAN /\ client \in Clients
  BY DEF SendReplay, StreamInv, TypeOK
<1>2. PICK e : e = Head(replay)
  OBVIOUS
<1>3. Receive(e) /\ (IF client'.at = "down" THEN NoSocket ELSE replay' = Tail(replay) /\ UNCHANGED <<rx, lagged>>)
  BY <1>2 DEF SendReplay
<1>4. /\ Tail(replay) \in Seq(Events) /\ Len(replay) \in Nat /\ Len(Tail(replay)) = Len(replay) - 1
      /\ \A i \in 1..Len(Tail(replay)) : Tail(replay)[i] = replay[i + 1] /\ i + 1 \in 1..Len(replay)
      /\ \A i \in 2..Len(replay) : Tail(replay)[i - 1] = replay[i] /\ i - 1 \in 1..Len(Tail(replay))
      /\ e = replay[1] /\ e \in Events /\ 1 \in 1..Len(replay)
  BY <1>1, <1>2, TailFacts
<1>5. e \in log /\ Visible(e)
  BY <1>4 DEF StreamInv, Hub, Numbered, Holds
<1>6. CASE client'.at = "down"
  <2>1. client.at # "down" /\ client' # client
    BY <1>1, <1>6
  <2>2. client' = [client EXCEPT !.at = "down"]
    <3>1. CASE client' = [client EXCEPT !.view[e.key] = e.val, !.lastSeq = e.seq]
      <4>1. client'.at = client.at
        BY <1>1, <3>1 DEF Clients
      <4> QED BY <1>6, <2>1, <4>1
    <3> QED BY <1>3, <2>1, <3>1 DEF Receive
  <2>3. client'.view = client.view
    BY <1>1, <2>2 DEF Clients
  <2> QED BY <1>1, <1>3, <1>6, <2>2, <2>3, ClosedInv
<1>7. CASE client'.at # "down"
  <2>1. replay' = Tail(replay) /\ UNCHANGED <<rx, lagged>>
    BY <1>3, <1>7
  <2>2. /\ Holds(rx', log) /\ Holds(replay', log) /\ \A i \in 1..Len(replay') : Visible(replay'[i])
        /\ (lagged' => rx' # <<>>)
    BY <1>4, <2>1 DEF StreamInv, Hub, Numbered, Holds, Browser
  <2>3. /\ Hub(log)' /\ life' = life /\ nextSeq' = nextSeq
        /\ lost' = lost /\ burst' = burst /\ \A f : (Pending(f)') <=> Pending(f)
        /\ \A j, val, n : Known(log, j, val, n) => Known(log, j, val, n)'
    BY <1>1, <2>2, HubStays
  <2>4. /\ client' \in Clients /\ client'.at = "live" /\ client'.life = client.life /\ client'.snapSeq = client.snapSeq
        /\ client.lastSeq \in Nat /\ client'.lastSeq \in Nat /\ client'.lastSeq >= client.lastSeq
        /\ client'.lastSeq >= e.seq
        /\ Viewed(log)' /\ Foreign(log)'
        /\ client.snapSeq > 0 /\ client.life # life /\ ~burst => client' = client
    BY <1>1, <1>3, <1>5, <1>7, <2>3, ReceiveKeeps
  <2>5. TypeOK'
    BY <1>1, <1>4, <2>1, <2>4, HubTypes
  <2>6. Awaited(log)'
    <3> SUFFICES ASSUME Holding, client.life = life, ~lagged, NEW f \in log, Visible(f), f.seq > client'.lastSeq, f.seq > lost
                 PROVE  Pending(f)' \/ Due(replay', f) \/ Due(rx, f)
      BY <1>1, <2>1, <2>3, <2>4 DEF Awaited, Due, Holding, Visible
    <3>1. f.key \in Keys /\ f.seq \in Nat /\ e.seq \in Nat
      BY <1>1, <1>5, LogKeys DEF StreamInv, Hub
    <3>2. f.seq > client.lastSeq /\ ~(e.seq >= f.seq)
      BY <2>4, <3>1
    <3>3. Pending(f) \/ Due(replay, f) \/ Due(rx, f)
      BY <1>1, <3>2 DEF StreamInv, Browser, Awaited
    <3>4. CASE Due(replay, f)
      <4>1. PICK i \in 1..Len(replay) : Visible(replay[i]) /\ replay[i].seq >= f.seq
        BY <3>4 DEF Due
      <4>2. i # 1
        BY <1>4, <3>2, <4>1
      <4>3. i \in 2..Len(replay)
        BY <1>4, <4>2
      <4> QED BY <1>4, <2>1, <4>1, <4>3 DEF Due
    <3> QED BY <2>3, <3>1, <3>3, <3>4
  <2>7. Browser(log)'
    BY <2>2, <2>3, <2>4, <2>6 DEF StreamInv, Browser, Snapped
  <2> QED BY <2>3, <2>4, <2>5, <2>7 DEF StreamInv
<1> QED BY <1>6, <1>7

(* So is the receiver's first entry, unless the receiver overflowed.       *)
LEMMA SendLiveInv ==
  ASSUME NEW log, StreamInv(log), SendLive
  PROVE  /\ StreamInv(log)'
         /\ client.snapSeq > 0 /\ client.life # life /\ ~burst => client'.view = client.view
<1>1. /\ client.at = "live" /\ replay = <<>> /\ Len(replay) = 0 /\ rx # <<>> /\ UNCHANGED hub /\ UNCHANGED drops /\ drops' \in Nat
      /\ TypeOK /\ rx \in Seq(Events) /\ replay \in Seq(Events) /\ lagged \in BOOLEAN /\ client \in Clients
  BY DEF SendLive, StreamInv, TypeOK
<1>2. PICK e : e = Head(rx)
  OBVIOUS
<1>3. \/ client' = [client EXCEPT !.at = "down"] /\ NoSocket
      \/ /\ ~lagged
         /\ IF Visible(e) THEN Receive(e) ELSE client' = client
         /\ IF client'.at = "down" THEN NoSocket ELSE rx' = Tail(rx) /\ UNCHANGED <<replay, lagged>>
  BY <1>2 DEF SendLive
<1>4. /\ Tail(rx) \in Seq(Events) /\ Len(rx) \in Nat /\ Len(Tail(rx)) = Len(rx) - 1
      /\ \A i \in 1..Len(Tail(rx)) : Tail(rx)[i] = rx[i + 1] /\ i + 1 \in 1..Len(rx)
      /\ \A i \in 2..Len(rx) : Tail(rx)[i - 1] = rx[i] /\ i - 1 \in 1..Len(Tail(rx))
      /\ e = rx[1] /\ e \in Events /\ 1 \in 1..Len(rx)
  BY <1>1, <1>2, TailFacts
<1>5. e \in log
  BY <1>4 DEF StreamInv, Hub, Numbered, Holds
<1>6. CASE client' = [client EXCEPT !.at = "down"] /\ NoSocket
  <2>1. client'.view = client.view
    BY <1>1, <1>6 DEF Clients
  <2> QED BY <1>1, <1>6, <2>1, ClosedInv
<1>7. CASE /\ ~(client' = [client EXCEPT !.at = "down"] /\ NoSocket)
           /\ client'.at # "down"
  <2>1. rx' = Tail(rx) /\ UNCHANGED <<replay, lagged>> /\ ~lagged /\ (IF Visible(e) THEN Receive(e) ELSE client' = client)
    BY <1>3, <1>7
  <2>2. /\ Holds(rx', log) /\ Holds(replay', log) /\ \A i \in 1..Len(replay') : Visible(replay'[i])
        /\ (lagged' => rx' # <<>>)
    BY <1>4, <2>1 DEF StreamInv, Hub, Numbered, Holds, Browser
  <2>3. /\ Hub(log)' /\ life' = life /\ nextSeq' = nextSeq
        /\ lost' = lost /\ burst' = burst /\ \A f : (Pending(f)') <=> Pending(f)
        /\ \A j, val, n : Known(log, j, val, n) => Known(log, j, val, n)'
    BY <1>1, <2>2, HubStays
  <2>4. /\ client' \in Clients /\ client'.at = "live" /\ client'.life = client.life /\ client'.snapSeq = client.snapSeq
        /\ client.lastSeq \in Nat /\ client'.lastSeq \in Nat /\ client'.lastSeq >= client.lastSeq
        /\ Visible(e) => client'.lastSeq >= e.seq
        /\ Viewed(log)' /\ Foreign(log)'
        /\ client.snapSeq > 0 /\ client.life # life /\ ~burst => client' = client
    <3>1. CASE Visible(e)
      BY <1>1, <1>5, <1>7, <2>1, <2>3, <3>1, ReceiveKeeps
    <3>2. CASE ~Visible(e)
      <4>1. client' = client /\ client.lastSeq \in Nat
        BY <1>1, <2>1, <3>2, ClientShapes
      <4>2. Viewed(log)' /\ Foreign(log)'
        <5>1. CASE Holding
          BY <1>1, <2>3, <4>1, <5>1, ViewStays
        <5>2. CASE ~Holding
          BY <4>1, <5>2 DEF Viewed, Foreign, Holding
        <5> QED BY <5>1, <5>2
      <4> QED BY <1>1, <3>2, <4>1, <4>2
    <3> QED BY <3>1, <3>2
  <2>5. TypeOK'
    BY <1>1, <1>4, <2>1, <2>4, HubTypes
  <2>6. Awaited(log)'
    <3> SUFFICES ASSUME Holding, client.life = life, NEW f \in log, Visible(f), f.seq > client'.lastSeq, f.seq > lost
                 PROVE  Pending(f)' \/ Due(replay, f) \/ Due(rx', f)
      BY <1>1, <2>1, <2>3, <2>4 DEF Awaited, Due, Holding, Visible
    <3>1. f.key \in Keys /\ f.seq \in Nat /\ e.seq \in Nat /\ e.key \in Keys
      BY <1>1, <1>5, LogKeys DEF StreamInv, Hub
    <3>2. f.seq > client.lastSeq /\ (Visible(e) => ~(e.seq >= f.seq))
      BY <2>4, <3>1
    <3>3. Pending(f) \/ Due(replay, f) \/ Due(rx, f)
      BY <1>1, <2>1, <3>2 DEF StreamInv, Browser, Awaited
    <3>4. CASE Due(rx, f)
      <4>1. PICK i \in 1..Len(rx) : Visible(rx[i]) /\ rx[i].seq >= f.seq
        BY <3>4 DEF Due
      <4>2. i # 1
        BY <1>4, <3>2, <4>1
      <4>3. i \in 2..Len(rx)
        BY <1>4, <4>2
      <4> QED BY <1>4, <2>1, <4>1, <4>3 DEF Due
    <3> QED BY <2>1, <2>3, <3>1, <3>3, <3>4
  <2>7. Browser(log)'
    BY <2>2, <2>3, <2>4, <2>6 DEF StreamInv, Browser, Snapped
  <2> QED BY <2>3, <2>4, <2>5, <2>7 DEF StreamInv
<1>8. CASE ~(client' = [client EXCEPT !.at = "down"] /\ NoSocket) /\ client'.at = "down"
  <2>1. client.at # "down" /\ client' # client
    BY <1>1, <1>8
  <2>2. Receive(e) /\ NoSocket
    BY <1>3, <1>8, <2>1
  <2>3. client' = [client EXCEPT !.at = "down"]
    <3>1. CASE client' = [client EXCEPT !.view[e.key] = e.val, !.lastSeq = e.seq]
      <4>1. client'.at = client.at
        BY <1>1, <3>1 DEF Clients
      <4> QED BY <1>8, <2>1, <4>1
    <3> QED BY <2>1, <2>2, <3>1 DEF Receive
  <2> QED BY <1>8, <2>2, <2>3
<1> QED BY <1>6, <1>7, <1>8

(* The socket drops.                                                       *)
LEMMA DisconnectInv ==
  ASSUME NEW log, StreamInv(log), Disconnect
  PROVE  StreamInv(log)'
<1>1. UNCHANGED hub /\ NoSocket /\ drops' \in Nat /\ client' = [client EXCEPT !.at = "down"]
  BY DEF Disconnect, StreamInv, TypeOK
<1> QED BY <1>1, ClosedInv

(* A new life: nothing is numbered in it yet, and it begins past all the   *)
(* numbers of the old one if the offset is larger than what was unflushed. *)
LEMMA CrashInv ==
  ASSUME NEW log, StreamInv(log), CrashAndRestart
  PROVE  StreamInv({})'
<1>1. /\ nextSeq' = persisted + Offset /\ persisted' = persisted + Offset /\ history' = <<>> /\ life' = life + 1
      /\ sending' = {} /\ told' = state /\ lost' = 0 /\ burst' = (burst \/ nextSeq - persisted >= Offset)
      /\ drops' = drops + 1 /\ state' = state
      /\ replay' = <<>> /\ rx' = <<>> /\ lagged' = FALSE
      /\ client' = IF client.at = "ready" THEN client
                   ELSE [client EXCEPT !.at = "down", !.got = NothingRead, !.unread = {}]
      /\ Len(history') = 0 /\ Len(replay') = 0 /\ Len(rx') = 0
  BY DEF CrashAndRestart, RecoveredSeq, NoSocket
<1>2. /\ TypeOK /\ client \in Clients /\ nextSeq \in Nat /\ persisted \in Nat /\ life \in Nat /\ drops \in Nat
      /\ Offset \in Nat /\ HistoryLimit \in Nat /\ burst \in BOOLEAN /\ state \in [Keys -> Nat]
      /\ client.lastSeq \in Nat /\ client.life \in Nat /\ client.life <= life
  BY LimitsAssumption, ClientShapes DEF StreamInv, TypeOK, Browser
<1>3. client' \in Clients /\ client'.life = client.life /\ (client'.at = "down" \/ (client.at = "ready" /\ client' = client))
  BY <1>1, <1>2 DEF Clients, Steps, Views, NothingRead
<1>4. TypeOK'
  <2>1. history' \in Seq(Events) /\ replay' \in Seq(Events) /\ rx' \in Seq(Events)
    BY <1>1, EmptySeq
  <2>2. nextSeq' \in Nat /\ persisted' \in Nat /\ life' \in Nat /\ drops' \in Nat /\ lost' \in Nat
    BY <1>1, <1>2
  <2>3. sending' \subseteq Changes /\ told' \in [Keys -> Nat] /\ burst' \in BOOLEAN
    BY <1>1, <1>2
  <2> QED BY <1>1, <1>2, <1>3, <2>1, <2>2, <2>3 DEF TypeOK
<1>5. Hub({})'
  BY <1>1, <1>2 DEF Hub, Numbered, Newest, Recorded, Holds
<1>6. Browser({})'
  <2>1. client'.life # life' /\ client'.life <= life'
    BY <1>1, <1>2, <1>3
  <2>2. Foreign({})'
    <3> SUFFICES ASSUME Holding', ~burst' PROVE client'.lastSeq > 0 /\ client'.lastSeq < nextSeq'
      BY DEF Foreign
    <3>1. client' = client /\ Holding
      BY <1>3 DEF Holding
    <3>2. ~burst /\ ~(nextSeq - persisted >= Offset)
      BY <1>1
    <3>3. client.lastSeq > 0 /\ client.lastSeq <= nextSeq
      <4>1. CASE client.life = life
        BY <3>1, <4>1 DEF StreamInv, Browser, Viewed
      <4>2. CASE client.life # life
        BY <1>2, <3>1, <3>2, <4>2 DEF StreamInv, Browser, Foreign
      <4> QED BY <4>1, <4>2
    <3> QED BY <1>1, <1>2, <3>1, <3>2, <3>3
  <2>3. client'.at \notin {"reading", "live"}
    BY <1>3
  <2> QED BY <1>1, <2>1, <2>2, <2>3 DEF Browser, Snapped, Viewed, Awaited
<1> QED BY <1>4, <1>5, <1>6 DEF StreamInv

(* Nothing happens.                                                        *)
LEMMA StutterInv ==
  ASSUME NEW log, StreamInv(log), UNCHANGED vars
  PROVE  StreamInv(log)'
<1>1. UNCHANGED <<state, nextSeq, persisted, history, sending, told, lost, burst, life,
                  client, replay, rx, lagged, drops>>
  BY DEF vars, hub, socket
<1>2. TypeOK'
  BY <1>1 DEF StreamInv, TypeOK
<1>3. Hub(log)'
  BY <1>1 DEF StreamInv, Hub, Numbered, Newest, Recorded, Holds, Unrecorded, Due, Visible, Event
<1>4. Browser(log)'
  BY <1>1 DEF StreamInv, Browser, Snapped, Viewed, Foreign, Awaited, Holding, Known, Due, Pending, Visible
<1> QED BY <1>2, <1>3, <1>4 DEF StreamInv

-----------------------------------------------------------------------------
(* Some set of numbered events makes the invariant true: the log is        *)
(* history, which the model does not keep.                                 *)
InStep == \E log : StreamInv(log)

(* One case per action.                                                    *)
LEMMA InStepStays == InStep /\ [Next]_vars => InStep'
<1> SUFFICES ASSUME InStep, [Next]_vars PROVE InStep'
  OBVIOUS
<1>0. PICK log : StreamInv(log)
  BY DEF InStep
<1>1. ASSUME NEW k \in Keys, ChangeState(k) PROVE InStep'
  BY <1>0, <1>1, ChangeStateInv DEF InStep
<1>2. ASSUME NEW s \in sending, NumberEvent(s) PROVE InStep'
  <2>1. PICK new : StreamInv(log \union {new})'
    BY <1>0, <1>2, NumberEventInv
  <2> QED BY <2>1 DEF InStep
<1>3. ASSUME NEW s \in sending, RecordEvent(s) PROVE InStep'
  BY <1>0, <1>3, RecordEventInv DEF InStep
<1>4. ASSUME NEW s \in sending, BroadcastEvent(s) PROVE InStep'
  BY <1>0, <1>4, BroadcastEventInv DEF InStep
<1>5. CASE FlushSeq
  BY <1>0, <1>5, FlushSeqInv DEF InStep
<1>6. CASE SnapshotSeq \/ (\E k \in Mine : SnapshotKey(k)) \/ ApplySnapshot
  BY <1>0, <1>6, SnapshotInv DEF InStep
<1>7. CASE Subscribe
  BY <1>0, <1>7, SubscribeInv DEF InStep
<1>8. CASE TakeReplay
  BY <1>0, <1>8, TakeReplayInv DEF InStep
<1>9. CASE SendReplay
  BY <1>0, <1>9, SendReplayInv DEF InStep
<1>10. CASE SendLive
  BY <1>0, <1>10, SendLiveInv DEF InStep
<1>11. CASE Disconnect
  BY <1>0, <1>11, DisconnectInv DEF InStep
<1>12. CASE CrashAndRestart
  BY <1>0, <1>12, CrashInv DEF InStep
<1>13. CASE UNCHANGED vars
  BY <1>0, <1>13, StutterInv DEF InStep
<1> QED BY <1>1, <1>2, <1>3, <1>4, <1>5, <1>6, <1>7, <1>8, <1>9, <1>10, <1>11, <1>12, <1>13
        DEF Next, SendEventStep, ClientStep

(* The hub and its browser are always in step.                             *)
THEOREM StreamInvariant == Spec => []InStep
<1>1. Init => InStep
  BY InitStream DEF InStep
<1> QED BY <1>1, InStepStays, PTL DEF Spec

(* The variables keep their types (send_event, snapshot_for_user,          *)
(* handle_events and the browser's store).                                 *)
THEOREM StreamTypes == Spec => []TypeOK
<1>1. InStep => TypeOK
  BY DEF InStep, StreamInv
<1> QED BY <1>1, StreamInvariant, PTL

(* A browser that has received all there is, while nothing is on its way,  *)
(* shows of every key the hub's state or what the last event of it told,   *)
(* whoever else uses the hub, however many tasks are inside send_event at  *)
(* once and in whatever order they come through it; the exceptions are     *)
(* those CaughtUp makes.                                                   *)
THEOREM BrowserInSync == Spec => []InSync
<1>1. InStep => InSync
  <2> SUFFICES ASSUME InStep, CaughtUp, NEW k \in Mine PROVE client.view[k] \in {state[k], told[k]}
    BY DEF InSync
  <2>1. PICK log : StreamInv(log)
    BY DEF InStep
  <2>2. /\ client.at = "live" /\ client.life = life /\ client.snapSeq > 0 /\ client.lastSeq >= lost
        /\ replay = <<>> /\ rx = <<>> /\ Len(replay) = 0 /\ Len(rx) = 0 /\ sending = {}
    BY DEF CaughtUp
  <2>3. Holding /\ ~lagged /\ client.lastSeq \in Nat /\ lost \in Nat
    BY <2>1, <2>2, ClientShapes DEF Holding, StreamInv, Browser, TypeOK
  <2>4. Known(log, k, client.view[k], client.lastSeq)
    BY <2>1, <2>2, <2>3 DEF StreamInv, Browser, Viewed
  <2>5. ~ \E e \in log : e.key = k /\ e.seq > client.lastSeq
    <3> SUFFICES ASSUME NEW e \in log, e.key = k, e.seq > client.lastSeq PROVE FALSE
      OBVIOUS
    <3>1. e.seq \in Nat
      BY <2>1, LogKeys DEF StreamInv, Hub
    <3>2. e.seq > lost /\ Visible(e)
      BY <2>2, <2>3, <3>1 DEF Visible
    <3>3. Pending(e) \/ Due(replay, e) \/ Due(rx, e)
      BY <2>1, <2>2, <2>3, <3>2 DEF StreamInv, Browser, Awaited
    <3> QED BY <2>2, <3>3 DEF Due, Pending
  <2> QED BY <2>2, <2>4, <2>5 DEF Known
<1> QED BY <1>1, StreamInvariant, PTL

(* Each step that changes the view of an old snapshot takes a new one.     *)
LEMMA RejectStep ==
  ASSUME InStep, [Next]_vars
  PROVE  ~burst /\ client.life # life /\ client.snapSeq > 0 /\ client'.view # client.view => client'.life = life
<1>0. PICK log : StreamInv(log)
  BY DEF InStep
<1>1. client \in Clients
  BY <1>0 DEF StreamInv, TypeOK
<1>2. CASE (\E k \in Keys : ChangeState(k)) \/ SendEventStep
  <2>1. client' = client
    BY <1>2 DEF ChangeState, SendEventStep, NumberEvent, RecordEvent, BroadcastEvent
  <2> QED BY <2>1
<1>3. CASE FlushSeq \/ UNCHANGED vars
  <2>1. client' = client
    BY <1>3 DEF FlushSeq, vars
  <2> QED BY <2>1
<1>4. CASE SnapshotSeq \/ (\E k \in Mine : SnapshotKey(k)) \/ Subscribe \/ TakeReplay \/ Disconnect \/ CrashAndRestart
  <2>1. client'.view = client.view
    BY <1>1, <1>4 DEF SnapshotSeq, SnapshotKey, Subscribe, TakeReplay, Disconnect, CrashAndRestart, Clients
  <2> QED BY <2>1
<1>5. CASE ApplySnapshot
  <2>1. client'.life = life
    BY <1>1, <1>5 DEF ApplySnapshot, Clients
  <2> QED BY <2>1
<1>6. CASE SendReplay
  BY <1>0, <1>6, SendReplayInv
<1>7. CASE SendLive
  BY <1>0, <1>7, SendLiveInv
<1> QED BY <1>2, <1>3, <1>4, <1>5, <1>6, <1>7 DEF Next, ClientStep

(* A browser whose snapshot is of an earlier life of the hub applies no    *)
(* event of a later one to it, as the new numbers look like a gap, unless  *)
(* a crash found as many numbers unflushed as the recovery offset.         *)
THEOREM OldSnapshotsRejected == Spec => OldSnapshotRejected
<1>1. InStep /\ [Next]_vars =>
        [~burst /\ client.life # life /\ client.snapSeq > 0 /\ client'.view # client.view
           => client'.life = life]_vars
  BY RejectStep
<1> QED BY <1>1, StreamInvariant, PTL DEF Spec, OldSnapshotRejected

-----------------------------------------------------------------------------
(* TerminalRegistry: the list of terminals the hub keeps for a machine.    *)

\* The sessions that run and that a process of the machine knows or will
\* know, and the terminals whose creation has come so far that one did.
Running == tmux \ orphans
Spawned == {m.id : m \in {x \in making : x.at = "spawned"}}
Ready == born \ Spawned

\* The machine's lists: a creation under way is of a terminal of its own, one
\* that runs is known when it is ready, and an orphan is known to nobody.
Machined ==
  /\ \A m \in making : m.id \in born /\ m.id \notin orphans /\ m.conn \in 1..opened
  /\ \A m, n \in making : m.id = n.id => m = n
  /\ \A m \in making : m.conn = cur => greeted
  /\ known \subseteq Ready /\ known \intersect orphans = {}
  /\ Running \intersect Ready \subseteq known

\* What a message says, for the terminals ready and those that run.
Told(m, ready, running) ==
  /\ m.kind = "existing" => m.ids \subseteq ready
  /\ m.kind # "existing" => m.id \in ready
  /\ m.kind = "destroyed" => m.id \notin running

\* A report waits to be handled.
Reporting == up # <<>> /\ Head(up).kind = "existing"

\* The connection: one end each, and nothing said before the report.
Wired ==
  /\ Machined
  /\ cur \in {0, opened} /\ reg \in {0, opened} /\ (greeted => cur # 0)
  /\ cur # 0 /\ ~greeted => up = <<>> /\ taken = Idle

\* What is on the way is about terminals that are ready, and true of the dead.
Messaged ==
  /\ \A i \in 1..Len(up) : Told(up[i], Ready, Running) /\ (up[i].kind = "existing" => i = 1)
  /\ \A i \in 1..Len(down) : down[i].kind = "destroy" => down[i].id \in Ready

\* A terminal the hub knows has a row, and no report on the way, nor one taken,
\* leaves a running terminal out that has one.
Accounted ==
  /\ \A t \in Held : rows[t].state # "none"
  /\ \A t \in Terminals : rows[t].state # "none" => t \in Ready
  /\ edit # Idle => rows[edit.id].state # "none"
  /\ taken # Idle => taken.ids \subseteq Ready /\ DOMAIN taken.stash \intersect Running \subseteq taken.ids
  /\ Reporting => \A t \in Running : rows[t].state # "none" => t \in Head(up).ids
  /\ \A t \in Terminals : rows[t].state = "destroyed" => t \notin Running

\* Terminals are live or stashed, and stashed only until the report.
Remembered ==
  /\ DOMAIN live = {} \/ DOMAIN stash = {}
  /\ taken # Idle => DOMAIN stash = {} /\ ~Reporting
  /\ (greeted /\ cur \in ends) \/ up # <<>> => Reporting \/ DOMAIN stash = {}
  /\ NoRowForgotten

RegInv == RegistryTypeOK /\ Wired /\ Messaged /\ Accounted /\ Remembered

LEMMA MachineStill == UNCHANGED machine => UNCHANGED <<Ready, Running>>
BY DEF machine, Ready, Spawned, Running

\* The types of the machine's lists.
MachineTyped ==
  /\ tmux \subseteq born /\ saved \subseteq known /\ known \subseteq born /\ born \subseteq Terminals
  /\ making \subseteq Makings /\ orphans \subseteq tmux /\ missed \subseteq born

LEMMA MachinedStill == Machined /\ UNCHANGED <<machine, Ready, Running, cur, greeted, opened>> => Machined'
BY DEF machine, Machined

(* A counter of the model stays within its bound.                          *)
LEMMA Bumped ==
  ASSUME count \in Bounds
  PROVE  /\ count.hub < MaxHubRestarts /\ Bump("hub") => count' \in Bounds
         /\ count.machine < MaxMachineRestarts /\ Bump("machine") => count' \in Bounds
         /\ count.command < MaxCommands /\ Bump("command") => count' \in Bounds
         /\ count.edit < MaxEdits /\ Bump("edit") => count' \in Bounds
BY BoundsAssumption DEF Bounds, Bump

LEMMA InitRegInv == RegistryInit => RegInv
<1> SUFFICES ASSUME RegistryInit PROVE RegInv
  OBVIOUS
<1>1. /\ tmux = {} /\ known = {} /\ saved = {} /\ making = {} /\ born = {} /\ orphans = {} /\ missed = {}
      /\ cur = 0 /\ greeted = FALSE /\ watched = {} /\ opened = 0
      /\ up = <<>> /\ down = <<>> /\ ends = {} /\ reg = 0 /\ live = Empty /\ stash = Empty
      /\ taken = Idle /\ edit = Idle /\ cut = {} /\ rows = [t \in Terminals |-> NoRow]
  BY DEF RegistryInit
<1>2. Empty \in Lists /\ DOMAIN Empty = {}
  <2>1. Empty \in [{} -> Tabs \union {NoTab}] /\ {} \in SUBSET Terminals
    BY DEF Empty
  <2> QED BY <2>1 DEF Lists, Empty
<1>3. RegistryTypeOK
  <2>1. rows \in [Terminals -> [state : {"none", "active", "destroyed"}, tab : Tabs \union {NoTab}]]
    BY <1>1 DEF NoRow
  <2>2. count \in Bounds
    BY BoundsAssumption DEF RegistryInit, Bounds
  <2>3. cur \in 0..opened /\ opened \in 0..MaxConns
    BY <1>1, BoundsAssumption
  <2>4. greeted \in BOOLEAN /\ up \in Seq(Messages) /\ down \in Seq(Commands)
    BY <1>1, Zenon, EmptySeq
  <2> QED BY <1>1, <1>2, <2>1, <2>2, <2>3, <2>4 DEF RegistryTypeOK
<1>4. Machined /\ Wired /\ Messaged
  BY <1>1 DEF Machined, Ready, Spawned, Running, Wired, Messaged
<1>5. Held = {} /\ \A t \in Terminals : rows[t].state = "none"
  BY <1>1, <1>2 DEF Held, NoRow
<1>6. Accounted /\ Remembered
  BY <1>1, <1>2, <1>5 DEF Accounted, Remembered, Reporting, NoRowForgotten, Active,
                          ActiveRows
<1> QED BY <1>3, <1>4, <1>6 DEF RegInv

(* What a message leaves on the way to the hub.                            *)
LEMMA Speak ==
  ASSUME RegInv, NEW m \in Messages, greeted, m.kind # "existing", up' = Said(m),
         UNCHANGED <<cur, ends>>, Ready \subseteq Ready', Running' \intersect Ready \subseteq Running,
         Told(m, Ready', Running')
  PROVE  /\ up' \in Seq(Messages)
         /\ \A i \in 1..Len(up') : Told(up'[i], Ready', Running') /\ (up'[i].kind = "existing" => i = 1)
         /\ Reporting' => Reporting /\ Head(up') = Head(up)
         /\ Reporting => Reporting'
         /\ up' # <<>> => Reporting \/ DOMAIN stash = {}
<1>1. up \in Seq(Messages)
  BY DEF RegInv, RegistryTypeOK
<1>2. \A i \in 1..Len(up) : Told(up[i], Ready', Running') /\ (up[i].kind = "existing" => i = 1)
  BY DEF RegInv, Messaged, Told
<1>3. CASE cur \in ends
  <2>1. up' = Append(up, m)
    BY <1>3 DEF Said
  <2>2. /\ up' \in Seq(Messages) /\ Len(up') = Len(up) + 1 /\ up' # <<>>
        /\ \A i \in 1..Len(up') : (up'[i] = up[i] /\ i \in 1..Len(up)) \/ (up'[i] = m /\ i = Len(up) + 1)
        /\ Head(up') = IF up = <<>> THEN m ELSE Head(up)
    BY <1>1, <2>1
  <2>3. Reporting \/ DOMAIN stash = {}
    BY <1>3 DEF RegInv, Remembered
  <2> QED BY <1>2, <2>2, <2>3 DEF Reporting
<1>4. CASE cur \notin ends
  <2>1. up' = up
    BY <1>4 DEF Said
  <2> QED BY <1>1, <1>2, <2>1 DEF Reporting, RegInv, Remembered
<1> QED BY <1>3, <1>4

(* A step of the machine that says something, or nothing, and starts no    *)
(* terminal the hub knows.                                                 *)
LEMMA MachineKeeps ==
  ASSUME RegInv, UNCHANGED <<hubState, rows, cur, greeted, opened>>,
         Ready \subseteq Ready', Running' \intersect Ready \subseteq Running, Running' \subseteq Terminals, Machined',
         \/ up' = up
         \/ greeted /\ \E m \in Messages : m.kind # "existing" /\ up' = Said(m) /\ Told(m, Ready', Running')
  PROVE  /\ up' \in Seq(Messages) /\ Wired' /\ Accounted' /\ Remembered'
         /\ \A i \in 1..Len(up') : Told(up'[i], Ready', Running') /\ (up'[i].kind = "existing" => i = 1)
<1>1. /\ up' \in Seq(Messages)
      /\ \A i \in 1..Len(up') : Told(up'[i], Ready', Running') /\ (up'[i].kind = "existing" => i = 1)
      /\ Reporting' => Reporting /\ Head(up') = Head(up)
      /\ Reporting => Reporting'
      /\ up' # <<>> => Reporting \/ DOMAIN stash = {}
      /\ up' = up \/ greeted
  <2>1. CASE up' = up
    <3>1. up \in Seq(Messages)
      BY DEF RegInv, RegistryTypeOK
    <3> QED BY <2>1, <3>1 DEF Reporting, RegInv, Remembered, Messaged, Told
  <2>2. CASE up' # up
    BY <2>2, Speak DEF hubState
  <2> QED BY <2>1, <2>2
<1>2. UNCHANGED <<ends, reg, live, stash, taken, edit, cut, rows, cur, greeted, opened>>
  BY DEF hubState
<1>3. Wired'
  BY <1>1, <1>2 DEF RegInv, Wired
<1>4. Held' = Held /\ Held \subseteq Terminals
  BY <1>2 DEF Held, RegInv, RegistryTypeOK, Lists
<1>5. Accounted'
  <2>1. \A t \in Terminals : rows[t].state # "none" => t \in Ready /\ (t \in Running' => t \in Running)
    BY DEF RegInv, Accounted
  <2>2. taken # Idle => DOMAIN taken.stash \intersect Running' \subseteq taken.ids
    <3> SUFFICES ASSUME taken # Idle, NEW t \in DOMAIN taken.stash, t \in Running' PROVE t \in taken.ids
      OBVIOUS
    <3>1. t \in Held
      BY DEF Held
    <3> QED BY <1>4, <2>1, <3>1 DEF RegInv, Accounted
  <2>3. Reporting' => \A t \in Running' : rows[t].state # "none" => t \in Head(up').ids
    <3> SUFFICES ASSUME Reporting', NEW t \in Running', rows[t].state # "none" PROVE t \in Head(up').ids
      OBVIOUS
    <3>1. t \in Running /\ Head(up') = Head(up) /\ Reporting
      BY <1>1, <2>1
    <3> QED BY <3>1 DEF RegInv, Accounted
  <2> QED BY <1>2, <1>4, <2>1, <2>2, <2>3 DEF Accounted, RegInv
<1>6. Remembered'
  <2>1. NoRowForgotten'
    BY <1>2, <1>4 DEF RegInv, Remembered, NoRowForgotten, Active, ActiveRows
  <2> QED BY <1>1, <1>2, <2>1 DEF RegInv, Remembered
<1> QED BY <1>1, <1>3, <1>5, <1>6

-----------------------------------------------------------------------------
(* The machine.                                                            *)

(* A connection that breaks still delivers a prefix.                       *)
LEMMA PrefixDelivered ==
  ASSUME RegInv, LoseTail
  PROVE  /\ up' \in Seq(Messages)
         /\ \A i \in 1..Len(up') : i \in 1..Len(up) /\ up'[i] = up[i]
         /\ up' # <<>> => up # <<>> /\ Head(up') = Head(up)
<1>1. up \in Seq(Messages)
  BY DEF RegInv, RegistryTypeOK
<1>2. PICK n \in 0..Len(up) : up' = SubSeq(up, 1, n)
  BY DEF LoseTail
<1>3. /\ up' \in Seq(Messages) /\ Len(up') = n /\ \A i \in 1..n : up'[i] = up[i]
  BY <1>1, <1>2
<1> QED BY <1>1, <1>3

LEMMA Cuts ==
  ASSUME RegInv, LoseTail, cur' = 0, greeted' = FALSE, down' = <<>>, Machined',
         UNCHANGED <<hubState, rows, opened>>, Ready \subseteq Ready', Running' \subseteq Running
  PROVE  Wired' /\ Messaged' /\ Accounted' /\ Remembered' /\ up' \in Seq(Messages)
<1>1. /\ up' \in Seq(Messages)
      /\ \A i \in 1..Len(up') : i \in 1..Len(up) /\ up'[i] = up[i]
      /\ up' # <<>> => up # <<>> /\ Head(up') = Head(up)
  BY PrefixDelivered
<1>2. UNCHANGED <<ends, reg, live, stash, taken, edit, cut, rows, opened>>
  BY DEF hubState
<1>3. Wired'
  BY <1>2 DEF Wired, RegInv
<1>4. Messaged'
  BY <1>1, <1>2 DEF Messaged, RegInv, Told
<1>5. Held' = Held /\ (Reporting' => Reporting) /\ (Reporting /\ up' # <<>> => Reporting')
  BY <1>1, <1>2 DEF Held, Reporting
<1>6. Accounted'
  BY <1>1, <1>2, <1>5 DEF Accounted, RegInv, Reporting
<1>7. Remembered'
  <2>1. NoRowForgotten'
    BY <1>2, <1>5 DEF RegInv, Remembered, NoRowForgotten, Active, ActiveRows
  <2> QED BY <1>1, <1>2, <1>5, <2>1 DEF Remembered, RegInv
<1> QED BY <1>1, <1>3, <1>4, <1>6, <1>7

(* A new process knows what was saved and lives; what lives and was not    *)
(* saved is an orphan.                                                     *)
LEMMA RecoveredMachine ==
  ASSUME RegInv, RestartMachine
  PROVE  /\ Machined' /\ Ready \subseteq Ready' /\ Running' \subseteq Running
         /\ tmux' \subseteq born' /\ saved' \subseteq known' /\ known' \subseteq born' /\ born' = born
         /\ making' \subseteq Makings /\ orphans' \subseteq tmux' /\ missed' \subseteq born'
<1>1. PICK alive \in {tmux, {}} :
        tmux' = alive /\ known' = saved \intersect alive /\ orphans' = alive \ saved
  BY DEF RestartMachine, Recovered
<1>2. /\ saved' = known' /\ making' = {} /\ missed' = {} /\ born' = born /\ cur' = 0
      /\ opened' = opened
  BY DEF RestartMachine
<1>3. /\ tmux \subseteq born /\ saved \subseteq known /\ known \intersect orphans = {}
      /\ known \subseteq Ready
  BY DEF RegInv, RegistryTypeOK, Wired, Machined
<1>4. Spawned' = {} /\ Ready' = born /\ Ready \subseteq born
  BY <1>2 DEF Spawned, Ready
<1>5. Running' = known' /\ known' \subseteq Running
  BY <1>1, <1>3 DEF Running
<1>6. Machined'
  BY <1>1, <1>2, <1>3, <1>4, <1>5 DEF Machined
<1> QED BY <1>1, <1>2, <1>3, <1>4, <1>5, <1>6

LEMMA LoseConnInv == ASSUME RegInv, MachineLosesConn \/ RestartMachine PROVE RegInv'
<1>1. /\ cur' = 0 /\ greeted' = FALSE /\ watched' = {} /\ down' = <<>> /\ LoseTail
      /\ UNCHANGED <<hubState, rows, opened>>
  BY DEF MachineLosesConn, RestartMachine
<1>2. /\ Machined' /\ Ready \subseteq Ready' /\ Running' \subseteq Running
      /\ tmux' \subseteq born' /\ saved' \subseteq known' /\ known' \subseteq born' /\ born' = born
      /\ making' \subseteq Makings /\ orphans' \subseteq tmux' /\ missed' \subseteq born'
  <2>1. CASE MachineLosesConn
    <3>1. UNCHANGED <<machine, Ready, Running>> /\ Machined
      BY <2>1, MachineStill DEF MachineLosesConn, RegInv, Wired
    <3>2. Machined'
      BY <1>1, <3>1 DEF machine, Machined
    <3> QED BY <3>1, <3>2 DEF machine, RegInv, RegistryTypeOK
  <2> QED BY <2>1, RecoveredMachine
<1>3. count' \in Bounds
  BY Bumped DEF MachineLosesConn, RestartMachine, RegInv, RegistryTypeOK
<1>4. Wired' /\ Messaged' /\ Accounted' /\ Remembered' /\ up' \in Seq(Messages)
  BY <1>1, <1>2, Cuts
<1>5. RegistryTypeOK'
  <2>1. greeted' \in BOOLEAN /\ down' \in Seq(Commands)
    BY <1>1, Zenon, EmptySeq
  <2>2. cur' \in 0..opened'
    BY <1>1 DEF RegInv, RegistryTypeOK
  <2> QED BY <1>1, <1>2, <1>3, <1>4, <2>1, <2>2 DEF RegInv, RegistryTypeOK, hubState
<1> QED BY <1>4, <1>5 DEF RegInv

LEMMA ConnectInv == ASSUME RegInv, Connect PROVE RegInv'
<1>1. /\ cur = 0 /\ opened < MaxConns /\ up = <<>> /\ up' = <<>> /\ taken = Idle
      /\ opened' = opened + 1 /\ cur' = opened + 1 /\ reg' = opened + 1
      /\ greeted' = FALSE /\ watched' = {} /\ down' = <<>> /\ ends' = ends \union {opened + 1}
      /\ stash' = Stashed /\ live' = Empty
      /\ missed' = {} /\ UNCHANGED <<tmux, known, saved, making, born, orphans>>
      /\ UNCHANGED <<Ready, Running, taken, edit, cut, rows, count>>
  BY DEF Connect, Ready, Spawned, Running
<1>2. DOMAIN live' = {} /\ live' \in Lists
  <2>1. Empty \in [{} -> Tabs \union {NoTab}] /\ {} \in SUBSET Terminals
    BY DEF Empty
  <2> QED BY <1>1, <2>1 DEF Lists, Empty
<1>3. stash' \in Lists /\ DOMAIN stash' = DOMAIN live \union DOMAIN stash
  <2>1. DOMAIN Empty = {}
    BY DEF Empty
  <2>2. live # Empty => DOMAIN live # {}
    <3> SUFFICES ASSUME DOMAIN live = {} PROVE live = Empty
      OBVIOUS
    <3>1. live = [t \in DOMAIN live |-> live[t]]
      BY DEF RegInv, RegistryTypeOK, Lists
    <3> QED BY <3>1 DEF Empty
  <2> QED BY <1>1, <2>1, <2>2 DEF Stashed, RegInv, RegistryTypeOK, Remembered
<1>4. RegistryTypeOK'
  <2>1. greeted' \in BOOLEAN /\ down' \in Seq(Commands)
    BY <1>1, Zenon, EmptySeq
  <2>2. opened \in Nat /\ MaxConns \in Nat /\ ends \subseteq 1..opened
    BY BoundsAssumption DEF RegInv, RegistryTypeOK
  <2>3. opened' \in 0..MaxConns /\ cur' \in 0..opened' /\ ends' \subseteq 1..opened' /\ reg' \in ends'
    BY <1>1, <2>2
  <2> QED BY <1>1, <1>2, <1>3, <2>1, <2>3 DEF RegInv, RegistryTypeOK
<1>5. Held' = Held
  BY <1>1, <1>2, <1>3 DEF Held
<1>6. Wired' /\ Messaged'
  <2>1. Machined'
    <3>1. \A m \in making : m.conn \in 1..opened'  /\ m.conn # cur'
      BY <1>1, BoundsAssumption DEF RegInv, RegistryTypeOK, Wired, Machined
    <3> QED BY <1>1, <3>1 DEF RegInv, Wired, Machined
  <2> QED BY <1>1, <2>1 DEF Wired, Messaged
<1>7. Accounted'
  BY <1>1, <1>5 DEF RegInv, Accounted, Reporting
<1>8. Remembered'
  <2>1. NoRowForgotten'
    BY <1>1, <1>5 DEF RegInv, Remembered, NoRowForgotten, Active, ActiveRows
  <2> QED BY <1>1, <1>2, <2>1 DEF Remembered
<1> QED BY <1>4, <1>6, <1>7, <1>8 DEF RegInv

LEMMA GreetInv == ASSUME RegInv, Greet PROVE RegInv'
<1> DEFINE m == [kind |-> "existing", ids |-> known]
<1>1. /\ cur # 0 /\ ~greeted /\ greeted' = TRUE /\ up = <<>> /\ taken = Idle
      /\ UNCHANGED <<machine, Ready, Running, cur, watched, opened, down, ends, reg, live, stash, taken, edit, cut,
                     rows, count>>
  BY MachineStill DEF Greet, hubState, RegInv, Wired
<1>2. m \in Messages /\ m.kind = "existing" /\ m.ids = known
  BY DEF Messages, RegInv, RegistryTypeOK
<1>3. up' = IF cur \in ends THEN <<m>> ELSE <<>>
  BY <1>1 DEF Greet, Greeting, Said
<1> HIDE DEF m
<1>4. /\ up' \in Seq(Messages) /\ Len(up') \in {0, 1} /\ \A i \in 1..Len(up') : i = 1 /\ up'[i] = m
      /\ up' # <<>> => Head(up') = m
      /\ cur \in ends => up' # <<>>
  BY <1>2, <1>3
<1>5. RegistryTypeOK'
  <2>1. greeted' \in BOOLEAN
    BY <1>1, Zenon
  <2> QED BY <1>1, <1>4, <2>1 DEF RegInv, RegistryTypeOK, machine
<1>6. Wired'
  <2>1. Machined'
    BY <1>1 DEF machine, RegInv, Wired, Machined
  <2> QED BY <1>1, <2>1 DEF RegInv, Wired
<1>7. Messaged'
  BY <1>1, <1>2, <1>4 DEF RegInv, Messaged, Told, Wired, Machined
<1>8. Held' = Held
  BY <1>1 DEF Held
<1>9. Accounted'
  <2>1. Reporting' => Head(up').ids = known
    BY <1>2, <1>4 DEF Reporting
  <2>2. Running \subseteq Terminals
    BY DEF RegInv, RegistryTypeOK, Running
  <2>3. \A t \in Running : rows[t].state # "none" => t \in known
    BY <2>2 DEF RegInv, Accounted, Wired, Machined
  <2> QED BY <1>1, <1>8, <2>1, <2>3 DEF RegInv, Accounted
<1>10. Remembered'
  <2>1. NoRowForgotten'
    BY <1>1, <1>8 DEF RegInv, Remembered, NoRowForgotten, Active, ActiveRows
  <2>2. up' # <<>> => Reporting'
    BY <1>2, <1>4 DEF Reporting
  <2> QED BY <1>1, <1>4, <2>1, <2>2 DEF RegInv, Remembered
<1> QED BY <1>5, <1>6, <1>7, <1>9, <1>10 DEF RegInv

(* Commands on the way are taken in order.                                 *)
LEMMA CommandsKept ==
  ASSUME RegInv, down # <<>>, down' = Tail(down)
  PROVE  /\ Head(down) \in Commands /\ down' \in Seq(Commands)
         /\ Head(down).kind = "destroy" => Head(down).id \in Ready
         /\ \A i \in 1..Len(down') : down'[i].kind = "destroy" => down'[i].id \in Ready
<1>1. down \in Seq(Commands)
  BY DEF RegInv, RegistryTypeOK
<1>2. \A i \in 1..Len(down) : down[i].kind = "destroy" => down[i].id \in Ready
  BY DEF RegInv, Messaged
<1>3. /\ Head(down) = down[1] /\ 1 \in 1..Len(down) /\ down' \in Seq(Commands)
      /\ \A i \in 1..Len(down') : i + 1 \in 1..Len(down) /\ down'[i] = down[i + 1]
  BY <1>1
<1>4. Head(down) \in Commands
  BY <1>1
<1> QED BY <1>2, <1>3, <1>4

(* Each step of the machine, except those that open or close a connection  *)
(* or its process: what becomes of its lists, and what it says.            *)
LEMMA FailsMachine ==
  ASSUME RegInv, CreateFails
  PROVE  /\ MachineTyped' /\ Machined' /\ Ready \subseteq Ready' /\ Running' \intersect Ready \subseteq Running
         /\ up' = up
<1>1. UNCHANGED <<machine, cur, greeted, opened>> /\ up' = up /\ UNCHANGED <<Ready, Running>>
  BY MachineStill DEF CreateFails, TakeCommand
<1>2. Machined'
  BY <1>1, MachinedStill DEF RegInv, Wired
<1> QED BY <1>1, <1>2 DEF RegInv, RegistryTypeOK, MachineTyped, machine

LEMMA CreateMachine ==
  ASSUME RegInv, NEW t \in Terminals, CreateTerminal(t)
  PROVE  /\ MachineTyped' /\ Machined' /\ Ready \subseteq Ready' /\ Running' \intersect Ready \subseteq Running
         /\ up' = up
<1> DEFINE new == [id |-> t, conn |-> cur, at |-> "spawned"]
<1>1. /\ t \notin born /\ born' = born \union {t} /\ tmux' = tmux \union {t} /\ up' = up
      /\ making' = making \union {new} /\ UNCHANGED <<known, saved, orphans, missed, cur, greeted, opened>>
      /\ greeted
  BY DEF CreateTerminal, TakeCommand
<1>2. cur \in 1..opened /\ opened \in 0..MaxConns
  BY <1>1 DEF RegInv, RegistryTypeOK, Wired
<1>3. new \in Makings /\ new.id = t /\ new.conn = cur /\ new.at = "spawned"
  BY <1>2, BoundsAssumption DEF Makings
<1> HIDE DEF new
<1>4. /\ tmux \subseteq born /\ orphans \subseteq tmux
      /\ \A m \in making : m.id \in born /\ m.id # t
  BY <1>1 DEF RegInv, RegistryTypeOK, Wired, Machined
<1>5. Spawned' = Spawned \union {t}
  BY <1>1, <1>3 DEF Spawned
<1>6. Ready' = Ready
  BY <1>1, <1>5 DEF Ready
<1>7. Running' = Running \union {t} /\ t \notin Ready
  BY <1>1, <1>4 DEF Running, Ready
<1>8. Machined'
  <2>1. \A m \in making' : m.id \in born' /\ m.id \notin orphans' /\ m.conn \in 1..opened'
    BY <1>1, <1>2, <1>3, <1>4 DEF RegInv, Wired, Machined
  <2>2. \A m, n \in making' : m.id = n.id => m = n
    BY <1>1, <1>3, <1>4 DEF RegInv, Wired, Machined
  <2>3. \A m \in making' : m.conn = cur' => greeted'
    BY <1>1
  <2> QED BY <1>1, <1>6, <1>7, <2>1, <2>2, <2>3 DEF RegInv, Wired, Machined
<1>9. MachineTyped'
  BY <1>1, <1>3 DEF RegInv, RegistryTypeOK, MachineTyped
<1> QED BY <1>1, <1>6, <1>7, <1>8, <1>9

LEMMA InsertMachine ==
  ASSUME RegInv, NEW m \in making, InsertTerminal(m)
  PROVE  /\ MachineTyped' /\ Machined' /\ Ready \subseteq Ready' /\ Running' \intersect Ready \subseteq Running
         /\ up' = up
<1> DEFINE next == [m EXCEPT !.at = "inserted"]
<1>1. /\ m.at = "spawned" /\ making' = (making \ {m}) \union {next} /\ known' = known \union {m.id}
      /\ missed' \subseteq missed \union {m.id}
      /\ UNCHANGED <<tmux, saved, born, orphans, cur, greeted, opened, up>>
  BY DEF InsertTerminal, wire
<1>2. /\ m \in Makings /\ \A x \in making : x.id \in born /\ x.id \notin orphans /\ x.conn \in 1..opened
      /\ \A x, y \in making : x.id = y.id => x = y
  BY DEF RegInv, RegistryTypeOK, Wired, Machined
<1>3. next \in Makings /\ next.id = m.id /\ next.conn = m.conn /\ next.at = "inserted"
  BY <1>2 DEF Makings
<1> HIDE DEF next
<1>4. Spawned' = Spawned \ {m.id}
  <2>1. ASSUME NEW t \in Spawned' PROVE t \in Spawned /\ t # m.id
    <3>1. PICK x \in making' : x.at = "spawned" /\ x.id = t
      BY DEF Spawned
    <3>2. x \in making /\ x # m
      BY <1>1, <1>3, <3>1
    <3> QED BY <1>2, <3>1, <3>2 DEF Spawned
  <2>2. ASSUME NEW t \in Spawned, t # m.id PROVE t \in Spawned'
    <3>1. PICK x \in making : x.at = "spawned" /\ x.id = t
      BY DEF Spawned
    <3>2. x \in making'
      BY <1>1, <2>2, <3>1
    <3> QED BY <3>1, <3>2 DEF Spawned
  <2> QED BY <2>1, <2>2
<1>5. Ready' = Ready \union {m.id}
  BY <1>1, <1>2, <1>4 DEF Ready
<1>6. Running' = Running
  BY <1>1 DEF Running
<1>7. Machined'
  <2>1. \A x \in making' : x.id \in born' /\ x.id \notin orphans' /\ x.conn \in 1..opened'
    BY <1>1, <1>2, <1>3
  <2>2. \A x, y \in making' : x.id = y.id => x = y
    BY <1>1, <1>2, <1>3
  <2>3. \A x \in making' : x.conn = cur' => greeted'
    BY <1>1, <1>3 DEF RegInv, Wired, Machined
  <2>4. known' \subseteq Ready' /\ known' \intersect orphans' = {} /\ Running' \intersect Ready' \subseteq known'
    BY <1>1, <1>2, <1>5, <1>6 DEF RegInv, Wired, Machined
  <2> QED BY <2>1, <2>2, <2>3, <2>4 DEF Machined
<1>8. MachineTyped'
  BY <1>1, <1>2, <1>3 DEF RegInv, RegistryTypeOK, MachineTyped
<1> QED BY <1>1, <1>5, <1>6, <1>7, <1>8

LEMMA AnswerMachine ==
  ASSUME RegInv, NEW m \in making, AnswerCreated(m)
  PROVE  /\ MachineTyped' /\ Machined' /\ Ready \subseteq Ready' /\ Running' \intersect Ready \subseteq Running
         /\ \/ up' = up
            \/ greeted /\ \E x \in Messages : x.kind # "existing" /\ up' = Said(x) /\ Told(x, Ready', Running')
<1>1. /\ m.at = "inserted" /\ making' = making \ {m} /\ saved' = known
      /\ missed' \subseteq missed \union {m.id}
      /\ up' = up \/ (cur = m.conn /\ up' = Said([kind |-> "created", id |-> m.id]))
      /\ UNCHANGED <<tmux, known, born, orphans, cur, greeted, opened>>
  BY DEF AnswerCreated
<1>2. /\ m \in Makings /\ m.id \in born
      /\ \A x, y \in making : x.id = y.id => x = y
      /\ m.conn = cur => greeted
  BY DEF RegInv, RegistryTypeOK, Wired, Machined
<1>3. Spawned' = Spawned /\ m.id \notin Spawned
  BY <1>1, <1>2 DEF Spawned
<1>4. Ready' = Ready /\ m.id \in Ready /\ Running' = Running
  BY <1>1, <1>2, <1>3 DEF Ready, Running
<1>5. Machined'
  BY <1>1, <1>4 DEF RegInv, Wired, Machined
<1>6. MachineTyped'
  BY <1>1, <1>2 DEF RegInv, RegistryTypeOK, MachineTyped
<1>7. ASSUME up' # up
      PROVE  greeted /\ \E x \in Messages : x.kind # "existing" /\ up' = Said(x) /\ Told(x, Ready', Running')
  <2> DEFINE x == [kind |-> "created", id |-> m.id]
  <2>1. x \in Messages /\ x.kind = "created" /\ x.id = m.id
    BY <1>2 DEF Messages, Makings
  <2>2. up' = Said(x) /\ greeted
    BY <1>1, <1>2, <1>7
  <2> HIDE DEF x
  <2>3. Told(x, Ready', Running')
    BY <1>4, <2>1 DEF Told
  <2> QED BY <2>1, <2>2, <2>3
<1> QED BY <1>4, <1>5, <1>6, <1>7

LEMMA DestroyMachine ==
  ASSUME RegInv, DestroyTerminal
  PROVE  /\ MachineTyped' /\ Machined' /\ Ready \subseteq Ready' /\ Running' \intersect Ready \subseteq Running
         /\ greeted /\ \E x \in Messages : x.kind # "existing" /\ up' = Said(x) /\ Told(x, Ready', Running')
<1> DEFINE t == Head(down).id
           m == [kind |-> "destroyed", id |-> t]
<1>1. /\ greeted /\ down # <<>> /\ down' = Tail(down) /\ Head(down).kind = "destroy" /\ Kill(t)
      /\ up' = Said(m) /\ UNCHANGED <<making, born, orphans, missed, cur, greeted, opened>>
  BY DEF DestroyTerminal, TakeCommand
<1>2. t \in Ready
  BY <1>1, CommandsKept
<1>3. m \in Messages /\ m.kind = "destroyed" /\ m.id = t
  BY <1>2 DEF Messages, Ready, RegInv, RegistryTypeOK
<1> HIDE DEF t, m
<1>4. \/ /\ t \in known /\ known' = known \ {t} /\ tmux' = tmux \ {t} /\ saved' = known \ {t}
      \/ /\ t \notin known /\ UNCHANGED <<known, tmux, saved>>
  BY <1>1 DEF Kill
<1>5. Ready' = Ready
  BY <1>1 DEF Ready, Spawned
<1>6. Running' \subseteq Running /\ t \notin Running' /\ Running' \intersect Ready \subseteq known'
  BY <1>1, <1>2, <1>4 DEF Running, RegInv, Wired, Machined
<1>7. Machined'
  <2>1. known' \subseteq known
    BY <1>4
  <2> QED BY <1>1, <1>5, <1>6, <2>1 DEF RegInv, Wired, Machined
<1>8. MachineTyped'
  BY <1>1, <1>4 DEF RegInv, RegistryTypeOK, MachineTyped, Wired, Machined
<1>9. Told(m, Ready', Running')
  BY <1>2, <1>3, <1>5, <1>6 DEF Told
<1> QED BY <1>1, <1>3, <1>5, <1>6, <1>7, <1>8, <1>9

LEMMA ExitMachine ==
  ASSUME RegInv, NEW t \in Terminals, ShellExits(t)
  PROVE  /\ MachineTyped' /\ Machined' /\ Ready \subseteq Ready' /\ Running' \intersect Ready \subseteq Running
         /\ up' = up
<1>1. /\ tmux' = tmux \ {t} /\ orphans' = orphans \ {t}
      /\ UNCHANGED <<known, saved, making, born, missed, cur, greeted, opened, up>>
  BY DEF ShellExits, wire
<1>2. Ready' = Ready /\ Running' \subseteq Running
  BY <1>1 DEF Ready, Spawned, Running
<1>3. Machined'
  BY <1>1, <1>2 DEF RegInv, Wired, Machined
<1>4. MachineTyped'
  BY <1>1 DEF RegInv, RegistryTypeOK, MachineTyped
<1> QED BY <1>1, <1>2, <1>3, <1>4

LEMMA WatchMachine ==
  ASSUME RegInv, NEW t \in Terminals, WatchDeath(t)
  PROVE  /\ MachineTyped' /\ Machined' /\ Ready \subseteq Ready' /\ Running' \intersect Ready \subseteq Running
         /\ greeted /\ \E x \in Messages : x.kind # "existing" /\ up' = Said(x) /\ Told(x, Ready', Running')
<1> DEFINE m == [kind |-> "destroyed", id |-> t]
<1>1. /\ greeted /\ t \in known \ tmux /\ up' = Said(m)
      /\ UNCHANGED <<machine, cur, greeted, opened>> /\ UNCHANGED <<Ready, Running>>
  BY MachineStill DEF WatchDeath
<1>2. m \in Messages /\ m.kind = "destroyed" /\ m.id = t
  BY DEF Messages
<1> HIDE DEF m
<1>3. Machined' /\ Machined
  BY <1>1, MachinedStill DEF RegInv, Wired
<1>4. t \in Ready /\ t \notin Running
  BY <1>1, <1>3 DEF Machined, Running
<1>5. MachineTyped'
  BY <1>1 DEF RegInv, RegistryTypeOK, MachineTyped, machine
<1>6. Told(m, Ready', Running')
  BY <1>1, <1>2, <1>4 DEF Told
<1> QED BY <1>1, <1>2, <1>3, <1>5, <1>6

LEMMA MachineWorksInv ==
  ASSUME RegInv,
         \/ CreateFails \/ DestroyTerminal
         \/ \E t \in Terminals : CreateTerminal(t) \/ ShellExits(t) \/ WatchDeath(t)
         \/ \E m \in making : InsertTerminal(m) \/ AnswerCreated(m)
  PROVE  RegInv'
<1>1. /\ MachineTyped' /\ Machined' /\ Ready \subseteq Ready' /\ Running' \intersect Ready \subseteq Running
      /\ \/ up' = up
         \/ greeted /\ \E x \in Messages : x.kind # "existing" /\ up' = Said(x) /\ Told(x, Ready', Running')
  BY FailsMachine, DestroyMachine, CreateMachine, ExitMachine, WatchMachine, InsertMachine, AnswerMachine
<1>2. /\ UNCHANGED <<hubState, rows, cur, greeted, opened, count>> /\ watched' \subseteq watched \union Terminals
      /\ down' = down \/ (down # <<>> /\ down' = Tail(down))
  BY DEF CreateFails, DestroyTerminal, CreateTerminal, TakeCommand, ShellExits, WatchDeath, InsertTerminal,
         AnswerCreated, wire
<1>3. /\ up' \in Seq(Messages) /\ Wired' /\ Accounted' /\ Remembered'
      /\ \A i \in 1..Len(up') : Told(up'[i], Ready', Running') /\ (up'[i].kind = "existing" => i = 1)
  <2>1. Running' \subseteq Terminals
    BY <1>1 DEF Running, MachineTyped
  <2> QED BY <1>1, <1>2, <2>1, MachineKeeps
<1>4. /\ down' \in Seq(Commands)
      /\ \A i \in 1..Len(down') : down'[i].kind = "destroy" => down'[i].id \in Ready
  BY <1>2, CommandsKept DEF RegInv, RegistryTypeOK, Messaged
<1>5. Messaged'
  BY <1>1, <1>3, <1>4 DEF Messaged
<1>6. RegistryTypeOK'
  BY <1>1, <1>2, <1>3, <1>4 DEF RegInv, RegistryTypeOK, MachineTyped, hubState
<1> QED BY <1>3, <1>5, <1>6 DEF RegInv

-----------------------------------------------------------------------------
(* The hub.                                                                *)

(* The lists the hub holds.                                                *)
LEMMA ListsTyped ==
  ASSUME RegInv
  PROVE  /\ DOMAIN live \subseteq Terminals /\ DOMAIN stash \subseteq Terminals
         /\ \A t \in DOMAIN live : live[t] \in Tabs \union {NoTab}
         /\ \A t \in DOMAIN stash : stash[t] \in Tabs \union {NoTab}
         /\ taken # Idle => /\ taken.ids \subseteq Terminals /\ DOMAIN taken.stash \subseteq Terminals
                           /\ \A t \in DOMAIN taken.stash : taken.stash[t] \in Tabs \union {NoTab}
         /\ Held \subseteq Terminals
<1>1. /\ live \in Lists /\ stash \in Lists
      /\ taken # Idle => taken.ids \subseteq Terminals /\ taken.stash \in Lists
  BY DEF RegInv, RegistryTypeOK
<1>2. \A l \in Lists : DOMAIN l \subseteq Terminals /\ \A t \in DOMAIN l : l[t] \in Tabs \union {NoTab}
  BY DEF Lists
<1> QED BY <1>1, <1>2 DEF Held

LEMMA EmptyList == Empty \in Lists /\ DOMAIN Empty = {}
<1>1. Empty \in [{} -> Tabs \union {NoTab}] /\ {} \in SUBSET Terminals
  BY DEF Empty
<1> QED BY <1>1 DEF Lists, Empty

(* What is live or stashed when a list is put in the other's place.        *)
LEMMA Merged ==
  ASSUME RegInv
  PROVE  LET kept == IF live = Empty THEN stash ELSE live IN
         kept \in Lists /\ DOMAIN kept = DOMAIN live \union DOMAIN stash
<1>1. live # Empty => DOMAIN live # {}
  <2> SUFFICES ASSUME DOMAIN live = {} PROVE live = Empty
    OBVIOUS
  <2>1. live = [t \in DOMAIN live |-> live[t]]
    BY DEF RegInv, RegistryTypeOK, Lists
  <2> QED BY <2>1 DEF Empty
<1> QED BY <1>1, EmptyList DEF RegInv, RegistryTypeOK, machine, Remembered

(* The hub takes the next message.                                         *)
LEMMA HubTakes ==
  ASSUME RegInv, up # <<>>, up' = Tail(up), UNCHANGED <<Ready, Running>>
  PROVE  /\ Head(up) \in Messages /\ up' \in Seq(Messages) /\ Told(Head(up), Ready, Running)
         /\ \A i \in 1..Len(up') : Told(up'[i], Ready', Running') /\ up'[i].kind # "existing"
         /\ ~Reporting' /\ ~(cur # 0 /\ ~greeted)
         /\ Head(up).kind # "existing" => DOMAIN stash = {}
<1>1. up \in Seq(Messages)
  BY DEF RegInv, RegistryTypeOK
<1>2. \A i \in 1..Len(up) : Told(up[i], Ready, Running) /\ (up[i].kind = "existing" => i = 1)
  BY DEF RegInv, Messaged
<1>3. /\ Head(up) = up[1] /\ 1 \in 1..Len(up) /\ up' \in Seq(Messages)
      /\ \A i \in 1..Len(up') : i + 1 \in 1..Len(up) /\ up'[i] = up[i + 1] /\ i + 1 # 1
      /\ up' # <<>> => 1 \in 1..Len(up') /\ Head(up') = up'[1]
  BY <1>1
<1>4. Head(up) \in Messages
  BY <1>1
<1>5. \A i \in 1..Len(up') : Told(up'[i], Ready', Running') /\ up'[i].kind # "existing"
  BY <1>2, <1>3 DEF Told
<1>6. ~Reporting'
  BY <1>3, <1>5 DEF Reporting
<1> QED BY <1>2, <1>3, <1>4, <1>5, <1>6 DEF RegInv, Wired, Remembered, Reporting

LEMMA HubLosesConnInv == ASSUME RegInv, NEW c \in 1..MaxConns, HubLosesConn(c) PROVE RegInv'
<1>1. /\ c \in ends /\ ends' = ends \ {c} /\ opened \in 0..MaxConns /\ ends \subseteq 1..opened
      /\ UNCHANGED <<machine, Ready, Running, cur, greeted, watched, opened, edit, rows, count>>
  BY MachineStill DEF HubLosesConn, RegInv, RegistryTypeOK
<1>2. reg = c => c = opened
  BY <1>1, BoundsAssumption DEF RegInv, Wired
<1>3. /\ live' \in Lists /\ stash' \in Lists /\ reg' \in {0, reg} /\ reg' \in ends' \union {0}
      /\ DOMAIN live' \union DOMAIN stash' = DOMAIN live \union DOMAIN stash
      /\ DOMAIN live' = {} \/ DOMAIN stash' = {}
      /\ c # opened => UNCHANGED <<live, stash, reg>>
  <2>1. CASE reg = c
    BY <1>1, <1>2, <2>1, Merged, EmptyList DEF HubLosesConn, UnregisterStash
  <2>2. CASE reg # c
    BY <1>1, <1>2, <2>2 DEF HubLosesConn, RegInv, RegistryTypeOK, Remembered
  <2> QED BY <2>1, <2>2
<1>4. CASE c = opened
  <2>1. /\ up' = <<>> /\ down' = <<>> /\ taken' = Idle
        /\ cut' = cut \union (IF taken = Idle THEN {} ELSE DOMAIN taken.stash)
    BY <1>4 DEF HubLosesConn
  <2>2. RegistryTypeOK'
    <3>1. up' \in Seq(Messages) /\ down' \in Seq(Commands)
      BY <2>1, EmptySeq
    <3>2. cut' \subseteq Terminals
      BY <2>1, ListsTyped DEF RegInv, RegistryTypeOK
    <3> QED BY <1>1, <1>3, <2>1, <3>1, <3>2 DEF RegInv, RegistryTypeOK, machine
  <2>3. Wired' /\ Messaged' /\ ~Reporting'
    BY <1>1, <1>3, <2>1, MachinedStill DEF RegInv, Wired, Messaged, Reporting
  <2>4. Held' = DOMAIN live \union DOMAIN stash
    BY <1>3, <2>1 DEF Held
  <2>5. Accounted'
    BY <1>1, <2>1, <2>3, <2>4 DEF RegInv, Accounted, Held
  <2>6. ~(greeted' /\ cur' \in ends')
    BY <1>1, <1>4 DEF RegInv, Wired
  <2>7. NoRowForgotten'
    BY <1>1, <2>1, <2>4 DEF RegInv, Remembered, NoRowForgotten, Active, ActiveRows, Held
  <2> QED BY <1>3, <2>1, <2>2, <2>3, <2>5, <2>6, <2>7 DEF RegInv, Remembered
<1>5. CASE c # opened
  <2>1. UNCHANGED <<up, down, taken, cut, live, stash, reg>>
    BY <1>3, <1>5 DEF HubLosesConn
  <2>2. RegistryTypeOK'
    BY <1>1, <1>3, <2>1 DEF RegInv, RegistryTypeOK, machine
  <2>3. Held' = Held /\ Reporting' = Reporting
    BY <2>1 DEF Held, Reporting
  <2>4. Wired' /\ Messaged'
    BY <1>1, <2>1, MachinedStill DEF RegInv, Wired, Messaged, Told
  <2>5. Accounted'
    BY <1>1, <2>1, <2>3 DEF RegInv, Accounted, Reporting
  <2>6. NoRowForgotten'
    BY <1>1, <2>1, <2>3 DEF RegInv, Remembered, NoRowForgotten, Active, ActiveRows
  <2> QED BY <1>1, <2>1, <2>2, <2>3, <2>4, <2>5, <2>6 DEF RegInv, Remembered
<1> QED BY <1>4, <1>5

LEMMA TakeStashInv == ASSUME RegInv, TakeStash PROVE RegInv'
<1> DEFINE took == [at |-> "taken", ids |-> Head(up).ids, stash |-> stash]
<1>1. /\ up # <<>> /\ Head(up).kind = "existing" /\ taken = Idle /\ taken' = took
      /\ stash' = Empty /\ up' = Tail(up)
      /\ UNCHANGED <<machine, Ready, Running, cur, greeted, watched, opened, down,
                     ends, reg, live, edit, cut, rows, count>>
  BY MachineStill DEF TakeStash
<1>2. /\ Head(up) \in Messages /\ up' \in Seq(Messages) /\ Told(Head(up), Ready, Running)
      /\ \A i \in 1..Len(up') : Told(up'[i], Ready', Running') /\ up'[i].kind # "existing"
      /\ ~Reporting' /\ ~(cur # 0 /\ ~greeted)
  BY <1>1, HubTakes
<1>3. Head(up).ids \subseteq Terminals /\ Head(up).ids \subseteq Ready
  BY <1>1, <1>2 DEF Messages, Told
<1>4. took # Idle /\ took.ids = Head(up).ids /\ took.stash = stash
      /\ took \in [at : {"taken"}, ids : SUBSET Terminals, stash : Lists]
  BY <1>3 DEF Idle, RegInv, RegistryTypeOK
<1> HIDE DEF took
<1>5. RegistryTypeOK'
  BY <1>1, <1>2, <1>4, EmptyList DEF RegInv, RegistryTypeOK, machine
<1>6. Held' = Held
  BY <1>1, <1>4, EmptyList DEF Held
<1>7. Wired' /\ Messaged'
  BY <1>1, <1>2, MachinedStill DEF RegInv, Wired, Messaged
<1>8. Accounted'
  <2>1. \A t \in DOMAIN stash : rows[t].state # "none"
    BY DEF RegInv, Accounted, Held
  <2>2. DOMAIN stash \intersect Running \subseteq Head(up).ids
    BY <1>1, <2>1 DEF RegInv, Accounted, Reporting
  <2> QED BY <1>1, <1>2, <1>3, <1>4, <1>6, <2>2 DEF RegInv, Accounted
<1>9. NoRowForgotten'
  BY <1>1, <1>6 DEF RegInv, Remembered, NoRowForgotten, Active, ActiveRows
<1>10. Remembered'
  BY <1>1, <1>2, <1>9, EmptyList DEF Remembered
<1> QED BY <1>5, <1>7, <1>8, <1>10 DEF RegInv

RowSet == [state : {"none", "active", "destroyed"}, tab : Tabs \union {NoTab}]

(* What insert, mark_destroyed and assign_workspace_group make of a row.   *)
LEMMA RowSteps ==
  ASSUME NEW row \in RowSet
  PROVE  /\ Inserted(row) \in RowSet /\ Inserted(row).state # "none"
         /\ row.state # "none" => Inserted(row) = row
         /\ row.state = "none" => Inserted(row).state = "active"
         /\ MarkDestroyed(row) \in RowSet /\ MarkDestroyed(row).state # "active"
         /\ MarkDestroyed(row).state = "none" <=> row.state = "none"
         /\ \A tab \in Tabs \union {NoTab} :
              Assigned(row, tab) \in RowSet /\ Assigned(row, tab).state = row.state
<1>1. NewRow \in RowSet /\ NewRow.state = "active"
  BY DEF NewRow, RowSet
<1>2. row.state \in {"none", "active", "destroyed"}
  BY DEF RowSet
<1>3. row.state = "active" => /\ MarkDestroyed(row) \in RowSet
                              /\ MarkDestroyed(row).state = "destroyed"
  BY DEF MarkDestroyed, RowSet
<1>4. row.state # "active" => MarkDestroyed(row) = row
  BY DEF MarkDestroyed
<1>5. \A tab \in Tabs \union {NoTab} :
        Assigned(row, tab) \in RowSet /\ Assigned(row, tab).state = row.state
  BY DEF Assigned, RowSet
<1>6. Inserted(row) = IF row.state = "none" THEN NewRow ELSE row
  BY DEF Inserted
<1> QED BY <1>1, <1>2, <1>3, <1>4, <1>5, <1>6

LEMMA RowsTyped ==
  ASSUME RegInv
  PROVE  rows \in [Terminals -> RowSet] /\ \A t \in Terminals : rows[t] \in RowSet
BY DEF RegInv, RegistryTypeOK, machine, RowSet

LEMMA ReconcileInv == ASSUME RegInv, Reconcile PROVE RegInv'
<1>1. /\ taken # Idle /\ taken' = Idle
      /\ live' = [t \in DOMAIN live \union taken.ids |->
                    IF t \in taken.ids THEN RestoredTab(t) ELSE live[t]]
      /\ rows' = [t \in Terminals |->
                    CASE t \in taken.ids \ DOMAIN taken.stash -> Inserted(rows[t])
                      [] t \in DOMAIN taken.stash \ taken.ids -> MarkDestroyed(rows[t])
                      [] OTHER -> rows[t]]
      /\ UNCHANGED <<machine, Ready, Running, cur, greeted, watched, opened, up, down, ends, reg, stash, edit, cut,
                     count>>
  BY MachineStill DEF Reconcile, wire
<1>2. /\ taken.ids \subseteq Terminals /\ DOMAIN taken.stash \subseteq Terminals
      /\ DOMAIN live \subseteq Terminals
      /\ \A t \in DOMAIN live : live[t] \in Tabs \union {NoTab}
      /\ \A t \in DOMAIN taken.stash : taken.stash[t] \in Tabs \union {NoTab}
  BY <1>1, ListsTyped
<1>3. /\ taken.ids \subseteq Ready /\ DOMAIN taken.stash \intersect Running \subseteq taken.ids
      /\ DOMAIN stash = {} /\ ~Reporting
  BY <1>1 DEF RegInv, Accounted, Remembered
<1>4. DOMAIN live' = DOMAIN live \union taken.ids /\ live' \in Lists
  <2>1. live' \in [DOMAIN live \union taken.ids -> Tabs \union {NoTab}]
    BY <1>1, <1>2 DEF RestoredTab
  <2> QED BY <1>2, <2>1 DEF Lists
<1>5. \A t \in Terminals :
        /\ rows[t] \in RowSet
        /\ t \in taken.ids \ DOMAIN taken.stash => rows'[t] = Inserted(rows[t])
        /\ t \in DOMAIN taken.stash \ taken.ids => rows'[t] = MarkDestroyed(rows[t])
        /\ t \in DOMAIN taken.stash <=> t \in taken.ids => rows'[t] = rows[t]
  BY <1>1, RowsTyped
<1>6. \A t \in Terminals : rows'[t] \in RowSet
  BY <1>5, RowSteps
<1>7. RegistryTypeOK'
  <2>1. rows' \in [Terminals -> RowSet]
    BY <1>1, <1>6
  <2> QED BY <1>1, <1>4, <2>1 DEF RegInv, RegistryTypeOK, machine, RowSet
<1>8. /\ Held' = DOMAIN live \union taken.ids \union DOMAIN stash
      /\ Held = DOMAIN live \union DOMAIN stash \union DOMAIN taken.stash
      /\ Held' \subseteq Terminals
  BY <1>1, <1>2, <1>3, <1>4 DEF Held
<1>9. Wired' /\ Messaged' /\ Reporting' = Reporting
  BY <1>1, MachinedStill DEF RegInv, Wired, Messaged, Told, Reporting
<1>10. Accounted'
  <2>1. \A t \in Terminals : rows[t].state # "none" => rows'[t].state # "none"
    BY <1>5, RowSteps
  <2>2. \A t \in Terminals : rows'[t].state # "none" => t \in Ready
    BY <1>3, <1>5, RowSteps DEF RegInv, Accounted
  <2>3. \A t \in Held' : rows'[t].state # "none"
    BY <1>5, <1>8, <2>1, RowSteps DEF RegInv, Accounted
  <2>4. ASSUME NEW t \in Terminals, rows'[t].state = "destroyed" PROVE t \notin Running'
    <3>1. rows[t].state = "destroyed" \/ t \in DOMAIN taken.stash \ taken.ids
      BY <1>5, <2>4, RowSteps
    <3> QED BY <1>1, <1>3, <3>1 DEF RegInv, Accounted
  <2>5. edit # Idle => edit.id \in Terminals
    BY DEF RegInv, RegistryTypeOK
  <2> QED BY <1>1, <1>3, <1>9, <2>1, <2>2, <2>3, <2>4, <2>5 DEF RegInv, Accounted
<1>11. Remembered'
  <2>1. NoRowForgotten'
    <3> SUFFICES ASSUME NEW t \in Terminals \ cut, rows'[t].state = "active" PROVE t \in Held'
      BY <1>1 DEF NoRowForgotten, Active, ActiveRows
    <3>1. ASSUME t \notin taken.ids PROVE rows[t].state = "active" /\ t \notin DOMAIN taken.stash
      <4>1. MarkDestroyed(rows[t]).state # "active"
        BY <1>5, RowSteps
      <4> QED BY <1>5, <3>1, <4>1
    <3> QED BY <1>8, <3>1 DEF RegInv, Remembered, NoRowForgotten, Active, ActiveRows
  <2> QED BY <1>1, <1>3, <1>9, <2>1 DEF RegInv, Remembered
<1> QED BY <1>7, <1>9, <1>10, <1>11 DEF RegInv

LEMMA HandleCreatedInv == ASSUME RegInv, HandleCreated PROVE RegInv'
<1> DEFINE t == Head(up).id
<1>1. /\ up # <<>> /\ Head(up).kind = "created" /\ taken = Idle /\ up' = Tail(up)
      /\ live' = [u \in DOMAIN live \union {t} |-> IF u = t THEN NoTab ELSE live[u]]
      /\ rows' = [rows EXCEPT ![t] = Inserted(rows[t])]
      /\ UNCHANGED <<machine, Ready, Running, cur, greeted, watched, opened, down,
                     ends, reg, stash, taken, edit, cut, count>>
  BY MachineStill DEF HandleCreated
<1>2. /\ Head(up) \in Messages /\ up' \in Seq(Messages) /\ Told(Head(up), Ready, Running)
      /\ \A i \in 1..Len(up') : Told(up'[i], Ready', Running') /\ up'[i].kind # "existing"
      /\ ~Reporting' /\ ~(cur # 0 /\ ~greeted)
      /\ DOMAIN stash = {}
  BY <1>1, HubTakes
<1>3. t \in Terminals /\ t \in Ready
  BY <1>1, <1>2 DEF Messages, Told
<1> HIDE DEF t
<1>4. DOMAIN live' = DOMAIN live \union {t} /\ live' \in Lists
  <2>1. live' \in [DOMAIN live \union {t} -> Tabs \union {NoTab}] /\ DOMAIN live \union {t} \subseteq Terminals
    BY <1>1, <1>3, ListsTyped
  <2> QED BY <2>1 DEF Lists
<1>5. /\ rows' \in [Terminals -> RowSet] /\ rows'[t].state # "none"
      /\ rows[t].state = "destroyed" => rows'[t] = rows[t]
      /\ rows'[t].state = "destroyed" => rows[t].state = "destroyed"
      /\ \A u \in Terminals : u # t => rows'[u] = rows[u]
  <2>1. Inserted(rows[t]) \in RowSet /\ Inserted(rows[t]).state # "none"
    BY <1>3, RowsTyped, RowSteps
  <2>2. \A u \in Terminals : rows'[u] = IF u = t THEN Inserted(rows[t]) ELSE rows[u]
    BY <1>1, <1>3, RowsTyped
  <2>3. rows' \in [Terminals -> RowSet]
    BY <1>1, <1>3, <2>1, RowsTyped
  <2> QED BY <1>3, <2>1, <2>2, <2>3, RowsTyped, RowSteps
<1>6. RegistryTypeOK'
  BY <1>1, <1>2, <1>4, <1>5 DEF RegInv, RegistryTypeOK, machine, RowSet
<1>7. Held' = Held \union {t} /\ Held \subseteq Terminals
  BY <1>1, <1>4, ListsTyped DEF Held
<1>8. Wired' /\ Messaged'
  BY <1>1, <1>2, MachinedStill DEF RegInv, Wired, Messaged
<1>9. Accounted'
  <2>1. \A u \in Held' : rows'[u].state # "none"
    BY <1>5, <1>7 DEF RegInv, Accounted
  <2>2. \A u \in Terminals : rows'[u].state # "none" => u \in Ready
    BY <1>3, <1>5 DEF RegInv, Accounted
  <2>3. edit # Idle => rows'[edit.id].state # "none"
    BY <1>5 DEF RegInv, Accounted, RegistryTypeOK
  <2>4. \A u \in Terminals : rows'[u].state = "destroyed" => u \notin Running'
    BY <1>1, <1>5 DEF RegInv, Accounted
  <2> QED BY <1>1, <1>2, <2>1, <2>2, <2>3, <2>4 DEF Accounted
<1>10. NoRowForgotten'
  BY <1>1, <1>5, <1>7 DEF RegInv, Remembered, NoRowForgotten, Active, ActiveRows
<1>11. Remembered'
  BY <1>1, <1>2, <1>10 DEF Remembered
<1> QED BY <1>6, <1>8, <1>9, <1>11 DEF RegInv

LEMMA HandleDestroyedInv == ASSUME RegInv, HandleDestroyed PROVE RegInv'
<1> DEFINE t == Head(up).id
<1>1. /\ up # <<>> /\ Head(up).kind = "destroyed" /\ taken = Idle /\ up' = Tail(up)
      /\ live' = Restrict(live, DOMAIN live \ {t})
      /\ rows' = [rows EXCEPT ![t] = MarkDestroyed(rows[t])]
      /\ UNCHANGED <<machine, Ready, Running, cur, greeted, watched, opened, down,
                     ends, reg, stash, taken, edit, cut, count>>
  BY MachineStill DEF HandleDestroyed, Forget
<1>2. /\ Head(up) \in Messages /\ up' \in Seq(Messages) /\ Told(Head(up), Ready, Running)
      /\ \A i \in 1..Len(up') : Told(up'[i], Ready', Running') /\ up'[i].kind # "existing"
      /\ ~Reporting' /\ ~(cur # 0 /\ ~greeted)
      /\ DOMAIN stash = {}
  BY <1>1, HubTakes
<1>3. t \in Terminals /\ t \notin Running
  BY <1>1, <1>2 DEF Messages, Told
<1> HIDE DEF t
<1>4. DOMAIN live' = DOMAIN live \ {t} /\ live' \in Lists
  <2>1. live' \in [DOMAIN live \ {t} -> Tabs \union {NoTab}] /\ DOMAIN live \ {t} \subseteq Terminals
    BY <1>1, ListsTyped DEF Restrict
  <2> QED BY <2>1 DEF Lists
<1>5. /\ rows' \in [Terminals -> RowSet] /\ rows'[t].state # "active"
      /\ rows'[t].state = "none" <=> rows[t].state = "none"
      /\ \A u \in Terminals : u # t => rows'[u] = rows[u]
  <2>1. /\ MarkDestroyed(rows[t]) \in RowSet /\ MarkDestroyed(rows[t]).state # "active"
        /\ MarkDestroyed(rows[t]).state = "none" <=> rows[t].state = "none"
    BY <1>3, RowsTyped, RowSteps
  <2>2. \A u \in Terminals : rows'[u] = IF u = t THEN MarkDestroyed(rows[t]) ELSE rows[u]
    BY <1>1, <1>3, RowsTyped
  <2>3. rows' \in [Terminals -> RowSet]
    BY <1>1, <1>3, <2>1, RowsTyped
  <2> QED BY <1>3, <2>1, <2>2, <2>3
<1>6. RegistryTypeOK'
  BY <1>1, <1>2, <1>4, <1>5 DEF RegInv, RegistryTypeOK, machine, RowSet
<1>7. Held' \subseteq Held /\ Held \subseteq Held' \union {t} /\ Held \subseteq Terminals
  BY <1>1, <1>4, ListsTyped DEF Held
<1>8. Wired' /\ Messaged'
  BY <1>1, <1>2, MachinedStill DEF RegInv, Wired, Messaged
<1>9. Accounted'
  <2>1. \A u \in Terminals : rows'[u].state = "none" <=> rows[u].state = "none"
    BY <1>5
  <2>2. edit # Idle => edit.id \in Terminals
    BY DEF RegInv, RegistryTypeOK
  <2>3. \A u \in Terminals : rows'[u].state = "destroyed" => u \notin Running'
    BY <1>1, <1>3, <1>5 DEF RegInv, Accounted
  <2> QED BY <1>1, <1>2, <1>7, <2>1, <2>2, <2>3 DEF RegInv, Accounted
<1>10. NoRowForgotten'
  BY <1>1, <1>5, <1>7 DEF RegInv, Remembered, NoRowForgotten, Active, ActiveRows
<1>11. Remembered'
  BY <1>1, <1>2, <1>10 DEF Remembered
<1> QED BY <1>6, <1>8, <1>9, <1>11 DEF RegInv

(* create_terminal and destroy_terminal: only commands about terminals     *)
(* that are ready are sent.                                                *)
LEMMA SendInv ==
  ASSUME RegInv, NEW cmd \in Commands, Send(cmd), cmd.kind = "destroy" => cmd.id \in Ready
  PROVE  RegInv'
<1>1. /\ UNCHANGED <<machine, Ready, Running, cur, greeted, watched, opened, up, ends, reg, live, stash, taken, edit,
                     cut, rows>>
      /\ down' = down \/ down' = Append(down, cmd)
  BY MachineStill DEF Send, hubState
<1>2. count' \in Bounds
  BY Bumped DEF Send, RegInv, RegistryTypeOK
<1>3. down \in Seq(Commands) /\ \A i \in 1..Len(down) : down[i].kind = "destroy" => down[i].id \in Ready
  BY DEF RegInv, RegistryTypeOK, Messaged
<1>4. down' \in Seq(Commands) /\ \A i \in 1..Len(down') : down'[i].kind = "destroy" => down'[i].id \in Ready
  BY <1>1, <1>3
<1>5. RegistryTypeOK'
  BY <1>1, <1>2, <1>4 DEF RegInv, RegistryTypeOK, machine
<1>6. Held' = Held /\ Reporting' = Reporting
  BY <1>1 DEF Held, Reporting
<1>7. Wired' /\ Messaged'
  BY <1>1, <1>4, MachinedStill DEF RegInv, Wired, Messaged, Told
<1>8. Accounted' /\ Remembered'
  BY <1>1, <1>6 DEF RegInv, Accounted, Remembered, NoRowForgotten, Active, ActiveRows
<1> QED BY <1>5, <1>7, <1>8 DEF RegInv

LEMMA AskInv == ASSUME RegInv, AskCreate \/ \E t \in Terminals : AskDestroy(t) PROVE RegInv'
<1>1. CASE AskCreate
  <2>1. [kind |-> "create"] \in Commands /\ Send([kind |-> "create"])
    BY <1>1 DEF Commands, AskCreate
  <2> QED BY <2>1, SendInv
<1>2. ASSUME NEW t \in Terminals, AskDestroy(t) PROVE RegInv'
  <2> DEFINE cmd == [kind |-> "destroy", id |-> t]
  <2>1. cmd \in Commands /\ Send(cmd) /\ cmd.id = t
    BY <1>2 DEF Commands, AskDestroy
  <2>2. t \in Ready
    BY <1>2 DEF AskDestroy, Accessible, RegInv, Accounted, Held
  <2> HIDE DEF cmd
  <2> QED BY <2>1, <2>2, SendInv
<1> QED BY <1>1, <1>2

LEMMA AssignInMemoryInv ==
  ASSUME RegInv, NEW t \in Terminals, NEW tab \in Tabs \union {NoTab}, AssignInMemory(t, tab)
  PROVE  RegInv'
<1> DEFINE noted == [at |-> "memory", id |-> t, tab |-> tab]
<1>1. /\ edit = Idle /\ edit' = noted /\ t \in DOMAIN live \union DOMAIN stash
      /\ live' = live \/ live' = [live EXCEPT ![t] = tab]
      /\ stash' = stash \/ stash' = [stash EXCEPT ![t] = tab]
      /\ UNCHANGED <<machine, Ready, Running, cur, greeted, watched, opened, up, down, ends, reg, taken, cut, rows>>
  BY MachineStill DEF AssignInMemory, wire
<1>2. count' \in Bounds
  BY Bumped DEF AssignInMemory, RegInv, RegistryTypeOK
<1>3. noted \in [at : {"memory"}, id : Terminals, tab : Tabs \union {NoTab}] /\ noted.id = t /\ noted # Idle
  BY DEF Idle
<1> HIDE DEF noted
<1>4. \A l \in Lists : [l EXCEPT ![t] = tab] \in Lists /\ DOMAIN [l EXCEPT ![t] = tab] = DOMAIN l
  BY DEF Lists
<1>5. live' \in Lists /\ stash' \in Lists /\ DOMAIN live' = DOMAIN live /\ DOMAIN stash' = DOMAIN stash
  BY <1>1, <1>4 DEF RegInv, RegistryTypeOK
<1>6. RegistryTypeOK'
  BY <1>1, <1>2, <1>3, <1>5 DEF RegInv, RegistryTypeOK, machine
<1>7. Held' = Held /\ Reporting' = Reporting
  BY <1>1, <1>5 DEF Held, Reporting
<1>8. Wired' /\ Messaged'
  BY <1>1, MachinedStill DEF RegInv, Wired, Messaged, Told
<1>9. Accounted'
  <2>1. rows[t].state # "none"
    BY <1>1 DEF RegInv, Accounted, Held
  <2> QED BY <1>1, <1>3, <1>7, <2>1 DEF RegInv, Accounted
<1>10. Remembered'
  BY <1>1, <1>5, <1>7 DEF RegInv, Remembered, NoRowForgotten, Active, ActiveRows
<1> QED BY <1>6, <1>8, <1>9, <1>10 DEF RegInv

LEMMA AssignInDbInv == ASSUME RegInv, AssignInDb PROVE RegInv'
<1>1. /\ edit # Idle /\ edit' = Idle
      /\ rows' = [rows EXCEPT ![edit.id] = Assigned(Inserted(rows[edit.id]), edit.tab)]
      /\ UNCHANGED <<machine, Ready, Running, cur, greeted, watched, opened, up, down, ends, reg, live, stash, taken,
                     cut, count>>
  BY MachineStill DEF AssignInDb, wire
<1>2. edit.id \in Terminals /\ edit.tab \in Tabs \union {NoTab} /\ rows[edit.id].state # "none"
  BY <1>1 DEF RegInv, RegistryTypeOK, Accounted
<1>3. /\ rows' \in [Terminals -> RowSet]
      /\ \A t \in Terminals : rows'[t].state = rows[t].state
  <2> DEFINE row == Assigned(Inserted(rows[edit.id]), edit.tab)
  <2>1. row \in RowSet /\ row.state = rows[edit.id].state
    BY <1>2, RowsTyped, RowSteps
  <2> HIDE DEF row
  <2>2. rows' = [rows EXCEPT ![edit.id] = row]
    BY <1>1 DEF row
  <2> QED BY <1>2, <2>1, <2>2, RowsTyped
<1>4. RegistryTypeOK'
  BY <1>1, <1>3 DEF RegInv, RegistryTypeOK, machine, RowSet
<1>5. Held' = Held /\ Reporting' = Reporting /\ Held \subseteq Terminals
  BY <1>1, ListsTyped DEF Held, Reporting
<1>6. Wired' /\ Messaged'
  BY <1>1, MachinedStill DEF RegInv, Wired, Messaged, Told
<1>7. Accounted'
  <2>1. Running \subseteq Terminals
    BY DEF RegInv, RegistryTypeOK, Running
  <2> QED BY <1>1, <1>3, <1>5, <2>1 DEF RegInv, Accounted, Reporting
<1>8. Remembered'
  BY <1>1, <1>3, <1>5 DEF RegInv, Remembered, NoRowForgotten, Active, ActiveRows
<1> QED BY <1>4, <1>6, <1>7, <1>8 DEF RegInv

LEMMA RestartHubInv == ASSUME RegInv, RestartHub PROVE RegInv'
<1>1. /\ stash' = LoadedStash /\ ends' = {} /\ reg' = 0 /\ live' = Empty /\ taken' = Idle /\ edit' = Idle
      /\ cut' = {} /\ up' = <<>> /\ down' = <<>>
      /\ UNCHANGED <<machine, Ready, Running, cur, greeted, watched, opened, rows>>
  BY MachineStill DEF RestartHub
<1>2. count' \in Bounds
  BY Bumped DEF RestartHub, RegInv, RegistryTypeOK
<1>3. DOMAIN stash' = ActiveRows /\ stash' \in Lists
  <2>1. stash' \in [ActiveRows -> Tabs \union {NoTab}] /\ ActiveRows \subseteq Terminals
    BY <1>1, RowsTyped DEF LoadedStash, ActiveRows, RowSet
  <2> QED BY <2>1 DEF Lists
<1>4. RegistryTypeOK'
  <2>1. up' \in Seq(Messages) /\ down' \in Seq(Commands)
    BY <1>1, EmptySeq
  <2> QED BY <1>1, <1>2, <1>3, <2>1, EmptyList DEF RegInv, RegistryTypeOK, machine
<1>5. Held' = ActiveRows /\ ~Reporting'
  BY <1>1, <1>3, EmptyList DEF Held, Reporting
<1>6. Wired' /\ Messaged'
  BY <1>1, MachinedStill DEF RegInv, Wired, Messaged
<1>7. Accounted'
  BY <1>1, <1>5 DEF RegInv, Accounted, ActiveRows
<1>8. Remembered'
  BY <1>1, <1>5, EmptyList DEF Remembered, NoRowForgotten, Active, ActiveRows
<1> QED BY <1>4, <1>6, <1>7, <1>8 DEF RegInv

-----------------------------------------------------------------------------
LEMMA NextRegInv == RegInv /\ [RegistryNext]_registryVars => RegInv'
<1> SUFFICES ASSUME RegInv, [RegistryNext]_registryVars PROVE RegInv'
  OBVIOUS
<1>1. CASE MachineNext
  BY <1>1, ConnectInv, GreetInv, MachineWorksInv, LoseConnInv DEF MachineNext
<1>2. CASE HubNext
  BY <1>2, HubLosesConnInv, TakeStashInv, ReconcileInv, HandleCreatedInv, HandleDestroyedInv, AskInv,
     AssignInMemoryInv, AssignInDbInv, RestartHubInv DEF HubNext
<1>3. CASE UNCHANGED registryVars
  <2>1. UNCHANGED <<machine, Ready, Running, cur, greeted, watched, opened, up, down, ends, reg, live, stash, taken,
                    edit, cut, rows, count>>
    BY <1>3, MachineStill DEF registryVars, wire, hubState
  <2>2. RegistryTypeOK' /\ Held' = Held /\ Reporting' = Reporting
    BY <2>1 DEF RegInv, RegistryTypeOK, machine, Held, Reporting
  <2>3. Wired' /\ Messaged'
    BY <2>1, MachinedStill DEF RegInv, Wired, Messaged, Told
  <2> QED BY <2>1, <2>2, <2>3 DEF RegInv, Accounted, Remembered, NoRowForgotten, Active,
                                  ActiveRows
<1> QED BY <1>1, <1>2, <1>3 DEF RegistryNext

(* The inductive invariant of the hub's list of terminals.                 *)
THEOREM RegistryInvariant == RegistrySpec => []RegInv
BY InitRegInv, NextRegInv, PTL DEF RegistrySpec

(* However reports, deaths, creations, reconnections and restarts          *)
(* interleave, the hub never writes a terminal off while its shell runs,   *)
(* unless a crash of the machine in the middle of its creation orphaned it.*)
THEOREM WrittenOffIsDead == RegistrySpec => []DestroyedIsDead
<1>1. RegInv => DestroyedIsDead
  BY DEF RegInv, Accounted, Running, DestroyedIsDead, Running, DestroyedIsDead
<1> QED BY <1>1, RegistryInvariant, PTL

(* The hub's memory loses no terminal that its database calls active,      *)
(* except those whose reconciliation was cut off between its two locks.    *)
THEOREM ActiveIsRemembered == RegistrySpec => []NoRowForgotten
<1>1. RegInv => NoRowForgotten
  BY DEF RegInv, Remembered
<1> QED BY <1>1, RegistryInvariant, PTL

(* The registry's variables keep their types.                              *)
THEOREM RegistryTypes == RegistrySpec => []RegistryTypeOK
<1>1. RegInv => RegistryTypeOK
  BY DEF RegInv
<1> QED BY <1>1, RegistryInvariant, PTL

-----------------------------------------------------------------------------
(* TerminalRegistry: the tab of a terminal.                                *)

\* The tab the database has for a terminal, or will have when the assignment
\* under way has reached it.
Place(t) == IF edit # Idle /\ edit.id = t THEN edit.tab ELSE rows[t].tab

\* A list has every active terminal in its place.
InPlace(list) == \A t \in DOMAIN list \ cut : Active(t) => list[t] = Place(t)

Placed == InPlace(live) /\ InPlace(stash) /\ (taken # Idle => InPlace(taken.stash))

\* Nothing is listed before the report has been worked off.
Unlisted == (cur # 0 /\ ~greeted) \/ Reporting \/ taken # Idle => DOMAIN live = {}

\* A terminal whose creation is on the way to the hub, or will be said on the
\* open connection, is new to the hub, to the report before it and to the
\* database, and is announced once.
Announced(t) == \E i \in 1..Len(up) : up[i].kind = "created" /\ up[i].id = t
Coming(t) == \E m \in making : m.conn = cur /\ m.id = t
New(t) ==
  /\ rows[t].state = "none"
  /\ Reporting => t \notin Head(up).ids
  /\ taken # Idle => t \notin taken.ids
Once ==
  \A i, j \in 1..Len(up) :
    up[i].kind = "created" /\ up[j].kind = "created" /\ up[i].id = up[j].id => i = j
News ==
  /\ Once
  /\ \A t \in Terminals : Announced(t) \/ Coming(t) => New(t)
  /\ \A t \in Terminals : Coming(t) => ~Announced(t)

PlaceInv == RegInv /\ Unlisted /\ News /\ Placed

LEMMA InitPlaceInv == RegistryInit => PlaceInv
<1> SUFFICES ASSUME RegistryInit PROVE PlaceInv
  OBVIOUS
<1>1. up = <<>> /\ making = {} /\ cur = 0 /\ live = Empty /\ stash = Empty /\ taken = Idle /\ DOMAIN Empty = {}
  BY EmptyList DEF RegistryInit
<1>2. Len(up) = 0
  BY <1>1
<1>3. Unlisted /\ News
  BY <1>1, <1>2 DEF Unlisted, Reporting, News, Once, Announced, Coming
<1>4. Placed
  BY <1>1 DEF Placed, InPlace
<1> QED BY <1>3, <1>4, InitRegInv DEF PlaceInv

(* What is left of the messages announces nothing else.                    *)
LEMMA Remaining ==
  ASSUME Once, NEW d \in Nat, Len(up') \in Nat,
         \A i \in 1..Len(up') : i + d \in 1..Len(up) /\ up'[i] = up[i + d]
  PROVE  Once' /\ \A t \in Terminals : Announced(t)' => Announced(t)
<1>1. \A i, j \in 1..Len(up') : i + d = j + d => i = j
  OBVIOUS
<1>2. Once'
  BY <1>1 DEF Once
<1> QED BY <1>2 DEF Announced

(* Steps that neither say nor hear anything.                               *)
LEMMA Silent ==
  ASSUME RegInv, Unlisted, News, UNCHANGED <<up, taken, cur, greeted>>, DOMAIN live' = DOMAIN live,
         \A t \in Terminals : rows'[t].state = "none" <=> rows[t].state = "none",
         \A t \in Terminals : Coming(t)' => Coming(t)
  PROVE  Unlisted' /\ News'
<1>1. Reporting' = Reporting
  BY DEF Reporting
<1>2. Unlisted'
  BY <1>1 DEF Unlisted
<1> QED BY <1>1, <1>2 DEF News, Once, Announced, New

(* Nothing more is coming while the machine creates nothing.               *)
LEMMA ComingStill ==
  ASSUME cur' = cur, making' = making
  PROVE  \A t \in Terminals : Coming(t)' <=> Coming(t)
BY DEF Coming

(* The machine says something else than a report.                          *)
LEMMA Spoken ==
  ASSUME RegInv, Unlisted, News, NEW m \in Messages, m.kind # "existing", up' = Said(m),
         UNCHANGED <<rows, taken, cur, greeted, live>>,
         m.kind = "created" => Coming(m.id) /\ ~Coming(m.id)',
         \A t \in Terminals : Coming(t)' => Coming(t)
  PROVE  Unlisted' /\ News'
<1>1. up \in Seq(Messages)
  BY DEF RegInv, RegistryTypeOK
<1>2. CASE up' = up
  BY <1>2, Silent
<1>3. CASE up' # up
  <2>1. up' = Append(up, m)
    BY <1>3 DEF Said
  <2>2. /\ Len(up') = Len(up) + 1 /\ Len(up) \in Nat
        /\ \A i \in 1..Len(up) : up'[i] = up[i] /\ i \in 1..Len(up') /\ i # Len(up) + 1
        /\ up'[Len(up) + 1] = m
        /\ \A i \in 1..Len(up') : i \in 1..Len(up) \/ i = Len(up) + 1
        /\ Head(up') = IF up = <<>> THEN m ELSE Head(up)
    BY <1>1, <2>1
  <2>3. Reporting' => Reporting /\ Head(up') = Head(up)
    BY <2>2 DEF Reporting
  <2>4. Unlisted'
    BY <2>3 DEF Unlisted
  <2>5. m.kind = "created" => m.id \in Terminals
    BY DEF Messages
  <2>6. m.kind = "created" => New(m.id) /\ \A i \in 1..Len(up) : up[i].kind = "created" => up[i].id # m.id
    BY <2>5 DEF News, Announced
  <2>7. Once'
    BY <2>2, <2>6 DEF News, Once
  <2>8. \A t \in Terminals : Announced(t)' => Announced(t) \/ (m.kind = "created" /\ t = m.id)
    BY <2>2 DEF Announced
  <2>9. \A t \in Terminals : Announced(t)' \/ Coming(t)' => New(t)'
    BY <2>3, <2>6, <2>8 DEF News, New
  <2>10. \A t \in Terminals : Coming(t)' => ~Announced(t)'
    BY <2>8 DEF News
  <2> QED BY <2>4, <2>7, <2>9, <2>10 DEF News
<1> QED BY <1>2, <1>3

(* A new terminal is news to everybody.                                    *)
LEMMA CreateNews ==
  ASSUME RegInv, Unlisted, News, NEW t \in Terminals, CreateTerminal(t)
  PROVE  Unlisted' /\ News'
<1>1. /\ t \notin born /\ UNCHANGED <<up, rows, taken, cur, greeted, live>>
      /\ making' = making \union {[id |-> t, conn |-> cur, at |-> "spawned"]}
  BY DEF CreateTerminal, TakeCommand, hubState
<1>2. t \notin Ready
  BY <1>1 DEF Ready
<1>3. \A i \in 1..Len(up) : Told(up[i], Ready, Running)
  BY DEF RegInv, Messaged
<1>4. ~Announced(t)
  BY <1>2, <1>3 DEF Announced, Told
<1>5. New(t)
  <2>1. Reporting => t \notin Head(up).ids
    <3>1. up # <<>> => 1 \in 1..Len(up) /\ Head(up) = up[1]
      BY DEF RegInv, RegistryTypeOK
    <3> QED BY <1>2, <1>3, <3>1 DEF Reporting, Told
  <2>2. rows[t].state = "none" /\ (taken # Idle => t \notin taken.ids)
    BY <1>2 DEF RegInv, Accounted
  <2> QED BY <2>1, <2>2 DEF New
<1>6. \A u \in Terminals : Coming(u)' => Coming(u) \/ u = t
  BY <1>1 DEF Coming
<1>7. Reporting' = Reporting
  BY <1>1 DEF Reporting
<1>8. Unlisted'
  BY <1>1, <1>7 DEF Unlisted
<1>9. \A u \in Terminals : (Announced(u)' <=> Announced(u)) /\ (New(u)' <=> New(u))
  BY <1>1, <1>7 DEF Announced, New
<1>10. Once'
  BY <1>1 DEF News, Once
<1> QED BY <1>4, <1>5, <1>6, <1>8, <1>9, <1>10 DEF News

LEMMA MachineNews ==
  ASSUME RegInv, Unlisted, News, MachineNext
  PROVE  Unlisted' /\ News'
<1>1. CASE Connect
  <2>1. up' = <<>> /\ live' = Empty /\ Len(up') = 0 /\ making' = making /\ cur' = opened + 1
    BY <1>1 DEF Connect
  <2>2. \A m \in making : m.conn # cur'
    BY <2>1, BoundsAssumption DEF RegInv, RegistryTypeOK, Wired, Machined
  <2> QED BY <2>1, <2>2, EmptyList DEF Unlisted, News, Once, Announced, Coming
<1>2. CASE Greet
  <2> DEFINE m == [kind |-> "existing", ids |-> known]
  <2>1. cur # 0 /\ ~greeted /\ up = <<>> /\ live' = live /\ cur' = cur
    BY <1>2 DEF Greet, hubState, RegInv, Wired
  <2>2. up' = <<m>> \/ up' = <<>>
    BY <1>2, <2>1 DEF Greet, Greeting, Said
  <2>3. \A i \in 1..Len(up') : up'[i].kind = "existing"
    BY <2>2
  <2>4. \A t \in Terminals : ~Coming(t)'
    BY <1>2, <2>1 DEF Greet, machine, RegInv, Wired, Machined, Coming
  <2> QED BY <2>1, <2>3, <2>4 DEF Unlisted, News, Once, Announced
<1>3. CASE CreateFails \/ \E t \in Terminals : ShellExits(t)
  BY <1>3, Silent, ComingStill DEF CreateFails, TakeCommand, ShellExits, hubState, wire, machine
<1>4. CASE DestroyTerminal
  <2> DEFINE m == [kind |-> "destroyed", id |-> Head(down).id]
  <2>1. greeted /\ down # <<>> /\ down' = Tail(down) /\ up' = Said(m)
        /\ UNCHANGED <<rows, taken, cur, greeted, live, making>>
    BY <1>4 DEF DestroyTerminal, TakeCommand, hubState
  <2>2. Head(down).id \in Ready
    BY <1>4, <2>1, CommandsKept DEF DestroyTerminal, TakeCommand
  <2>3. m \in Messages /\ m.kind = "destroyed"
    BY <2>2 DEF Messages, RegInv, RegistryTypeOK, Ready
  <2> HIDE DEF m
  <2> QED BY <2>1, <2>3, Spoken, ComingStill
<1>5. ASSUME NEW t \in Terminals, WatchDeath(t) PROVE Unlisted' /\ News'
  <2> DEFINE m == [kind |-> "destroyed", id |-> t]
  <2>1. up' = Said(m) /\ UNCHANGED <<rows, taken, cur, greeted, live, making>>
    BY <1>5 DEF WatchDeath, hubState, machine
  <2>2. m \in Messages /\ m.kind = "destroyed"
    BY DEF Messages
  <2> HIDE DEF m
  <2> QED BY <2>1, <2>2, Spoken, ComingStill
<1>6. ASSUME NEW t \in Terminals, CreateTerminal(t) PROVE Unlisted' /\ News'
  BY <1>6, CreateNews
<1>7. ASSUME NEW m \in making, InsertTerminal(m) PROVE Unlisted' /\ News'
  <2>1. /\ UNCHANGED <<up, taken, cur, greeted, live, rows>>
        /\ making' = (making \ {m}) \union {[m EXCEPT !.at = "inserted"]} /\ m \in Makings
    BY <1>7 DEF InsertTerminal, wire, hubState, RegInv, RegistryTypeOK
  <2>2. [m EXCEPT !.at = "inserted"].id = m.id /\ [m EXCEPT !.at = "inserted"].conn = m.conn
    BY <2>1 DEF Makings
  <2>3. \A t \in Terminals : Coming(t)' => Coming(t)
    BY <2>1, <2>2 DEF Coming
  <2> QED BY <2>1, <2>3, Silent
<1>8. ASSUME NEW m \in making, AnswerCreated(m) PROVE Unlisted' /\ News'
  <2> DEFINE said == [kind |-> "created", id |-> m.id]
  <2>1. /\ UNCHANGED <<taken, cur, greeted, live, rows>> /\ making' = making \ {m}
        /\ up' = up \/ (cur = m.conn /\ up' = Said(said))
    BY <1>8 DEF AnswerCreated, hubState
  <2>2. said \in Messages /\ said.kind = "created" /\ said.id = m.id
    BY DEF Messages, Makings, RegInv, RegistryTypeOK
  <2>3. \A t \in Terminals : Coming(t)' => Coming(t)
    BY <2>1 DEF Coming
  <2>4. ~Coming(m.id)' /\ (cur = m.conn => Coming(m.id))
    BY <2>1 DEF Coming, RegInv, Wired, Machined
  <2> HIDE DEF said
  <2>5. CASE up' = up
    BY <2>1, <2>3, <2>5, Silent
  <2>6. CASE up' # up
    BY <2>1, <2>2, <2>3, <2>4, <2>6, Spoken
  <2> QED BY <2>5, <2>6
<1>9. CASE MachineLosesConn \/ RestartMachine
  <2>1. cur' = 0 /\ LoseTail /\ UNCHANGED <<live, taken, rows>>
    BY <1>9 DEF MachineLosesConn, RestartMachine, hubState
  <2>2. /\ up' \in Seq(Messages)
        /\ \A i \in 1..Len(up') : i \in 1..Len(up) /\ up'[i] = up[i]
        /\ up' # <<>> => up # <<>> /\ Head(up') = Head(up)
    BY <2>1, PrefixDelivered
  <2>3. (Reporting' => Reporting /\ Head(up') = Head(up)) /\ Len(up') \in Nat
    BY <2>2 DEF Reporting
  <2>4. \A i \in 1..Len(up') : i + 0 \in 1..Len(up) /\ up'[i] = up[i + 0]
    BY <2>2, <2>3
  <2>5. Once' /\ \A t \in Terminals : Announced(t)' => Announced(t)
    BY <2>3, <2>4, Remaining DEF News
  <2>6. \A t \in Terminals : ~Coming(t)'
    <3>1. making' \in {making, {}}
      BY <1>9 DEF MachineLosesConn, RestartMachine, machine
    <3>2. \A m \in making' : m.conn # 0
      BY <3>1, BoundsAssumption DEF RegInv, RegistryTypeOK, Makings
    <3> QED BY <2>1, <3>2 DEF Coming
  <2> QED BY <2>1, <2>3, <2>5, <2>6 DEF Unlisted, News, New
<1> QED BY <1>1, <1>2, <1>3, <1>4, <1>5, <1>6, <1>7, <1>8, <1>9 DEF MachineNext

(* The hub takes a message.                                                *)
LEMMA Heard ==
  ASSUME RegInv, News, up # <<>>, up' = Tail(up)
  PROVE  /\ Once' /\ \A t \in Terminals : Announced(t)' => Announced(t)
         /\ Head(up).kind = "created" =>
              \A i \in 1..Len(up') : up'[i].kind = "created" => up'[i].id # Head(up).id
<1>1. up \in Seq(Messages)
  BY DEF RegInv, RegistryTypeOK
<1>2. /\ Len(up') \in Nat /\ Head(up) = up[1] /\ 1 \in 1..Len(up)
      /\ \A i \in 1..Len(up') : i + 1 \in 1..Len(up) /\ up'[i] = up[i + 1] /\ i + 1 # 1
  BY <1>1
<1>3. Once' /\ \A t \in Terminals : Announced(t)' => Announced(t)
  BY <1>2, Remaining DEF News
<1>4. ASSUME Head(up).kind = "created", NEW i \in 1..Len(up'), up'[i].kind = "created"
      PROVE  up'[i].id # Head(up).id
  BY <1>2, <1>4 DEF News, Once
<1> QED BY <1>3, <1>4

(* The hub's steps keep the news.                                          *)
LEMMA HubNews ==
  ASSUME RegInv, Unlisted, News, HubNext
  PROVE  Unlisted' /\ News'
<1>0. \A t \in Terminals : Coming(t)' <=> Coming(t)
  <2>1. cur' = cur /\ making' = making
    BY DEF HubNext, HubLosesConn, TakeStash, Reconcile, HandleCreated, HandleDestroyed, AskCreate, AskDestroy,
           Send, AssignInDb, AssignInMemory, RestartHub, machine, wire
  <2> QED BY <2>1, ComingStill
<1>1. ASSUME NEW c \in 1..MaxConns, HubLosesConn(c) PROVE Unlisted' /\ News'
  <2>1. /\ UNCHANGED <<cur, greeted, rows>> /\ (live' = live \/ live' = Empty)
        /\ (up' = <<>> /\ taken' = Idle) \/ (up' = up /\ taken' = taken)
    BY <1>1 DEF HubLosesConn
  <2>2. CASE up' = <<>> /\ taken' = Idle
    BY <1>0, <2>1, <2>2, EmptyList DEF Unlisted, Reporting, News, Once, Announced, New
  <2>3. CASE up' = up /\ taken' = taken
    BY <1>0, <2>1, <2>3, EmptyList DEF Unlisted, Reporting, News, Once, Announced, New
  <2> QED BY <2>1, <2>2, <2>3
<1>2. CASE TakeStash
  <2>1. /\ Reporting /\ up # <<>> /\ up' = Tail(up) /\ live' = live /\ UNCHANGED rows
        /\ taken'.ids = Head(up).ids
    BY <1>2 DEF TakeStash, Reporting
  <2>2. Once' /\ (\A t \in Terminals : Announced(t)' => Announced(t)) /\ ~Reporting'
    BY <1>2, <2>1, Heard, HubTakes, MachineStill DEF TakeStash
  <2> QED BY <1>0, <2>1, <2>2 DEF Unlisted, News, New
<1>3. CASE Reconcile
  <2>1. /\ taken # Idle /\ taken' = Idle /\ UNCHANGED <<up, cur, greeted>>
        /\ rows' = [t \in Terminals |->
                      CASE t \in taken.ids \ DOMAIN taken.stash -> Inserted(rows[t])
                        [] t \in DOMAIN taken.stash \ taken.ids -> MarkDestroyed(rows[t])
                        [] OTHER -> rows[t]]
    BY <1>3 DEF Reconcile, wire
  <2>2. ~Reporting /\ ~Reporting' /\ ~(cur # 0 /\ ~greeted)
    BY <2>1 DEF RegInv, Remembered, Wired, Reporting
  <2>3. ASSUME NEW t \in Terminals, Announced(t) \/ Coming(t) PROVE rows'[t].state = "none"
    <3>1. rows[t].state = "none" /\ t \notin taken.ids
      BY <1>0, <2>1, <2>3 DEF News, New
    <3>2. t \notin DOMAIN taken.stash
      BY <2>1, <3>1 DEF RegInv, Accounted, Held
    <3> QED BY <2>1, <3>1, <3>2
  <2> QED BY <1>0, <2>1, <2>2, <2>3 DEF Unlisted, News, Once, Announced, New
<1>4. CASE HandleCreated \/ HandleDestroyed
  <2>1. /\ up # <<>> /\ up' = Tail(up) /\ taken = Idle /\ taken' = Idle
        /\ Head(up).kind \in {"created", "destroyed"}
        /\ UNCHANGED <<cur, greeted, Ready, Running>>
    BY <1>4, MachineStill DEF HandleCreated, HandleDestroyed
  <2>2. /\ Once' /\ \A t \in Terminals : Announced(t)' => Announced(t)
        /\ ~Reporting' /\ ~(cur # 0 /\ ~greeted) /\ Head(up) \in Messages
        /\ Head(up).kind = "created" =>
             \A i \in 1..Len(up') : up'[i].kind = "created" => up'[i].id # Head(up).id
    BY <2>1, Heard, HubTakes
  <2>3. Head(up).id \in Terminals
    BY <2>1, <2>2 DEF Messages
  <2>4. HandleCreated => Announced(Head(up).id)
    <3>1. up # <<>> => 1 \in 1..Len(up) /\ Head(up) = up[1]
      BY DEF RegInv, RegistryTypeOK
    <3> QED BY <2>1, <3>1 DEF Announced, HandleCreated
  <2>5. ASSUME NEW t \in Terminals, Announced(t)' \/ Coming(t) PROVE rows'[t].state = "none"
    <3>1. rows[t].state = "none" /\ rows[t] \in RowSet
      BY <1>0, <2>2, <2>5, RowsTyped DEF News, New
    <3>2. CASE HandleCreated
      <4>1. t # Head(up).id
        BY <1>0, <2>2, <2>4, <2>5, <3>2 DEF Announced, HandleCreated, News
      <4> QED BY <3>1, <3>2, <4>1, RowsTyped DEF HandleCreated
    <3>3. CASE HandleDestroyed
      <4>1. MarkDestroyed(rows[t]).state = "none"
        BY <3>1, RowSteps
      <4> QED BY <3>1, <3>3, <4>1, RowsTyped DEF HandleDestroyed, Forget
    <3> QED BY <1>4, <3>2, <3>3
  <2> QED BY <1>0, <2>1, <2>2, <2>5 DEF Unlisted, News, New
<1>5. CASE AskCreate \/ \E t \in Terminals : AskDestroy(t)
  BY <1>0, <1>5, Silent DEF AskCreate, AskDestroy, Send, hubState
<1>6. CASE AssignInDb
  <2>1. /\ edit.id \in Terminals /\ edit.tab \in Tabs \union {NoTab} /\ rows[edit.id].state # "none"
        /\ rows' = [rows EXCEPT ![edit.id] = Assigned(Inserted(rows[edit.id]), edit.tab)]
        /\ UNCHANGED <<up, taken, cur, greeted, live>>
    BY <1>6 DEF AssignInDb, wire, RegInv, RegistryTypeOK, Accounted
  <2>2. Assigned(Inserted(rows[edit.id]), edit.tab).state = rows[edit.id].state
    BY <2>1, RowsTyped, RowSteps
  <2>3. \A t \in Terminals : rows'[t].state = rows[t].state
    BY <2>1, <2>2, RowsTyped
  <2> QED BY <1>0, <2>1, <2>3, Silent
<1>7. ASSUME NEW t \in Terminals, NEW tab \in Tabs \union {NoTab}, AssignInMemory(t, tab)
      PROVE  Unlisted' /\ News'
  <2>1. UNCHANGED <<up, taken, cur, greeted, rows>> /\ DOMAIN live' = DOMAIN live
    BY <1>7 DEF AssignInMemory, wire
  <2> QED BY <1>0, <2>1, Silent
<1>8. CASE RestartHub
  <2>1. up' = <<>> /\ live' = Empty /\ taken' = Idle /\ rows' = rows /\ Len(up') = 0
    BY <1>8 DEF RestartHub
  <2> QED BY <1>0, <2>1, EmptyList DEF Unlisted, News, Once, Announced, New, Reporting
<1> QED BY <1>1, <1>2, <1>3, <1>4, <1>5, <1>6, <1>7, <1>8 DEF HubNext

(* The machine moves no terminal; a new connection stashes the list.       *)
LEMMA MachinePlaced ==
  ASSUME RegInv, Placed, MachineNext
  PROVE  Placed'
<1>1. CASE Connect
  <2>1. /\ stash' \in {live, stash} /\ live' = Empty /\ taken' = Idle /\ UNCHANGED <<rows, edit, cut>>
    BY <1>1 DEF Connect, Stashed
  <2> QED BY <2>1, EmptyList DEF Placed, InPlace, Place, Active, ActiveRows
<1>2. CASE ~Connect
  <2>1. UNCHANGED <<live, stash, taken, rows, edit, cut>>
    BY <1>2 DEF MachineNext, Greet, CreateFails, DestroyTerminal, CreateTerminal, TakeCommand,
       InsertTerminal, AnswerCreated, MachineLosesConn, RestartMachine, ShellExits, WatchDeath, hubState
  <2> QED BY <2>1 DEF Placed, InPlace, Place, Active, ActiveRows
<1> QED BY <1>1, <1>2

(* Every step of the hub keeps the active terminals in their places.       *)
LEMMA HubLosesConnPlaced ==
  ASSUME RegInv, Placed, NEW c \in 1..MaxConns, HubLosesConn(c)
  PROVE  Placed'
<1>1. /\ UNCHANGED <<rows, edit>> /\ cut \subseteq cut'
      /\ live' \in {live, Empty} /\ stash' \in {live, stash} /\ taken' \in {taken, Idle}
  BY DEF HubLosesConn, UnregisterStash
<1>2. \A t \in Terminals : Place(t)' = Place(t) /\ (Active(t)' <=> Active(t))
  BY <1>1 DEF Place, Active, ActiveRows
<1>3. \A t \in Terminals \ cut' : t \in Terminals \ cut
  BY <1>1
<1>4. InPlace(live)' /\ InPlace(stash)'
  BY <1>1, EmptyList DEF Placed, InPlace, Place, Active, ActiveRows
<1>5. taken' # Idle => InPlace(taken.stash)'
  BY <1>1 DEF Placed, InPlace, Place, Active, ActiveRows
<1> QED BY <1>4, <1>5 DEF Placed

LEMMA TakeStashPlaced ==
  ASSUME RegInv, Placed, TakeStash
  PROVE  Placed'
<1>1. /\ UNCHANGED <<rows, edit, cut, live>> /\ stash' = Empty /\ taken'.stash = stash
  BY DEF TakeStash
<1> QED BY <1>1, EmptyList DEF Placed, InPlace, Place, Active, ActiveRows

(* A reported terminal is back in the tab it had in the stash; one that    *)
(* was not stashed has no active row, since the hub forgets none.          *)
LEMMA ReconcilePlaced ==
  ASSUME RegInv, Unlisted, Placed, Reconcile
  PROVE  Placed'
<1>1. /\ taken # Idle /\ taken' = Idle /\ UNCHANGED <<stash, edit, cut>>
      /\ live' = [t \in DOMAIN live \union taken.ids |->
                    IF t \in taken.ids THEN RestoredTab(t) ELSE live[t]]
      /\ rows' = [t \in Terminals |->
                    CASE t \in taken.ids \ DOMAIN taken.stash -> Inserted(rows[t])
                      [] t \in DOMAIN taken.stash \ taken.ids -> MarkDestroyed(rows[t])
                      [] OTHER -> rows[t]]
  BY DEF Reconcile
<1>2. DOMAIN live = {} /\ DOMAIN stash = {} /\ taken.ids \subseteq Terminals
  BY <1>1, ListsTyped DEF Unlisted, RegInv, Remembered
<1>3. ASSUME NEW t \in taken.ids, t \notin cut, rows'[t].state = "active"
      PROVE  live'[t] = IF edit # Idle /\ edit.id = t THEN edit.tab ELSE rows'[t].tab
  <2>1. live'[t] = RestoredTab(t)
    BY <1>1, <1>2
  <2>2. CASE t \in DOMAIN taken.stash
    <3>1. rows'[t] = rows[t]
      BY <1>1, <1>2, <2>2
    <3>2. taken.stash[t] = Place(t)
      BY <1>1, <1>2, <1>3, <2>2, <3>1 DEF Placed, InPlace, Active, ActiveRows
    <3> QED BY <2>1, <2>2, <3>1, <3>2 DEF RestoredTab, Place
  <2>3. CASE t \notin DOMAIN taken.stash
    <3>1. rows'[t] = Inserted(rows[t]) /\ t \notin Held
      BY <1>1, <1>2, <2>3 DEF Held
    <3>2. rows[t].state # "active"
      BY <1>2, <1>3, <3>1 DEF RegInv, Remembered, NoRowForgotten, Active, ActiveRows
    <3>3. rows[t].state = "none"
      BY <1>2, <1>3, <3>1, <3>2, RowsTyped, RowSteps
    <3>4. rows'[t] = NewRow /\ (edit # Idle => edit.id # t)
      BY <3>1, <3>3 DEF Inserted, RegInv, Accounted
    <3> QED BY <2>1, <2>3, <3>4 DEF RestoredTab, NewRow
  <2> QED BY <2>2, <2>3
<1>4. DOMAIN live' = taken.ids
  BY <1>1, <1>2
<1>5. InPlace(live)'
  BY <1>1, <1>3, <1>4 DEF InPlace, Place, Active, ActiveRows
<1>6. InPlace(stash)'
  BY <1>1, <1>2 DEF InPlace
<1> QED BY <1>1, <1>5, <1>6 DEF Placed

LEMMA HandleCreatedPlaced ==
  ASSUME RegInv, News, Placed, HandleCreated
  PROVE  Placed'
<1> DEFINE t == Head(up).id
<1>1. /\ up # <<>> /\ Head(up).kind = "created" /\ taken = Idle /\ taken' = Idle /\ up' = Tail(up)
      /\ live' = [u \in DOMAIN live \union {t} |-> IF u = t THEN NoTab ELSE live[u]]
      /\ rows' = [rows EXCEPT ![t] = Inserted(rows[t])]
      /\ UNCHANGED <<stash, edit, cut, Ready, Running>>
  BY MachineStill DEF HandleCreated
<1>2. Head(up) \in Messages /\ DOMAIN stash = {}
  BY <1>1, HubTakes
<1>3. t \in Terminals
  BY <1>1, <1>2 DEF Messages
<1>4. Announced(t)
  <2>1. up \in Seq(Messages)
    BY DEF RegInv, RegistryTypeOK
  <2>2. 1 \in 1..Len(up) /\ Head(up) = up[1]
    BY <1>1, <2>1
  <2> QED BY <1>1, <2>2 DEF Announced
<1> HIDE DEF t
<1>5. rows[t].state = "none" /\ (edit # Idle => edit.id # t)
  BY <1>3, <1>4 DEF News, New, RegInv, Accounted
<1>6. \A u \in Terminals : rows'[u] = IF u = t THEN NewRow ELSE rows[u]
  BY <1>1, <1>3, <1>5, RowsTyped DEF Inserted
<1>7. DOMAIN live \subseteq Terminals
  BY ListsTyped
<1>8. ASSUME NEW u \in (DOMAIN live \union {t}) \ cut, rows'[u].state = "active"
      PROVE  live'[u] = IF edit # Idle /\ edit.id = u THEN edit.tab ELSE rows'[u].tab
  <2>1. CASE u = t
    BY <1>1, <1>3, <1>5, <1>6, <2>1 DEF NewRow
  <2>2. CASE u # t
    <3>1. u \in DOMAIN live \ cut /\ rows'[u] = rows[u] /\ live'[u] = live[u]
      BY <1>1, <1>6, <1>7, <1>8, <2>2
    <3>2. live[u] = Place(u)
      BY <1>7, <1>8, <3>1 DEF Placed, InPlace, Active, ActiveRows
    <3> QED BY <3>1, <3>2 DEF Place
  <2> QED BY <2>1, <2>2
<1>9. DOMAIN live' = DOMAIN live \union {t}
  BY <1>1
<1>10. InPlace(live)'
  BY <1>1, <1>8, <1>9 DEF InPlace, Place, Active, ActiveRows
<1>11. InPlace(stash)'
  BY <1>1, <1>2 DEF InPlace
<1> QED BY <1>1, <1>10, <1>11 DEF Placed

LEMMA HandleDestroyedPlaced ==
  ASSUME RegInv, Placed, HandleDestroyed
  PROVE  Placed'
<1> DEFINE t == Head(up).id
<1>1. /\ up # <<>> /\ Head(up).kind = "destroyed" /\ taken = Idle /\ taken' = Idle /\ up' = Tail(up)
      /\ live' = Restrict(live, DOMAIN live \ {t})
      /\ rows' = [rows EXCEPT ![t] = MarkDestroyed(rows[t])]
      /\ UNCHANGED <<stash, edit, cut, Ready, Running>>
  BY MachineStill DEF HandleDestroyed, Forget
<1>2. DOMAIN stash = {}
  BY <1>1, HubTakes
<1> HIDE DEF t
<1>3. DOMAIN live' = DOMAIN live \ {t} /\ DOMAIN live \subseteq Terminals
  BY <1>1, ListsTyped DEF Restrict
<1>4. \A u \in DOMAIN live' : live'[u] = live[u] /\ rows'[u] = rows[u]
  BY <1>1, <1>3, RowsTyped DEF Restrict
<1>5. ASSUME NEW u \in DOMAIN live' \ cut, rows'[u].state = "active"
      PROVE  live'[u] = IF edit # Idle /\ edit.id = u THEN edit.tab ELSE rows'[u].tab
  <2>1. u \in DOMAIN live \ cut /\ Active(u)
    BY <1>3, <1>4, <1>5 DEF Active, ActiveRows
  <2> QED BY <1>4, <2>1 DEF Placed, InPlace, Place
<1>6. InPlace(live)'
  BY <1>1, <1>5 DEF InPlace, Place, Active, ActiveRows
<1>7. InPlace(stash)'
  BY <1>1, <1>2 DEF InPlace
<1> QED BY <1>1, <1>6, <1>7 DEF Placed

(* An assignment finds its terminal in one list, and is in both memory and *)
(* database when it ends.                                                  *)
LEMMA AssignInMemoryPlaced ==
  ASSUME RegInv, Unlisted, Placed, NEW t \in Terminals, NEW tab \in Tabs \union {NoTab},
         AssignInMemory(t, tab)
  PROVE  Placed'
<1>1. /\ edit = Idle /\ edit' = [at |-> "memory", id |-> t, tab |-> tab] /\ edit' # Idle
      /\ UNCHANGED <<taken, rows, cut>>
      /\ \/ t \in DOMAIN live /\ live' = [live EXCEPT ![t] = tab] /\ stash' = stash
         \/ t \in DOMAIN stash /\ stash' = [stash EXCEPT ![t] = tab] /\ live' = live
  BY DEF AssignInMemory, Idle
<1>2. taken = Idle /\ (DOMAIN live = {} \/ DOMAIN stash = {})
  BY <1>1 DEF Unlisted, RegInv, Remembered
<1>3. \A u \in Terminals : Place(u)' = IF u = t THEN tab ELSE Place(u)
  BY <1>1 DEF Place
<1>4. DOMAIN live \subseteq Terminals /\ DOMAIN stash \subseteq Terminals
  BY ListsTyped
<1>5. /\ DOMAIN live' = DOMAIN live /\ DOMAIN stash' = DOMAIN stash
      /\ \A u \in DOMAIN live : live'[u] = IF u = t THEN tab ELSE live[u]
      /\ \A u \in DOMAIN stash : stash'[u] = IF u = t THEN tab ELSE stash[u]
  BY <1>1, <1>2
<1>6. InPlace(live)' /\ InPlace(stash)'
  BY <1>1, <1>3, <1>4, <1>5 DEF Placed, InPlace, Active, ActiveRows
<1> QED BY <1>1, <1>2, <1>6 DEF Placed

LEMMA AssignInDbPlaced ==
  ASSUME RegInv, Placed, AssignInDb
  PROVE  Placed'
<1>1. /\ edit # Idle /\ edit' = Idle /\ UNCHANGED <<live, stash, taken, cut>>
      /\ edit.id \in Terminals /\ edit.tab \in Tabs \union {NoTab} /\ rows[edit.id].state # "none"
      /\ rows' = [rows EXCEPT ![edit.id] = Assigned(Inserted(rows[edit.id]), edit.tab)]
  BY DEF AssignInDb, RegInv, RegistryTypeOK, Accounted
<1>2. rows[edit.id] \in RowSet /\ Inserted(rows[edit.id]) = rows[edit.id]
  BY <1>1, RowsTyped, RowSteps
<1>3. /\ rows'[edit.id].tab = edit.tab /\ rows'[edit.id].state = rows[edit.id].state
      /\ \A t \in Terminals : t # edit.id => rows'[t] = rows[t]
  <2>1. rows'[edit.id] = Assigned(rows[edit.id], edit.tab)
    BY <1>1, <1>2, RowsTyped
  <2>2. \A t \in Terminals : t # edit.id => rows'[t] = rows[t]
    BY <1>1, RowsTyped
  <2>3. /\ Assigned(rows[edit.id], edit.tab).tab = edit.tab
        /\ Assigned(rows[edit.id], edit.tab).state = rows[edit.id].state
    BY <1>2 DEF Assigned, RowSet
  <2> QED BY <2>1, <2>2, <2>3
<1>4. \A t \in Terminals : (IF edit' # Idle /\ edit'.id = t THEN edit'.tab ELSE rows'[t].tab) = Place(t)
  BY <1>1, <1>3 DEF Place
<1>5. \A t \in Terminals : rows'[t].state = "active" => rows[t].state = "active"
  BY <1>3
<1>6. /\ DOMAIN live \subseteq Terminals /\ DOMAIN stash \subseteq Terminals
      /\ taken # Idle => DOMAIN taken.stash \subseteq Terminals
  BY ListsTyped
<1>7. InPlace(live)' /\ InPlace(stash)'
  BY <1>1, <1>4, <1>5, <1>6 DEF Placed, InPlace, Place, Active, ActiveRows
<1>8. taken # Idle => InPlace(taken.stash)'
  BY <1>1, <1>4, <1>5, <1>6 DEF Placed, InPlace, Place, Active, ActiveRows
<1> QED BY <1>1, <1>7, <1>8 DEF Placed

LEMMA RestartHubPlaced ==
  ASSUME RegInv, Placed, RestartHub
  PROVE  Placed'
<1>1. stash' = LoadedStash /\ live' = Empty /\ taken' = Idle /\ edit' = Idle /\ rows' = rows
  BY DEF RestartHub
<1> QED BY <1>1, EmptyList DEF Placed, InPlace, Place, Active, ActiveRows, LoadedStash

LEMMA HubPlaced ==
  ASSUME RegInv, Unlisted, News, Placed, HubNext
  PROVE  Placed'
<1>1. CASE AskCreate \/ \E t \in Terminals : AskDestroy(t)
  <2>1. UNCHANGED <<live, stash, taken, rows, edit, cut>>
    BY <1>1 DEF AskCreate, AskDestroy, Send, hubState
  <2> QED BY <2>1 DEF Placed, InPlace, Place, Active, ActiveRows
<1> QED BY <1>1, HubLosesConnPlaced, TakeStashPlaced, ReconcilePlaced, HandleCreatedPlaced,
           HandleDestroyedPlaced, AssignInMemoryPlaced, AssignInDbPlaced, RestartHubPlaced DEF HubNext

LEMMA NextPlaceInv == PlaceInv /\ [RegistryNext]_registryVars => PlaceInv'
<1> SUFFICES ASSUME PlaceInv, [RegistryNext]_registryVars PROVE PlaceInv'
  OBVIOUS
<1>1. RegInv'
  BY NextRegInv DEF PlaceInv
<1>2. CASE MachineNext
  BY <1>1, <1>2, MachineNews, MachinePlaced DEF PlaceInv
<1>3. CASE HubNext
  BY <1>1, <1>3, HubNews, HubPlaced DEF PlaceInv
<1>4. CASE UNCHANGED registryVars
  <2>1. UNCHANGED <<making, cur, greeted, up, live, stash, taken, rows, edit, cut>>
    BY <1>4 DEF registryVars, machine, wire, hubState
  <2>2. Unlisted' /\ News'
    BY <2>1, Silent, ComingStill DEF PlaceInv
  <2>3. Placed'
    BY <2>1 DEF PlaceInv, Placed, InPlace, Place, Active, ActiveRows
  <2> QED BY <1>1, <2>2, <2>3 DEF PlaceInv
<1> QED BY <1>2, <1>3, <1>4 DEF RegistryNext

(* A terminal the hub lists stays in the tab the database has for it:      *)
(* neither a reconnection nor a restart of either process moves it, and no *)
(* assignment is lost to one.                                              *)
THEOREM TabsAreKept == RegistrySpec => []TabKept
<1>1. PlaceInv => TabKept
  BY ListsTyped DEF PlaceInv, Placed, InPlace, Place, TabKept
<1> QED BY <1>1, InitPlaceInv, NextPlaceInv, PTL DEF RegistrySpec
=============================================================================
