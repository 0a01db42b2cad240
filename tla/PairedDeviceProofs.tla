-------------------------- MODULE PairedDeviceProofs --------------------------
(***************************************************************************)
(* Pairing is safe for any number of apps, hubs, codes, keys and addresses: *)
(* a code lets one device in, a registered device is within its app's      *)
(* reach until its code expires, and what an app shows is what it can use. *)
(***************************************************************************)
EXTENDS PairedDevice, TLAPS

Pairing(a) == doing[a].at \in {"pairing", "ready", "marked", "kept"}

\* An app's records agree with each other at every step of its work.
AppInv(a) ==
  /\ Pairing(a) => candidate[a] = Cred(a)
  /\ doing[a].at \in {"ready", "marked", "kept"} => device[Cred(a).key] # NoDevice
  /\ doing[a].at \in {"marked", "kept"} =>
       /\ marker[a] # Nil
       /\ marker[a].key = Cred(a).key /\ marker[a].hub = Cred(a).hub
  /\ At(a, "kept") =>
       /\ connection[a] # Nil
       /\ connection[a].key = Cred(a).key /\ connection[a].hub = Cred(a).hub
  /\ At(a, "forget") /\ candidate[a] # Nil => candidate[a].key \in left[a]
  /\ marker[a] # Nil /\ ~ Matches(a) => marker[a].key \in KeysOf(a) \union left[a]
  /\ session[a] # Nil /\ ~ At(a, "kept") =>
       /\ connection[a] # Nil
       /\ session[a].key = connection[a].key /\ session[a].hub = connection[a].hub

\* Whoever made the key k for the code c still has it, or has turned from it.
Claimed(k, c) ==
  \E a \in Apps :
    \/ candidate[a] # Nil /\ candidate[a].key = k /\ candidate[a].code = c
    \/ k \in left[a]

Connected(k) == \E a \in Apps : connection[a] # Nil /\ connection[a].key = k

HubInv ==
  /\ \A k \in Keys, c \in Codes :
       <<k, c>> \in late => device[k] # NoDevice \/ Claimed(k, c)
  /\ \A k \in Keys : device[k] # NoDevice =>
       /\ code[device[k].by].key = k
       /\ Connected(k) \/ Claimed(k, device[k].by)

PairingInv == TypeOK /\ (\A a \in Apps : AppInv(a)) /\ HubInv

-----------------------------------------------------------------------------
LEMMA InitPairingInv == Init => PairingInv
<1> SUFFICES ASSUME Init PROVE PairingInv
  OBVIOUS
<1>1. TypeOK
  BY MovesAssumption DEF Init, TypeOK, NoCode, NoDevice, Idle
<1>2. ASSUME NEW a \in Apps PROVE AppInv(a)
  BY <1>2 DEF Init, AppInv, Pairing, At, Idle
<1>3. HubInv
  BY DEF Init, HubInv
<1> QED BY <1>1, <1>2, <1>3 DEF PairingInv

(* What an app's records are.                                              *)
LEMMA Records ==
  ASSUME TypeOK, NEW a \in Apps
  PROVE  /\ candidate[a] = Nil \/ candidate[a] \in Credential
         /\ connection[a] = Nil \/ connection[a] \in [key : Keys, hub : Hubs]
         /\ marker[a] = Nil \/ marker[a] \in [key : Keys, hub : Hubs, url : Addresses,
                                              routes : SUBSET Addresses]
         /\ session[a] = Nil \/ session[a] \in [key : Keys, hub : Hubs, url : Addresses]
         /\ Pairing(a) => Cred(a) \in Credential
                         /\ doing[a] = [at |-> doing[a].at, cred |-> Cred(a)]
         /\ left[a] \subseteq Keys
BY DEF TypeOK, Pairing, Cred, Idle

LEMMA TurnTypes ==
  ASSUME TypeOK, NEW a \in Apps, NEW work, Turn(a, work),
         \/ work = Idle
         \/ work \in [at : {"forget", "unlist"}]
         \/ work \in [at : {"pairing", "ready", "marked", "kept"}, cred : Credential]
  PROVE  /\ doing' \in [Apps -> {Idle} \union [at : {"forget", "unlist"}]
               \union [at : {"pairing", "ready", "marked", "kept"}, cred : Credential]]
         /\ doing'[a] = work
         /\ \A b \in Apps : b # a => doing'[b] = doing[b]
BY DEF TypeOK, Turn

LEMMA StepTypes ==
  ASSUME TypeOK, NEW a \in Apps, NEW step, Step(a, step),
         \/ Pairing(a) /\ step \in {"ready", "marked", "kept"}
         \/ At(a, "forget") /\ step = "unlist"
  PROVE  /\ doing' \in [Apps -> {Idle} \union [at : {"forget", "unlist"}]
               \union [at : {"pairing", "ready", "marked", "kept"}, cred : Credential]]
         /\ doing'[a].at = step
         /\ Pairing(a) => doing'[a].cred = Cred(a)
         /\ \A b \in Apps : b # a => doing'[b] = doing[b]
<1> DEFINE work == [doing[a] EXCEPT !.at = step]
<1>1. CASE Pairing(a) /\ step \in {"ready", "marked", "kept"}
  <2>1. doing[a] \in [at : {"pairing", "ready", "marked", "kept"}, cred : Credential]
    BY <1>1 DEF TypeOK, Pairing, Idle
  <2>2. /\ work \in [at : {"pairing", "ready", "marked", "kept"}, cred : Credential]
        /\ work.at = step /\ work.cred = Cred(a)
    BY <1>1, <2>1 DEF Cred
  <2>3. Turn(a, work)
    BY DEF Step
  <2> HIDE DEF work
  <2> QED BY <2>2, <2>3, TurnTypes
<1>2. CASE At(a, "forget") /\ step = "unlist"
  <2>1. doing[a] \in [at : {"forget", "unlist"}]
    BY <1>2 DEF TypeOK, At, Idle
  <2>2. work \in [at : {"forget", "unlist"}] /\ work.at = step /\ ~ Pairing(a)
    BY <1>2, <2>1 DEF Pairing, At
  <2>3. Turn(a, work)
    BY DEF Step
  <2> HIDE DEF work
  <2> QED BY <2>2, <2>3, TurnTypes
<1> QED BY <1>1, <1>2

LEMMA RegisterTypes ==
  ASSUME TypeOK, NEW c \in Codes, NEW k \in Keys, Register(c, k)
  PROVE  /\ code' \in [Codes -> {NoCode} \union [at : {"fresh", "expired"}, hub : Hubs,
                                        url : Addresses, key : Keys \union {Nil}]]
         /\ device' \in [Keys -> {NoDevice} \union [at : {"active", "revoked"}, hub : Hubs, by : Codes]]
         /\ \A j \in Keys : device[j] # NoDevice => device'[j] = device[j]
         /\ \A j \in Keys : device'[j] # device[j] =>
              /\ j = k /\ device'[j].by = c /\ code'[c].key = k
         /\ \A d \in Codes : code[d].key # Nil => code'[d] = code[d]
         /\ Unused(c, k) => device'[k] # NoDevice
<1>1. CASE Unused(c, k)
  <2>1. code[c] \in [at : {"fresh", "expired"}, hub : Hubs, url : Addresses, key : Keys \union {Nil}]
    BY <1>1 DEF Unused, TypeOK, NoCode
  <2>2. /\ device' = [device EXCEPT ![k] = [at |-> "active", hub |-> code[c].hub, by |-> c]]
        /\ code' = [code EXCEPT ![c].key = k]
        /\ code[c].key = Nil /\ device[k] = NoDevice
    BY <1>1 DEF Register, Unused
  <2>3. [at |-> "active", hub |-> code[c].hub, by |-> c]
          \in [at : {"active", "revoked"}, hub : Hubs, by : Codes]
    BY <2>1
  <2>4. [code[c] EXCEPT !.key = k]
          \in [at : {"fresh", "expired"}, hub : Hubs, url : Addresses, key : Keys \union {Nil}]
    BY <2>1
  <2>5. /\ code'[c] = [code[c] EXCEPT !.key = k] /\ \A d \in Codes : d # c => code'[d] = code[d]
        /\ code' \in [Codes -> {NoCode} \union [at : {"fresh", "expired"}, hub : Hubs,
                                        url : Addresses, key : Keys \union {Nil}]]
    BY <2>2, <2>4 DEF TypeOK
  <2>6. /\ device'[k] = [at |-> "active", hub |-> code[c].hub, by |-> c]
        /\ \A j \in Keys : j # k => device'[j] = device[j]
        /\ device' \in [Keys -> {NoDevice} \union [at : {"active", "revoked"}, hub : Hubs, by : Codes]]
    BY <2>2, <2>3 DEF TypeOK
  <2>7. code'[c].key = k
    BY <2>1, <2>5
  <2>8. device'[k] # NoDevice /\ device'[k].by = c
    BY <2>6 DEF NoDevice
  <2> QED BY <2>2, <2>5, <2>6, <2>7, <2>8
<1>2. CASE ~ Unused(c, k)
  BY <1>2 DEF Register, TypeOK
<1> QED BY <1>1, <1>2

LEMMA HubTypes ==
  ASSUME TypeOK, HubStep PROVE TypeOK'
<1>1. ASSUME NEW c \in Codes, Expire(c) PROVE TypeOK'
  <2>1. code[c] \in [at : {"fresh", "expired"}, hub : Hubs, url : Addresses, key : Keys \union {Nil}]
    BY <1>1 DEF Expire, TypeOK, NoCode
  <2>2. [code[c] EXCEPT !.at = "expired"]
          \in [at : {"fresh", "expired"}, hub : Hubs, url : Addresses, key : Keys \union {Nil}]
    BY <2>1
  <2> QED BY <1>1, <2>2 DEF Expire, TypeOK, net, stored
<1>2. ASSUME NEW c \in Codes, NEW x \in Addresses, Mint(c, x) PROVE TypeOK'
  BY <1>2 DEF Mint, TypeOK, net, stored
<1>3. ASSUME NEW k \in Keys, Revoke(k) PROVE TypeOK'
  <2>1. device[k] \in [at : {"active", "revoked"}, hub : Hubs, by : Codes]
    BY <1>3 DEF Revoke, TypeOK, NoDevice
  <2>2. [device[k] EXCEPT !.at = "revoked"] \in [at : {"active", "revoked"}, hub : Hubs, by : Codes]
    BY <2>1
  <2> QED BY <1>3, <2>2 DEF Revoke, TypeOK, net, stored
<1>4. ASSUME NEW k \in Keys, NEW c \in Codes, PairLate(k, c) PROVE TypeOK'
  <2>1. Register(c, k)
    BY <1>4 DEF PairLate
  <2> QED BY <1>4, <2>1, RegisterTypes DEF PairLate, TypeOK, net, stored
<1> QED BY <1>1, <1>2, <1>3, <1>4 DEF HubStep

LEMMA AppTypes ==
  ASSUME TypeOK, NEW a \in Apps, AppStep(a) PROVE TypeOK'
<1>0. /\ Pairing(a) => Cred(a) \in Credential
      /\ candidate[a] # Nil => candidate[a] \in Credential
      /\ connection[a] # Nil => connection[a] \in [key : Keys, hub : Hubs]
      /\ marker[a] # Nil => marker[a] \in [key : Keys, hub : Hubs, url : Addresses,
                                           routes : SUBSET Addresses]
  BY Records
<1>1. ASSUME NEW c \in Codes, Scan(a, c) PROVE TypeOK'
  <2>1. code[c] \in [at : {"fresh", "expired"}, hub : Hubs, url : Addresses, key : Keys \union {Nil}]
    BY <1>1 DEF Scan, TypeOK
  <2>2. PICK k \in IF Reuses(a, c) THEN {candidate[a].key} ELSE Keys \ Taken :
          LET cred == [key |-> k, hub |-> code[c].hub, url |-> code[c].url, code |-> c]
          IN  /\ candidate' = [candidate EXCEPT ![a] = cred]
              /\ Turn(a, [at |-> "pairing", cred |-> cred])
    BY <1>1 DEF Scan
  <2>3. k \in Keys
    BY <1>0, <2>2 DEF Reuses, Credential
  <2> DEFINE cred == [key |-> k, hub |-> code[c].hub, url |-> code[c].url, code |-> c]
  <2>4. cred \in Credential
    BY <2>1, <2>3 DEF Credential
  <2>5. candidate' = [candidate EXCEPT ![a] = cred] /\ Turn(a, [at |-> "pairing", cred |-> cred])
    BY <2>2
  <2> HIDE DEF cred
  <2>6. candidate' \in [Apps -> Credential \union {Nil}]
    BY <2>4, <2>5 DEF TypeOK
  <2>7. left' \in [Apps -> SUBSET Keys]
    BY <1>0, <1>1 DEF Scan, Abandon, TypeOK, Credential
  <2>8. doing' \in [Apps -> {Idle} \union [at : {"forget", "unlist"}]
               \union [at : {"pairing", "ready", "marked", "kept"}, cred : Credential]]
    BY <2>4, <2>5, TurnTypes
  <2> QED BY <1>1, <2>6, <2>7, <2>8 DEF Scan, TypeOK, hub, net
<1>2. CASE Pair(a)
  <2>1. Cred(a) \in Credential /\ Pairing(a)
    BY <1>0, <1>2 DEF Pair, Pairing, At
  <2>2. Register(Cred(a).code, Cred(a).key) /\ (Step(a, "ready") \/ Turn(a, Idle))
    BY <1>2 DEF Pair
  <2> QED BY <1>2, <2>1, <2>2, RegisterTypes, StepTypes, TurnTypes
          DEF Pair, TypeOK, Credential, net, stored
<1>3. CASE GiveUp(a)
  <2>1. Cred(a) \in Credential
    BY <1>0, <1>3 DEF GiveUp, Pairing, At
  <2>2. late' \subseteq Keys \X Codes
    BY <1>3, <2>1 DEF GiveUp, TypeOK, Credential
  <2>3. Turn(a, Idle)
    BY <1>3 DEF GiveUp
  <2> QED BY <1>3, <2>2, <2>3, TurnTypes DEF GiveUp, TypeOK, net, stored
<1>4. CASE SaveMarker(a)
  <2>1. Cred(a) \in Credential /\ Pairing(a)
    BY <1>0, <1>4 DEF SaveMarker, Pairing, At
  <2>2. Step(a, "marked") \/ Turn(a, Idle)
    BY <1>4 DEF SaveMarker
  <2>3. marker' \in [Apps -> [key : Keys, hub : Hubs, url : Addresses,
                             routes : SUBSET Addresses] \union {Nil}]
    <3>1. CASE marker' = marker
      BY <3>1 DEF TypeOK
    <3>2. CASE \E found \in {{}, Advertised(Cred(a).hub)} :
             marker' = [marker EXCEPT ![a] =
               [key |-> Cred(a).key, hub |-> Cred(a).hub, url |-> Cred(a).url,
                routes |-> {Cred(a).url} \union found]]
      <4>1. PICK found \in {{}, Advertised(Cred(a).hub)} :
             marker' = [marker EXCEPT ![a] =
               [key |-> Cred(a).key, hub |-> Cred(a).hub, url |-> Cred(a).url,
                routes |-> {Cred(a).url} \union found]]
        BY <3>2
      <4>2. {Cred(a).url} \union found \subseteq Addresses
        BY <2>1, <4>1 DEF Advertised, Credential
      <4> QED BY <2>1, <4>1, <4>2 DEF TypeOK, Credential
    <3> QED BY <1>4, <3>1, <3>2 DEF SaveMarker
  <2> QED BY <1>4, <2>1, <2>2, <2>3, StepTypes, TurnTypes DEF SaveMarker, TypeOK, hub, net
<1>5. CASE SaveConnection(a)
  <2>1. Cred(a) \in Credential /\ Pairing(a)
    BY <1>0, <1>5 DEF SaveConnection, Pairing, At
  <2>2. Step(a, "kept") \/ Turn(a, Idle)
    BY <1>5 DEF SaveConnection
  <2>3. connection' \in [Apps -> [key : Keys, hub : Hubs] \union {Nil}]
    BY <1>5, <2>1 DEF SaveConnection, TypeOK, Credential
  <2>4. left' \in [Apps -> SUBSET Keys]
    BY <1>0, <1>5 DEF SaveConnection, Abandon, TypeOK
  <2> QED BY <1>5, <2>1, <2>2, <2>3, <2>4, StepTypes, TurnTypes DEF SaveConnection, TypeOK, hub, net
<1>6. CASE Finish(a)
  <2>1. Cred(a) \in Credential
    BY <1>0, <1>6 DEF Finish, Pairing, At
  <2>2. session' \in [Apps -> [key : Keys, hub : Hubs, url : Addresses] \union {Nil}]
    BY <1>6, <2>1 DEF Finish, TypeOK, Credential
  <2>3. candidate' \in [Apps -> Credential \union {Nil}] /\ Turn(a, Idle)
    BY <1>6 DEF Finish, TypeOK
  <2> QED BY <1>6, <2>2, <2>3, TurnTypes DEF Finish, TypeOK, hub, net
<1>7. ASSUME NEW x \in Addresses, Matches(a), Connect(a, x)
      PROVE  session' \in [Apps -> [key : Keys, hub : Hubs, url : Addresses] \union {Nil}]
  BY <1>0, <1>7 DEF Matches, Connect, TypeOK
<1>8. CASE Resume(a)
  <2>1. marker[a].url \in Addresses /\ Matches(a) /\ Connect(a, marker[a].url)
    BY <1>0, <1>8 DEF Resume, Verified
  <2> QED BY <1>7, <1>8, <2>1 DEF Resume, TypeOK, hub, net, stored
<1>9. ASSUME NEW x \in Addresses, Switch(a, x) PROVE TypeOK'
  <2>1. Matches(a) /\ Connect(a, x) /\ marker[a] # Nil /\ marker' = [marker EXCEPT ![a].url = x]
    BY <1>9 DEF Switch, Verified
  <2>2. marker' \in [Apps -> [key : Keys, hub : Hubs, url : Addresses,
                             routes : SUBSET Addresses] \union {Nil}]
    <3>1. [marker[a] EXCEPT !.url = x] \in [key : Keys, hub : Hubs, url : Addresses, routes : SUBSET Addresses]
      BY <1>0, <2>1
    <3> QED BY <2>1, <3>1 DEF TypeOK
  <2> QED BY <1>7, <1>9, <2>1, <2>2 DEF Switch, TypeOK, hub, net
<1>10. CASE Refresh(a)
  <2>1. marker[a] # Nil
    BY <1>10 DEF Refresh
  <2>2. PICK x \in marker[a].routes :
          marker' = [marker EXCEPT ![a].routes = {marker[a].url} \union Advertised(answers[x])]
    BY <1>10 DEF Refresh
  <2>3. {marker[a].url} \union Advertised(answers[x]) \in SUBSET Addresses
    BY <1>0, <2>1 DEF Advertised
  <2>4. [marker[a] EXCEPT !.routes = {marker[a].url} \union Advertised(answers[x])]
          \in [key : Keys, hub : Hubs, url : Addresses, routes : SUBSET Addresses]
    BY <1>0, <2>1, <2>3
  <2> QED BY <1>10, <2>2, <2>4 DEF Refresh, TypeOK, hub, net
<1>11. CASE Disconnect(a) \/ Recheck(a)
  BY <1>11 DEF Disconnect, Recheck, TypeOK, hub, net, stored
<1>12. CASE Forget(a)
  <2>1. KeysOf(a) \subseteq Keys
    BY <1>0 DEF KeysOf, Credential
  <2>2. left' \in [Apps -> SUBSET Keys]
    BY <1>12, <2>1 DEF Forget, Abandon, TypeOK
  <2>3. connection' \in [Apps -> [key : Keys, hub : Hubs] \union {Nil}]
        /\ session' \in [Apps -> [key : Keys, hub : Hubs, url : Addresses] \union {Nil}]
    BY <1>12 DEF Forget, TypeOK
  <2>4. Turn(a, [at |-> "forget"]) \/ doing' = doing
    BY <1>12 DEF Forget
  <2> QED BY <1>12, <2>2, <2>3, <2>4, TurnTypes DEF Forget, TypeOK, hub, net
<1>13. CASE ForgetCandidate(a)
  <2>1. candidate' \in [Apps -> Credential \union {Nil}]
    BY <1>13 DEF ForgetCandidate, TypeOK
  <2>2. At(a, "forget") /\ (Step(a, "unlist") \/ Turn(a, Idle))
    BY <1>13 DEF ForgetCandidate
  <2> QED BY <1>13, <2>1, <2>2, StepTypes, TurnTypes DEF ForgetCandidate, TypeOK, hub, net
<1>14. CASE ForgetMarker(a)
  <2>1. Turn(a, Idle)
    BY <1>14 DEF ForgetMarker
  <2> QED BY <1>14, <2>1, TurnTypes DEF ForgetMarker, TypeOK, hub, net
<1>15. CASE Crash(a)
  <2>1. Turn(a, Idle)
    BY <1>15 DEF Crash
  <2> QED BY <1>15, <2>1, TurnTypes DEF Crash, TypeOK, hub, net, stored
<1> QED
  BY <1>1, <1>2, <1>3, <1>4, <1>5, <1>6, <1>8, <1>9, <1>10, <1>11, <1>12, <1>13, <1>14, <1>15
  DEF AppStep

LEMMA NextTypes ==
  ASSUME TypeOK, [Next]_vars PROVE TypeOK'
<1>1. ASSUME NEW x \in Addresses, NEW h \in Hubs, Move(x, h) PROVE TypeOK'
  BY <1>1, MovesAssumption DEF Move, TypeOK, hub, stored
<1>2. CASE UNCHANGED vars
  BY <1>2 DEF vars, hub, net, stored, TypeOK
<1> QED BY <1>1, <1>2, HubTypes, AppTypes DEF Next

-----------------------------------------------------------------------------
(* An app's step leaves the other apps' records alone.                     *)
LEMMA Alone ==
  ASSUME TypeOK, NEW a \in Apps, AppStep(a), NEW b \in Apps, b # a
  PROVE  /\ doing'[b] = doing[b] /\ session'[b] = session[b] /\ left'[b] = left[b]
         /\ candidate'[b] = candidate[b] /\ connection'[b] = connection[b]
         /\ marker'[b] = marker[b]
<1>1. doing'[b] = doing[b]
  BY DEF AppStep, Scan, Pair, GiveUp, SaveMarker, SaveConnection, Finish, Resume, Refresh, Switch,
     Forget, ForgetCandidate, ForgetMarker, Disconnect, Recheck, Crash, Turn, Step, TypeOK
<1>2. session'[b] = session[b]
  BY DEF AppStep, Scan, Pair, GiveUp, SaveMarker, SaveConnection, Finish, Resume, Refresh, Switch,
     Forget, ForgetCandidate, ForgetMarker, Disconnect, Recheck, Crash, Connect, TypeOK
<1>3. left'[b] = left[b]
  BY DEF AppStep, Scan, Pair, GiveUp, SaveMarker, SaveConnection, Finish, Resume, Refresh, Switch,
     Forget, ForgetCandidate, ForgetMarker, Disconnect, Recheck, Crash, Abandon, TypeOK
<1>4. candidate'[b] = candidate[b] /\ connection'[b] = connection[b] /\ marker'[b] = marker[b]
  BY DEF AppStep, Scan, Pair, GiveUp, SaveMarker, SaveConnection, Finish, Resume, Refresh, Switch,
     Forget, ForgetCandidate, ForgetMarker, Disconnect, Recheck, Crash, stored, TypeOK
<1> QED BY <1>1, <1>2, <1>3, <1>4

(* A registered device stays registered, under its code.                   *)
LEMMA DevicesStay ==
  ASSUME TypeOK, [Next]_vars, NEW k \in Keys, device[k] # NoDevice
  PROVE  device'[k] # NoDevice /\ device'[k].by = device[k].by
<1>1. ASSUME NEW j \in Keys, Revoke(j) PROVE device'[k] # NoDevice /\ device'[k].by = device[k].by
  <2>1. device[j] \in [at : {"active", "revoked"}, hub : Hubs, by : Codes]
    BY <1>1 DEF Revoke, TypeOK, NoDevice
  <2>2. /\ [device[j] EXCEPT !.at = "revoked"] # NoDevice
        /\ [device[j] EXCEPT !.at = "revoked"].by = device[j].by
    BY <2>1 DEF NoDevice
  <2>3. device' = [device EXCEPT ![j] = [device[j] EXCEPT !.at = "revoked"]]
    BY <1>1 DEF Revoke
  <2> QED BY <2>2, <2>3 DEF TypeOK
<1>2. ASSUME NEW j \in Keys, NEW c \in Codes, PairLate(j, c) PROVE device'[k] = device[k]
  BY <1>2, RegisterTypes DEF PairLate
<1>3. ASSUME NEW a \in Apps, Pair(a) PROVE device'[k] = device[k]
  <2>1. Cred(a).code \in Codes /\ Cred(a).key \in Keys /\ Register(Cred(a).code, Cred(a).key)
    BY <1>3, Records DEF Pair, Pairing, At, Credential
  <2> QED BY <2>1, RegisterTypes
<1>4. ASSUME NEW a \in Apps, AppStep(a), ~ Pair(a) PROVE device'[k] = device[k]
  BY <1>4 DEF AppStep, Scan, GiveUp, SaveMarker, SaveConnection, Finish, Resume, Refresh, Switch,
     Forget, ForgetCandidate, ForgetMarker, Disconnect, Recheck, Crash, hub
<1>5. ASSUME HubStep \/ (\E x \in Addresses, h \in Hubs : Move(x, h)) \/ UNCHANGED vars,
             \A j \in Keys : ~ Revoke(j) /\ \A c \in Codes : ~ PairLate(j, c)
      PROVE  device'[k] = device[k]
  BY <1>5 DEF HubStep, Expire, Mint, Move, vars, hub
<1> QED BY <1>1, <1>2, <1>3, <1>4, <1>5 DEF Next

(* What an app's invariant says depends on its own records and on which    *)
(* devices are registered.                                                 *)
LEMMA OthersKeep ==
  ASSUME TypeOK, NEW b \in Apps, AppInv(b),
         doing'[b] = doing[b], session'[b] = session[b], left'[b] = left[b],
         candidate'[b] = candidate[b], connection'[b] = connection[b], marker'[b] = marker[b],
         \A k \in Keys : device[k] # NoDevice => device'[k] # NoDevice
  PROVE  AppInv(b)'
<1>1. Pairing(b) => Cred(b).key \in Keys
  BY Records DEF Credential
<1>2. doing[b].at \in {"ready", "marked", "kept"} => device'[Cred(b).key] # NoDevice
  BY <1>1 DEF AppInv, Pairing
<1> QED BY <1>2 DEF AppInv, Pairing, At, Cred, Matches, KeysOf
(* An app's own steps keep its records in agreement.                       *)
LEMMA AppKeeps ==
  ASSUME TypeOK, TypeOK', NEW a \in Apps, AppInv(a), AppStep(a),
         \A k \in Keys : device[k] # NoDevice => device'[k] # NoDevice
  PROVE  AppInv(a)'
<1>0. /\ Pairing(a) => Cred(a) \in Credential
      /\ candidate[a] # Nil => candidate[a] \in Credential
      /\ connection[a] # Nil => connection[a] \in [key : Keys, hub : Hubs]
      /\ marker[a] # Nil => marker[a] \in [key : Keys, hub : Hubs, url : Addresses,
                                           routes : SUBSET Addresses]
      /\ Pairing(a) => candidate[a] # Nil
  BY Records, NilAssumption DEF AppInv, Credential
<1>1. ASSUME NEW c \in Codes, Scan(a, c) PROVE AppInv(a)'
  <2>1. PICK k \in IF Reuses(a, c) THEN {candidate[a].key} ELSE Keys \ Taken :
          LET cred == [key |-> k, hub |-> code[c].hub, url |-> code[c].url, code |-> c]
          IN  /\ candidate' = [candidate EXCEPT ![a] = cred]
              /\ Turn(a, [at |-> "pairing", cred |-> cred])
    BY <1>1 DEF Scan
  <2> DEFINE cred == [key |-> k, hub |-> code[c].hub, url |-> code[c].url, code |-> c]
  <2>2. /\ candidate' = [candidate EXCEPT ![a] = cred] /\ Turn(a, [at |-> "pairing", cred |-> cred])
        /\ cred.key = k
    BY <2>1
  <2> HIDE DEF cred
  <2>3. candidate'[a] = cred /\ doing'[a] = [at |-> "pairing", cred |-> cred]
    BY <2>2 DEF Turn, TypeOK
  <2>4. cred # Nil
    BY <2>3, NilAssumption DEF TypeOK, Credential, Idle
  <2>5. KeysOf(a) \union left[a] \subseteq (KeysOf(a) \union left[a])'
    BY <1>1, <2>2, <2>3, <2>4, <2>1 DEF Scan, Abandon, KeysOf, Reuses, TypeOK
  <2>6. doing[a].at = "idle" /\ UNCHANGED <<connection, marker, session>>
    BY <1>1 DEF Scan, Idle
  <2> QED BY <2>3, <2>5, <2>6 DEF AppInv, Pairing, At, Cred, Matches
<1>2. CASE Pair(a)
  <2>1. Cred(a) \in Credential /\ Pairing(a) /\ doing[a].at = "pairing"
    BY <1>0, <1>2 DEF Pair, Pairing, At
  <2>2. UNCHANGED <<stored, session, left>>
    BY <1>2 DEF Pair
  <2>3. CASE Turn(a, Idle)
    BY <2>1, <2>2, <2>3, TurnTypes DEF AppInv, Pairing, At, Cred, Matches, KeysOf, stored, Idle
  <2>4. CASE Step(a, "ready") /\ (Unused(Cred(a).code, Cred(a).key) \/ Confirms(Cred(a).code, Cred(a).key))
    <3>1. doing'[a].at = "ready" /\ doing'[a].cred = Cred(a)
      BY <2>1, <2>4, StepTypes
    <3>2. device'[Cred(a).key] # NoDevice
      <4>1. Register(Cred(a).code, Cred(a).key) /\ Cred(a).code \in Codes /\ Cred(a).key \in Keys
        BY <1>2, <2>1 DEF Pair, Credential
      <4>2. CASE Unused(Cred(a).code, Cred(a).key)
        BY <4>1, <4>2, RegisterTypes
      <4>3. CASE Confirms(Cred(a).code, Cred(a).key)
        BY <4>1, <4>3 DEF Confirms, NoDevice
      <4> QED BY <2>4, <4>2, <4>3
    <3> QED BY <2>1, <2>2, <3>1, <3>2 DEF AppInv, Pairing, At, Cred, Matches, KeysOf, stored
  <2> QED BY <1>2, <2>3, <2>4 DEF Pair
<1>3. CASE GiveUp(a)
  <2>1. UNCHANGED <<stored, session, left>> /\ Turn(a, Idle) /\ doing[a].at = "pairing"
    BY <1>3 DEF GiveUp, At
  <2> QED BY <2>1, TurnTypes DEF AppInv, Pairing, At, Cred, Matches, KeysOf, stored, Idle
<1>4. CASE SaveMarker(a)
  <2>1. /\ Cred(a) \in Credential /\ Pairing(a) /\ doing[a].at = "ready"
        /\ UNCHANGED <<candidate, connection, session, left>>
    BY <1>0, <1>4 DEF SaveMarker, Pairing, At
  <2>2. CASE marker' = marker /\ Turn(a, Idle)
    BY <2>1, <2>2, TurnTypes DEF AppInv, Pairing, At, Cred, Matches, KeysOf, Idle
  <2>3. CASE /\ \E found \in {{}, Advertised(Cred(a).hub)} :
                   marker' = [marker EXCEPT ![a] =
                     [key |-> Cred(a).key, hub |-> Cred(a).hub, url |-> Cred(a).url,
                      routes |-> {Cred(a).url} \union found]]
             /\ Step(a, "marked")
    <3>1. doing'[a].at = "marked" /\ doing'[a].cred = Cred(a)
      BY <2>1, <2>3, StepTypes
    <3>2. PICK found \in {{}, Advertised(Cred(a).hub)} : marker'[a] =
            [key |-> Cred(a).key, hub |-> Cred(a).hub, url |-> Cred(a).url,
             routes |-> {Cred(a).url} \union found]
      BY <2>3 DEF TypeOK
    <3> DEFINE rs == {Cred(a).url} \union found
    <3>3. rs \in SUBSET Addresses
      BY <2>1, <3>2 DEF Advertised, Credential
    <3>4. marker'[a] = [key |-> Cred(a).key, hub |-> Cred(a).hub, url |-> Cred(a).url, routes |-> rs]
      BY <3>2
    <3> HIDE DEF rs
    <3>6. marker'[a].key = Cred(a).key /\ marker'[a].hub = Cred(a).hub
      BY <3>4
    <3>7. marker'[a] # Nil
      BY <2>1, <3>3, <3>4, NilAssumption DEF Credential
    <3>5. candidate[a].key \in KeysOf(a)' /\ candidate[a] = Cred(a)
      BY <1>0, <2>1 DEF AppInv, KeysOf
    <3> QED BY <2>1, <3>1, <3>5, <3>6, <3>7 DEF AppInv, Pairing, At, Cred, Credential
  <2> QED BY <1>4, <2>2, <2>3 DEF SaveMarker
<1>5. CASE SaveConnection(a)
  <2>1. /\ Cred(a) \in Credential /\ Pairing(a) /\ doing[a].at = "marked"
        /\ UNCHANGED <<candidate, marker, session>>
    BY <1>0, <1>5 DEF SaveConnection, Pairing, At
  <2>2. CASE UNCHANGED <<connection, left>> /\ Turn(a, Idle)
    BY <2>1, <2>2, TurnTypes DEF AppInv, Pairing, At, Cred, Matches, KeysOf, Idle
  <2>3. CASE /\ connection' = [connection EXCEPT ![a] = [key |-> Cred(a).key, hub |-> Cred(a).hub]]
             /\ Step(a, "kept")
    <3>1. doing'[a].at = "kept" /\ doing'[a].cred = Cred(a)
      BY <2>1, <2>3, StepTypes
    <3>2. connection'[a] = [key |-> Cred(a).key, hub |-> Cred(a).hub]
      BY <2>3 DEF TypeOK
    <3>3. connection'[a] # Nil /\ connection'[a].key = Cred(a).key /\ connection'[a].hub = Cred(a).hub
      BY <2>1, <3>2, NilAssumption DEF Credential
    <3> QED BY <2>1, <3>1, <3>3 DEF AppInv, Pairing, At, Cred, Matches, Credential
  <2> QED BY <1>5, <2>2, <2>3 DEF SaveConnection
<1>6. CASE Finish(a)
  <2>1. /\ Cred(a) \in Credential /\ Pairing(a) /\ doing[a].at = "kept"
        /\ UNCHANGED <<connection, marker, left>> /\ Turn(a, Idle)
    BY <1>0, <1>6 DEF Finish, Pairing, At
  <2>2. doing'[a] = Idle
    BY <2>1, TurnTypes
  <2>3. session'[a] = Nil \/ session'[a] = [key |-> Cred(a).key, hub |-> Cred(a).hub, url |-> Cred(a).url]
    BY <1>6 DEF Finish, TypeOK
  <2>4. session'[a] = Nil \/ (session'[a].key = Cred(a).key /\ session'[a].hub = Cred(a).hub)
    BY <2>3
  <2>5. Matches(a)'
    BY <2>1 DEF AppInv, At, Matches
  <2> QED BY <2>1, <2>2, <2>4, <2>5 DEF AppInv, Pairing, At, Idle
<1>7. CASE Resume(a)
  <2>1. Matches(a) /\ answers[marker[a].url] = connection[a].hub /\ doing[a] = Idle
    BY <1>7 DEF Resume, Verified
  <2>2. session'[a] = [key |-> connection[a].key, hub |-> answers[marker[a].url], url |-> marker[a].url]
    BY <1>7 DEF Resume, Connect, TypeOK
  <2>3. session'[a].key = connection[a].key /\ session'[a].hub = connection[a].hub
    BY <2>1, <2>2
  <2> QED BY <1>7, <2>1, <2>3 DEF Resume, AppInv, Pairing, At, Matches, Idle, stored
<1>8. ASSUME NEW x \in Addresses, Switch(a, x) PROVE AppInv(a)'
  <2>1. Matches(a) /\ answers[x] = connection[a].hub /\ doing[a] = Idle
    BY <1>8 DEF Switch, Verified
  <2>2. session'[a] = [key |-> connection[a].key, hub |-> answers[x], url |-> x]
    BY <1>8 DEF Switch, Connect, TypeOK
  <2>3. session'[a].key = connection[a].key /\ session'[a].hub = connection[a].hub
    BY <2>1, <2>2
  <2>4. marker'[a] = [marker[a] EXCEPT !.url = x] /\ marker[a] # Nil
    BY <1>8 DEF Switch, TypeOK
  <2>5. marker'[a].key = marker[a].key /\ marker'[a].hub = marker[a].hub
    BY <1>0, <2>4
  <2>6. marker'[a] # Nil
    BY <1>0, <2>4, NilAssumption
  <2>7. Matches(a)'
    BY <1>8, <2>1, <2>5, <2>6 DEF Switch, Matches
  <2> QED BY <1>8, <2>1, <2>3, <2>7 DEF Switch, AppInv, Pairing, At, Matches, Idle
<1>9. CASE Refresh(a)
  <2>1. Matches(a) /\ doing[a] = Idle /\ marker[a] # Nil
    BY <1>9 DEF Refresh, Verified
  <2>2. PICK x \in marker[a].routes :
          marker' = [marker EXCEPT ![a].routes = {marker[a].url} \union Advertised(answers[x])]
    BY <1>9 DEF Refresh
  <2> DEFINE rs == {marker[a].url} \union Advertised(answers[x])
  <2>3. rs \in SUBSET Addresses
    BY <1>0, <2>1 DEF Advertised
  <2>4. marker'[a] = [marker[a] EXCEPT !.routes = rs]
    BY <2>2 DEF TypeOK
  <2> HIDE DEF rs
  <2>5. marker'[a] \in [key : Keys, hub : Hubs, url : Addresses, routes : SUBSET Addresses]
    BY <1>0, <2>1, <2>3, <2>4
  <2>6. marker'[a].key = marker[a].key /\ marker'[a].hub = marker[a].hub
    BY <1>0, <2>1, <2>4
  <2>7. marker'[a] # Nil
    BY <2>5, NilAssumption
  <2>8. Matches(a)'
    BY <1>9, <2>1, <2>6, <2>7 DEF Refresh, Matches
  <2> QED BY <1>9, <2>1, <2>8 DEF Refresh, AppInv, Pairing, At, Matches, Idle
<1>10. CASE Disconnect(a) \/ Recheck(a)
  <2>1. session'[a] = Nil /\ UNCHANGED <<stored, doing, left>>
    BY <1>10 DEF Disconnect, Recheck, TypeOK
  <2> QED BY <2>1, <1>0 DEF AppInv, Pairing, At, Cred, Matches, KeysOf, stored, Credential
<1>11. CASE Forget(a)
  <2>1. /\ session'[a] = Nil /\ UNCHANGED <<candidate, marker>> /\ doing[a] = Idle
        /\ left'[a] = left[a] \union KeysOf(a)
    BY <1>11 DEF Forget, Abandon, TypeOK
  <2>2. doing'[a] = [at |-> "forget"] \/ doing'[a] = Idle
    BY <1>11, <2>1 DEF Forget, Turn, TypeOK
  <2>3. ~ Pairing(a)' /\ ~ At(a, "kept")'
    BY <2>2 DEF Pairing, At, Idle
  <2>4. candidate'[a] # Nil => candidate'[a].key \in left'[a]
    BY <2>1 DEF KeysOf
  <2>5. marker'[a] # Nil /\ ~ Matches(a)' => marker'[a].key \in left'[a]
    <3>1. CASE Matches(a)
      BY <2>1, <3>1 DEF Matches, KeysOf
    <3>2. CASE ~ Matches(a)
      BY <2>1, <3>2 DEF AppInv
    <3> QED BY <3>1, <3>2
  <2> QED BY <2>1, <2>3, <2>4, <2>5 DEF AppInv, Pairing, At
<1>12. CASE ForgetCandidate(a)
  <2>1. At(a, "forget") /\ UNCHANGED <<connection, marker, session, left>>
    BY <1>12 DEF ForgetCandidate
  <2>2. candidate'[a] = candidate[a] \/ candidate'[a] = Nil
    BY <1>12 DEF ForgetCandidate, TypeOK
  <2>3. doing'[a].at = "unlist" \/ doing'[a] = Idle
    BY <1>12, <2>1, StepTypes, TurnTypes DEF ForgetCandidate
  <2>4. KeysOf(a) \union left[a] \subseteq (KeysOf(a) \union left[a])'
    BY <2>1, <2>2 DEF AppInv, KeysOf, At
  <2> QED BY <2>1, <2>3, <2>4 DEF AppInv, Pairing, At, Matches, Idle
<1>13. CASE ForgetMarker(a)
  <2>1. At(a, "unlist") /\ UNCHANGED <<connection, candidate, session, left>> /\ doing'[a] = Idle
    BY <1>13, TurnTypes DEF ForgetMarker
  <2>2. marker'[a] = marker[a] \/ marker'[a] = Nil
    BY <1>13 DEF ForgetMarker, TypeOK
  <2> QED BY <2>1, <2>2 DEF AppInv, Pairing, At, Matches, KeysOf, Idle
<1>14. CASE Crash(a)
  <2>1. UNCHANGED <<stored, left>> /\ doing'[a] = Idle /\ session'[a] = Nil
    BY <1>14, TurnTypes DEF Crash, TypeOK
  <2> QED BY <2>1 DEF AppInv, Pairing, At, Matches, KeysOf, Idle, stored
<1> QED
  BY <1>1, <1>2, <1>3, <1>4, <1>5, <1>6, <1>7, <1>8, <1>9, <1>10, <1>11, <1>12, <1>13, <1>14
  DEF AppStep
-----------------------------------------------------------------------------
(* A claim ends with the candidate only once the key is the connection's.  *)
LEMMA ClaimStays ==
  ASSUME TypeOK, \A a \in Apps : AppInv(a), NEW a \in Apps, AppStep(a),
         NEW k \in Keys, NEW c \in Codes, Claimed(k, c)
  PROVE  Claimed(k, c)' \/ (Connected(k)' /\ device[k] # NoDevice)
<1>0. ASSUME NEW b \in Apps PROVE left[b] \subseteq left'[b]
  BY DEF AppStep, Scan, Pair, GiveUp, SaveMarker, SaveConnection, Finish, Resume, Refresh, Switch,
     Forget, ForgetCandidate, ForgetMarker, Disconnect, Recheck, Crash, Abandon, TypeOK
<1>1. CASE \E b \in Apps : k \in left[b]
  BY <1>0, <1>1 DEF Claimed
<1>2. ASSUME NEW b \in Apps, candidate[b] # Nil, candidate[b].key = k, candidate[b].code = c
      PROVE  Claimed(k, c)' \/ (Connected(k)' /\ device[k] # NoDevice)
  <2>1. CASE candidate'[b] = candidate[b]
    BY <1>2, <2>1 DEF Claimed
  <2>2. CASE candidate'[b] # candidate[b]
    <3>1. b = a
      BY <2>2, Alone
    <3>2. ASSUME NEW d \in Codes, Scan(a, d) PROVE Claimed(k, c)'
      <4>1. CASE d # c
        BY <1>2, <3>1, <3>2, <4>1 DEF Scan, Abandon, Claimed, TypeOK
      <4>2. CASE d = c
        <5>1. candidate'[a] = [key |-> k, hub |-> code[c].hub, url |-> code[c].url, code |-> c]
          BY <1>2, <3>1, <3>2, <4>2 DEF Scan, Reuses, TypeOK
        <5>2. candidate'[a].key = k /\ candidate'[a].code = c
          BY <5>1
        <5>3. code[c].hub \in Hubs /\ code[c].url \in Addresses
          BY <3>2, <4>2 DEF Scan, TypeOK
        <5>4. candidate'[a] # Nil
          BY <5>1, <5>3, NilAssumption
        <5> QED BY <5>2, <5>4 DEF Claimed
      <4> QED BY <4>1, <4>2
    <3>3. CASE Finish(a)
      <4>1. connection'[a] # Nil /\ connection'[a].key = Cred(a).key /\ device[Cred(a).key] # NoDevice
        BY <3>3 DEF Finish, AppInv, At
      <4>2. Cred(a).key = k
        BY <1>2, <3>1, <3>3 DEF Finish, AppInv, At, Pairing
      <4> QED BY <4>1, <4>2 DEF Connected
    <3>4. CASE ForgetCandidate(a)
      BY <1>2, <3>1, <3>4 DEF ForgetCandidate, AppInv, Claimed, At
    <3>5. CASE \/ Pair(a) \/ GiveUp(a) \/ SaveMarker(a) \/ SaveConnection(a)
               \/ Resume(a) \/ Refresh(a) \/ (\E x \in Addresses : Switch(a, x))
               \/ Forget(a) \/ ForgetMarker(a) \/ Disconnect(a) \/ Recheck(a) \/ Crash(a)
      BY <2>2, <3>5 DEF Pair, GiveUp, SaveMarker, SaveConnection, Resume, Refresh, Switch,
         Forget, ForgetMarker, Disconnect, Recheck, Crash, stored
    <3> QED BY <3>2, <3>3, <3>4, <3>5 DEF AppStep
  <2> QED BY <2>1, <2>2
<1> QED BY <1>1, <1>2 DEF Claimed

(* The connection's key goes only when the user turns from it.             *)
LEMMA ConnectedStays ==
  ASSUME TypeOK, NEW a \in Apps, AppStep(a), NEW k \in Keys, Connected(k)
  PROVE  Connected(k)' \/ \E b \in Apps : k \in left'[b]
<1>1. PICK b \in Apps : connection[b] # Nil /\ connection[b].key = k
  BY DEF Connected
<1>2. CASE connection'[b] = connection[b]
  BY <1>1, <1>2 DEF Connected
<1>3. CASE connection'[b] # connection[b]
  <2>1. b = a
    BY <1>3, Alone
  <2>2. CASE SaveConnection(a)
    <3>1. CASE Cred(a).key = k
      <4>1. connection'[a] = [key |-> k, hub |-> Cred(a).hub]
        BY <1>3, <2>1, <2>2, <3>1 DEF SaveConnection, TypeOK
      <4>2. Cred(a).hub \in Hubs
        BY <2>2, Records DEF SaveConnection, Pairing, At, Credential
      <4>3. connection'[a] # Nil
        BY <4>1, <4>2, NilAssumption
      <4> QED BY <4>1, <4>3 DEF Connected
    <3>2. CASE Cred(a).key # k
      BY <1>1, <1>3, <2>1, <2>2, <3>2 DEF SaveConnection, Abandon, TypeOK
    <3> QED BY <3>1, <3>2
  <2>3. CASE Forget(a)
    BY <1>1, <2>1, <2>3 DEF Forget, Abandon, KeysOf, TypeOK
  <2>4. CASE AppStep(a) /\ ~ SaveConnection(a) /\ ~ Forget(a)
    BY <1>3, <2>4 DEF AppStep, Scan, Pair, GiveUp, SaveMarker, Finish, Resume, Refresh, Switch,
       ForgetCandidate, ForgetMarker, Disconnect, Recheck, Crash, stored
  <2> QED BY <2>2, <2>3, <2>4
<1> QED BY <1>2, <1>3
(* A device's code stays bound to its key.                                 *)
LEMMA BoundStays ==
  ASSUME TypeOK, [Next]_vars, NEW c \in Codes, code[c].key # Nil
  PROVE  code'[c].key = code[c].key
<1>1. ASSUME NEW d \in Codes, Expire(d) PROVE code'[c].key = code[c].key
  <2>1. code[d] \in [at : {"fresh", "expired"}, hub : Hubs, url : Addresses, key : Keys \union {Nil}]
    BY <1>1 DEF Expire, TypeOK, NoCode
  <2>2. [code[d] EXCEPT !.at = "expired"].key = code[d].key
    BY <2>1
  <2>3. code' = [code EXCEPT ![d] = [code[d] EXCEPT !.at = "expired"]]
    BY <1>1 DEF Expire
  <2> QED BY <2>2, <2>3 DEF TypeOK
<1>2. ASSUME NEW d \in Codes, NEW x \in Addresses, Mint(d, x) PROVE code'[c] = code[c]
  BY <1>2 DEF Mint, NoCode, TypeOK
<1>3. ASSUME NEW j \in Keys, NEW d \in Codes, PairLate(j, d) PROVE code'[c] = code[c]
  BY <1>3, RegisterTypes DEF PairLate
<1>4. ASSUME NEW a \in Apps, Pair(a) PROVE code'[c] = code[c]
  <2>1. Cred(a).code \in Codes /\ Cred(a).key \in Keys /\ Register(Cred(a).code, Cred(a).key)
    BY <1>4, Records DEF Pair, Pairing, At, Credential
  <2> QED BY <2>1, RegisterTypes
<1>5. ASSUME NEW a \in Apps, AppStep(a), ~ Pair(a) PROVE code'[c] = code[c]
  BY <1>5 DEF AppStep, Scan, GiveUp, SaveMarker, SaveConnection, Finish, Resume, Refresh, Switch,
     Forget, ForgetCandidate, ForgetMarker, Disconnect, Recheck, Crash, hub
<1>6. ASSUME (\E k \in Keys : Revoke(k)) \/ (\E x \in Addresses, h \in Hubs : Move(x, h))
             \/ UNCHANGED vars
      PROVE  code'[c] = code[c]
  BY <1>6 DEF Revoke, Move, vars, hub
<1> QED BY <1>1, <1>2, <1>3, <1>4, <1>5, <1>6 DEF Next, HubStep

(* A key registered by a step was claimed for the code it came with.       *)
LEMMA NewDevice ==
  ASSUME PairingInv, [Next]_vars, NEW k \in Keys, device[k] = NoDevice, device'[k] # NoDevice
  PROVE  /\ Claimed(k, device[k].by)'
         /\ code'[device'[k].by].key = k
<1> USE DEF PairingInv
<1>1. ASSUME NEW j \in Keys, Revoke(j) PROVE FALSE
  BY <1>1 DEF Revoke, NoDevice, TypeOK
<1>2. ASSUME NEW j \in Keys, NEW c \in Codes, PairLate(j, c)
      PROVE  Claimed(k, device[k].by)' /\ code'[device'[k].by].key = k
  <2>1. Register(c, j) /\ <<j, c>> \in late /\ UNCHANGED <<stored, left>>
    BY <1>2 DEF PairLate
  <2>2. j = k /\ device'[k].by = c /\ code'[c].key = k
    BY <2>1, RegisterTypes
  <2>3. Claimed(k, c)
    BY <2>1, <2>2 DEF HubInv
  <2>4. Claimed(k, c)'
    BY <2>1, <2>3 DEF Claimed, stored
  <2> QED BY <2>2, <2>4
<1>3. ASSUME NEW a \in Apps, Pair(a)
      PROVE  Claimed(k, device[k].by)' /\ code'[device'[k].by].key = k
  <2>1. Cred(a).code \in Codes /\ Cred(a).key \in Keys /\ Register(Cred(a).code, Cred(a).key)
    BY <1>3, Records DEF Pair, Pairing, At, Credential
  <2>2. Cred(a).key = k /\ device'[k].by = Cred(a).code /\ code'[Cred(a).code].key = k
    BY <2>1, RegisterTypes
  <2>3. candidate[a] = Cred(a) /\ candidate' = candidate
    BY <1>3 DEF Pair, AppInv, Pairing, At, stored
  <2>4. candidate[a] # Nil
    BY <1>3, <2>3, Records, NilAssumption DEF Pair, Pairing, At, Credential
  <2> QED BY <2>2, <2>3, <2>4 DEF Claimed
<1>4. ASSUME NEW a \in Apps, AppStep(a), ~ Pair(a) PROVE FALSE
  BY <1>4 DEF AppStep, Scan, GiveUp, SaveMarker, SaveConnection, Finish, Resume, Refresh, Switch,
     Forget, ForgetCandidate, ForgetMarker, Disconnect, Recheck, Crash, hub
<1>5. ASSUME HubStep \/ (\E x \in Addresses, h \in Hubs : Move(x, h)) \/ UNCHANGED vars,
             \A j \in Keys : ~ Revoke(j) /\ \A c \in Codes : ~ PairLate(j, c)
      PROVE  FALSE
  BY <1>5 DEF HubStep, Expire, Mint, Move, vars, hub
<1> QED BY <1>1, <1>2, <1>3, <1>4, <1>5 DEF Next

(* Claims and connections through a step of anybody's.                     *)
LEMMA ReachStays ==
  ASSUME PairingInv, [Next]_vars, NEW k \in Keys, NEW c \in Codes
  PROVE  /\ Claimed(k, c) => Claimed(k, c)' \/ (Connected(k)' /\ device[k] # NoDevice)
         /\ Connected(k) => Connected(k)' \/ Claimed(k, c)'
<1>1. ASSUME NEW a \in Apps, AppStep(a)
      PROVE  /\ Claimed(k, c) => Claimed(k, c)' \/ (Connected(k)' /\ device[k] # NoDevice)
             /\ Connected(k) => Connected(k)' \/ Claimed(k, c)'
  BY <1>1, ClaimStays, ConnectedStays DEF PairingInv, Claimed
<1>2. CASE HubStep \/ (\E x \in Addresses, h \in Hubs : Move(x, h)) \/ UNCHANGED vars
  <2>1. UNCHANGED <<candidate, connection, left>>
    BY <1>2 DEF HubStep, Expire, Mint, Revoke, PairLate, Move, vars, stored
  <2> QED BY <2>1 DEF Claimed, Connected
<1> QED BY <1>1, <1>2 DEF Next

LEMMA NextHubInv ==
  ASSUME PairingInv, [Next]_vars, TypeOK' PROVE HubInv'
<1>1. ASSUME NEW k \in Keys, NEW c \in Codes, <<k, c>> \in late'
      PROVE  device'[k] # NoDevice \/ Claimed(k, c)'
  <2>1. CASE <<k, c>> \in late
    BY <2>1, DevicesStay, ReachStays DEF PairingInv, HubInv
  <2>2. CASE <<k, c>> \notin late
    <3>1. PICK a \in Apps : GiveUp(a)
      BY <1>1, <2>2 DEF Next, vars, HubStep, Expire, Mint, Revoke, PairLate, Move,
         AppStep, Scan, Pair, SaveMarker, SaveConnection, Finish, Resume, Refresh, Switch,
         Forget, ForgetCandidate, ForgetMarker, Disconnect, Recheck, Crash, hub
    <3>2. Cred(a).key = k /\ Cred(a).code = c /\ candidate' = candidate
      BY <1>1, <2>2, <3>1 DEF GiveUp, stored
    <3>3. candidate[a] = Cred(a) /\ Cred(a) \in Credential
      BY <3>1, Records DEF PairingInv, AppInv, GiveUp, Pairing, At
    <3>4. candidate[a] # Nil
      BY <3>3, NilAssumption DEF Credential
    <3> QED BY <3>2, <3>3, <3>4 DEF Claimed
  <2> QED BY <2>1, <2>2
<1>2. ASSUME NEW k \in Keys, device'[k] # NoDevice
      PROVE  /\ code'[device'[k].by].key = k
             /\ Connected(k)' \/ Claimed(k, device[k].by)'
  <2>1. CASE device[k] = NoDevice
    BY <1>2, <2>1, NewDevice
  <2>2. CASE device[k] # NoDevice
    <3>1. device'[k].by = device[k].by /\ device[k].by \in Codes
      BY <2>2, DevicesStay DEF PairingInv, TypeOK
    <3>2. code[device[k].by].key = k /\ k # Nil /\ (Connected(k) \/ Claimed(k, device[k].by))
      BY <2>2, NilAssumption DEF PairingInv, HubInv
    <3> QED BY <3>1, <3>2, BoundStays, ReachStays DEF PairingInv
  <2> QED BY <2>1, <2>2
<1> QED BY <1>1, <1>2 DEF HubInv

LEMMA NextPairingInv ==
  ASSUME PairingInv, [Next]_vars PROVE PairingInv'
<1>1. TypeOK'
  BY NextTypes DEF PairingInv
<1>2. \A k \in Keys : device[k] # NoDevice => device'[k] # NoDevice
  BY DevicesStay DEF PairingInv
<1>3. ASSUME NEW b \in Apps PROVE AppInv(b)'
  <2>1. CASE AppStep(b)
    BY <1>1, <1>2, <2>1, AppKeeps DEF PairingInv
  <2>2. ASSUME NEW a \in Apps, a # b, AppStep(a) PROVE AppInv(b)'
    BY <1>2, <2>2, Alone, OthersKeep DEF PairingInv
  <2>3. CASE HubStep \/ (\E x \in Addresses, h \in Hubs : Move(x, h)) \/ UNCHANGED vars
    <3>1. UNCHANGED <<stored, session, doing, left>>
      BY <2>3 DEF HubStep, Expire, Mint, Revoke, PairLate, Move, vars
    <3> QED BY <1>2, <3>1, OthersKeep DEF PairingInv, stored
  <2> QED BY <2>1, <2>2, <2>3 DEF Next
<1> QED BY <1>1, <1>3, NextHubInv DEF PairingInv

(* The records of the app and of the hub stay in agreement, whatever is    *)
(* lost, late, refused or cut short: what the theorems below rest on.      *)
THEOREM PairingInvariant == Spec => []PairingInv
<1> QED BY InitPairingInv, NextPairingInv, PTL DEF Spec

(* store::pair: a code lets one device in, however its requests arrive.    *)
THEOREM OneDeviceIn == Spec => []OneDevicePerCode
<1>1. ASSUME PairingInv, NEW j \in Keys, NEW k \in Keys,
             device[j] # NoDevice, device[j].by = device[k].by
      PROVE  j = k
  <2>1. CASE device[k] # NoDevice
    BY <1>1, <2>1 DEF PairingInv, HubInv
  <2>2. CASE device[k] = NoDevice
    <3>1. device[j].by \in Codes
      BY <1>1 DEF PairingInv, TypeOK
    <3> QED BY <1>1, <2>2, <3>1, NilAssumption DEF NoDevice
  <2> QED BY <2>1, <2>2
<1>2. PairingInv => OneDevicePerCode
  BY <1>1 DEF OneDevicePerCode
<1> QED BY <1>2, PairingInvariant, PTL

(* secure_pair, store::pair: a device the hub has registered is its app's, *)
(* or its app has the key and the hub answers that key again, unless the   *)
(* code has expired or the user has turned from the key.                   *)
THEOREM NoDeviceOrphaned == Spec => []NothingOrphaned
<1>1. ASSUME PairingInv, NEW k \in Keys, device[k].at = "active"
      PROVE  \E a \in Apps :
               \/ connection[a] # Nil /\ connection[a].key = k
               \/ candidate[a] # Nil /\ candidate[a].key = k /\ (Completes(a, k) \/ Lapsed(k))
               \/ k \in left[a]
  <2>1. device[k] # NoDevice
    BY <1>1 DEF NoDevice
  <2>2. code[device[k].by].key = k /\ (Connected(k) \/ Claimed(k, device[k].by))
    BY <1>1, <2>1 DEF PairingInv, HubInv
  <2>3. device[k].by \in Codes /\ k # Nil
    BY <1>1, <2>1, NilAssumption DEF PairingInv, TypeOK
  <2>4. code[device[k].by].at \in {"fresh", "expired"}
    BY <1>1, <2>2, <2>3 DEF PairingInv, TypeOK, NoCode
  <2>5. Confirms(device[k].by, k) \/ Lapsed(k)
    BY <1>1, <2>2, <2>4 DEF Confirms, Lapsed
  <2> QED BY <2>2, <2>5 DEF Connected, Claimed, Completes, Reuses
<1>2. PairingInv => NothingOrphaned
  BY <1>1 DEF NothingOrphaned
<1> QED BY <1>2, PairingInvariant, PTL

(* validate_credential: a saved address book without its credential is of  *)
(* the pairing under way, or of a key the user has turned from.            *)
THEOREM BooksHaveKeys == Spec => []BookHasItsKey
<1>1. PairingInv => BookHasItsKey
  BY DEF PairingInv, AppInv, BookHasItsKey
<1> QED BY <1>1, PairingInvariant, PTL

(* resume_at: a session is with the paired hub, under the stored key.      *)
THEOREM SessionsGoHome == Spec => []GoesHome
<1>1. PairingInv => GoesHome
  BY DEF PairingInv, AppInv, GoesHome
<1> QED BY <1>1, PairingInvariant, PTL

=============================================================================
