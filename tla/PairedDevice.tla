----------------------------- MODULE PairedDevice -----------------------------
(***************************************************************************)
(* Pairing an app with a hub by a one-time code, and what each keeps of it *)
(* (crates/hub/src/secure/store.rs, crates/hub/src/secure/mod.rs,          *)
(* crates/secure/src/pairing.rs, routes.rs, client.rs and                  *)
(* packages/desktop/src-tauri/src/secure.rs).                              *)
(*                                                                         *)
(* An app keeps three records: the candidate it is pairing and the         *)
(* connection's credential in the system's credential store, the address   *)
(* book ("marker") in a file.  They are written one after the other, any   *)
(* write may fail and the app may die between two.  The cryptography is    *)
(* taken as sound: a hub proves its key, an app proves its own, and a      *)
(* device's id stands for its key.                                         *)
(***************************************************************************)
EXTENDS Naturals

CONSTANTS
  Apps, Hubs, Codes, Keys, Addresses,
  Nil,
  MaxMoves   \* bound: addresses that change hands

ASSUME NilAssumption ==
  Nil \notin Keys \union Codes \union [key : Keys, hub : Hubs]
            \union [key : Keys, hub : Hubs, url : Addresses, code : Codes]
            \union [key : Keys, hub : Hubs, url : Addresses]
            \union [key : Keys, hub : Hubs, url : Addresses, routes : SUBSET Addresses]
ASSUME MovesAssumption == MaxMoves \in Nat

VARIABLES
  code,        \* secure_pairing_codes, and the descriptor in the QR code
  device,      \* secure_devices, by public key
  answers,     \* the hub that answers at an address
  candidate, connection, marker,   \* what an app has stored
  session,     \* SecureState.0
  doing,       \* what an app is at; it holds the gate and the session's lock
  late,        \* pairing requests the app has given up
  left,        \* keys an app's user has turned away from
  moves

stored == <<candidate, connection, marker>>
hub == <<code, device, late>>
net == <<answers, moves>>
vars == <<hub, net, stored, session, doing, left>>

-----------------------------------------------------------------------------
NoCode == [at |-> "none", hub |-> Nil, url |-> Nil, key |-> Nil]
NoDevice == [at |-> "none", hub |-> Nil, by |-> Nil]
Idle == [at |-> "idle"]
Credential == [key : Keys, hub : Hubs, url : Addresses, code : Codes]

TypeOK ==
  /\ code \in [Codes -> {NoCode} \union [at : {"fresh", "expired"}, hub : Hubs,
                                        url : Addresses, key : Keys \union {Nil}]]
  /\ device \in [Keys -> {NoDevice} \union [at : {"active", "revoked"}, hub : Hubs, by : Codes]]
  /\ answers \in [Addresses -> Hubs]
  /\ candidate \in [Apps -> Credential \union {Nil}]
  /\ connection \in [Apps -> [key : Keys, hub : Hubs] \union {Nil}]
  /\ marker \in [Apps -> [key : Keys, hub : Hubs, url : Addresses,
                          routes : SUBSET Addresses] \union {Nil}]
  /\ session \in [Apps -> [key : Keys, hub : Hubs, url : Addresses] \union {Nil}]
  /\ doing \in [Apps -> {Idle} \union [at : {"forget", "unlist"}]
       \union [at : {"pairing", "ready", "marked", "kept"}, cred : Credential]]
  /\ late \subseteq Keys \X Codes
  /\ left \in [Apps -> SUBSET Keys]
  /\ moves \in 0..MaxMoves

Init ==
  /\ code = [c \in Codes |-> NoCode]
  /\ device = [k \in Keys |-> NoDevice]
  /\ answers \in {f \in [Addresses -> Hubs] : \A h \in Hubs : \E x \in Addresses : f[x] = h}
  /\ candidate = [a \in Apps |-> Nil] /\ connection = candidate /\ marker = candidate
  /\ session = [a \in Apps |-> Nil]
  /\ doing = [a \in Apps |-> Idle]
  /\ late = {} /\ left = [a \in Apps |-> {}] /\ moves = 0

At(a, step) == doing[a].at = step
Turn(a, work) == doing' = [doing EXCEPT ![a] = work]
Step(a, step) == Turn(a, [doing[a] EXCEPT !.at = step])
Cred(a) == doing[a].cred
Active(k, h) == device[k].at = "active" /\ device[k].hub = h

\* Keys somebody has generated.
Taken ==
  {k \in Keys : device[k] # NoDevice}
  \union {candidate[a].key : a \in {b \in Apps : candidate[b] # Nil}}
  \union {r[1] : r \in late} \union UNION {left[a] : a \in Apps}

-----------------------------------------------------------------------------
(* The hub.                                                                *)

\* store::mint: a random code, shown with an address of the hub's choosing.
Mint(c, x) ==
  /\ code[c] = NoCode
  /\ code' = [code EXCEPT ![c] = [at |-> "fresh", hub |-> answers[x], url |-> x, key |-> Nil]]
  /\ UNCHANGED <<device, late, net, stored, session, doing, left>>

\* PAIRING_TTL_MS passes.
Expire(c) ==
  /\ code[c].at = "fresh"
  /\ code' = [code EXCEPT ![c].at = "expired"]
  /\ UNCHANGED <<device, late, net, stored, session, doing, left>>

\* revoke.
Revoke(k) ==
  /\ device[k].at = "active"
  /\ device' = [device EXCEPT ![k].at = "revoked"]
  /\ UNCHANGED <<code, late, net, stored, session, doing, left>>

\* Mutant: a code is good as long as it lasts.
FreshAlways(c, k) == code[c].at = "fresh" /\ device[k] = NoDevice
Unused(c, k) == code[c].at = "fresh" /\ code[c].key = Nil /\ device[k] = NoDevice

\* Mutant: a bound code is spent, for its own device too.
ConfirmsNever(c, k) == FALSE
Confirms(c, k) == code[c].at = "fresh" /\ code[c].key = k /\ device[k].at = "active"

\* store::pair, one transaction.
Register(c, k) ==
  IF Unused(c, k)
  THEN /\ device' = [device EXCEPT ![k] = [at |-> "active", hub |-> code[c].hub, by |-> c]]
       /\ code' = [code EXCEPT ![c].key = k]
  ELSE UNCHANGED <<device, code>>

-----------------------------------------------------------------------------
(* secure_pair.                                                            *)

\* A rescan of the code reuses the candidate's key.
\* Mutant: every scan makes a new identity.
ReusesNever(a, c) == FALSE
Reuses(a, c) == candidate[a] # Nil /\ candidate[a].code = c

Abandon(a, keys) == left' = [left EXCEPT ![a] = @ \union keys]

Scan(a, c) ==
  /\ doing[a] = Idle
  /\ code[c] # NoCode
  /\ \E k \in IF Reuses(a, c) THEN {candidate[a].key} ELSE Keys \ Taken :
       LET cred == [key |-> k, hub |-> code[c].hub, url |-> code[c].url, code |-> c]
       IN  /\ candidate' = [candidate EXCEPT ![a] = cred]
           /\ Turn(a, [at |-> "pairing", cred |-> cred])
  /\ Abandon(a, IF candidate[a] # Nil /\ candidate[a].code # c THEN {candidate[a].key} ELSE {})
  /\ UNCHANGED <<hub, net, connection, marker, session>>

\* The handshake succeeds with the hub of the code's key alone; its answer
\* may be a refusal, or be lost.
Pair(a) ==
  /\ At(a, "pairing")
  /\ LET c == Cred(a).code
         k == Cred(a).key
     IN  /\ answers[Cred(a).url] = Cred(a).hub
         /\ Register(c, k)
         /\ \/ /\ Unused(c, k) \/ Confirms(c, k)
               /\ Step(a, "ready")
            \/ Turn(a, Idle)
  /\ UNCHANGED <<late, net, stored, session, left>>

\* Not reached in time; the request may still arrive.
GiveUp(a) ==
  /\ At(a, "pairing")
  /\ Turn(a, Idle)
  /\ \/ late' = late
     \/ answers[Cred(a).url] = Cred(a).hub /\ late' = late \union {<<Cred(a).key, Cred(a).code>>}
  /\ UNCHANGED <<code, device, net, stored, session, left>>

PairLate(k, c) ==
  /\ <<k, c>> \in late
  /\ late' = late \ {<<k, c>>}
  /\ Register(c, k)
  /\ UNCHANGED <<net, stored, session, doing, left>>

\* Addresses the hub tells its devices of.
Advertised(h) == {x \in Addresses : answers[x] = h}

SaveMarker(a) ==
  /\ At(a, "ready")
  /\ \/ /\ \E found \in {{}, Advertised(Cred(a).hub)} :
             marker' = [marker EXCEPT ![a] =
               [key |-> Cred(a).key, hub |-> Cred(a).hub, url |-> Cred(a).url,
                routes |-> {Cred(a).url} \union found]]
        /\ Step(a, "marked")
     \/ marker' = marker /\ Turn(a, Idle)
  /\ UNCHANGED <<hub, net, candidate, connection, session, left>>

SaveConnection(a) ==
  /\ At(a, "marked")
  /\ \/ /\ connection' = [connection EXCEPT ![a] = [key |-> Cred(a).key, hub |-> Cred(a).hub]]
        /\ Abandon(a, IF connection[a] = Nil THEN {} ELSE {connection[a].key} \ {Cred(a).key})
        /\ Step(a, "kept")
     \/ UNCHANGED <<connection, left>> /\ Turn(a, Idle)
  /\ UNCHANGED <<hub, net, candidate, marker, session>>

\* The session, if it has not broken meanwhile, then the candidate, whose
\* deletion may fail.
Finish(a) ==
  /\ At(a, "kept")
  /\ \E new \in {Nil, [key |-> Cred(a).key, hub |-> Cred(a).hub, url |-> Cred(a).url]} :
       session' = [session EXCEPT ![a] = new]
  /\ candidate' \in {candidate, [candidate EXCEPT ![a] = Nil]}
  /\ Turn(a, Idle)
  /\ UNCHANGED <<hub, net, connection, marker, left>>

-----------------------------------------------------------------------------
(* Using the connection.                                                   *)

\* validate_credential.
Matches(a) ==
  /\ connection[a] # Nil /\ marker[a] # Nil
  /\ marker[a].key = connection[a].key /\ marker[a].hub = connection[a].hub

\* resume_at: the pinned hub answers, and knows the device.
Verified(a, x) ==
  Matches(a) /\ answers[x] = connection[a].hub /\ Active(connection[a].key, connection[a].hub)

Connect(a, x) ==
  session' = [session EXCEPT ![a] = [key |-> connection[a].key, hub |-> answers[x], url |-> x]]

\* connected.
Resume(a) ==
  /\ doing[a] = Idle /\ session[a] = Nil /\ marker[a] # Nil
  /\ Verified(a, marker[a].url)
  /\ Connect(a, marker[a].url)
  /\ UNCHANGED <<hub, net, stored, doing, left>>

\* secure_switch_route: one write, and the session with it.
Switch(a, x) ==
  /\ doing[a] = Idle /\ marker[a] # Nil
  /\ x \in marker[a].routes /\ Verified(a, x)
  /\ marker' = [marker EXCEPT ![a].url = x]
  /\ Connect(a, x)
  /\ UNCHANGED <<hub, net, candidate, connection, doing, left>>

\* secure_routes: any saved route that answers may refresh them all.
Refresh(a) ==
  /\ doing[a] = Idle /\ marker[a] # Nil
  /\ \E x \in marker[a].routes :
       /\ Verified(a, x)
       /\ marker' = [marker EXCEPT ![a].routes = {marker[a].url} \union Advertised(answers[x])]
  /\ UNCHANGED <<hub, net, candidate, connection, session, doing, left>>

\* The connection breaks.
Disconnect(a) ==
  /\ session[a] # Nil
  /\ session' = [session EXCEPT ![a] = Nil]
  /\ UNCHANGED <<hub, net, stored, doing, left>>

\* serve's timer: once a second, the device must still be in good standing.
Recheck(a) ==
  /\ session[a] # Nil /\ ~Active(session[a].key, session[a].hub)
  /\ session' = [session EXCEPT ![a] = Nil]
  /\ UNCHANGED <<hub, net, stored, doing, left>>

-----------------------------------------------------------------------------
(* secure_forget: credential, candidate, marker; each step may fail.       *)

KeysOf(a) ==
  (IF connection[a] = Nil THEN {} ELSE {connection[a].key})
  \union (IF candidate[a] = Nil THEN {} ELSE {candidate[a].key})

Forget(a) ==
  /\ doing[a] = Idle
  /\ session' = [session EXCEPT ![a] = Nil]
  /\ Abandon(a, KeysOf(a))
  /\ \/ connection' = [connection EXCEPT ![a] = Nil] /\ Turn(a, [at |-> "forget"])
     \/ UNCHANGED <<connection, doing>>
  /\ UNCHANGED <<hub, net, candidate, marker>>

ForgetCandidate(a) ==
  /\ At(a, "forget")
  /\ \/ candidate' = [candidate EXCEPT ![a] = Nil] /\ Step(a, "unlist")
     \/ candidate' = candidate /\ Turn(a, Idle)
  /\ UNCHANGED <<hub, net, connection, marker, session, left>>

ForgetMarker(a) ==
  /\ At(a, "unlist")
  /\ marker' \in {marker, [marker EXCEPT ![a] = Nil]}
  /\ Turn(a, Idle)
  /\ UNCHANGED <<hub, net, candidate, connection, session, left>>

Crash(a) ==
  /\ doing[a] # Idle \/ session[a] # Nil
  /\ Turn(a, Idle) /\ session' = [session EXCEPT ![a] = Nil]
  /\ UNCHANGED <<hub, net, stored, left>>

\* The network changes: another hub has the address.
Move(x, h) ==
  /\ moves < MaxMoves /\ moves' = moves + 1
  /\ answers[x] # h
  /\ answers' = [answers EXCEPT ![x] = h]
  /\ UNCHANGED <<hub, stored, session, doing, left>>

-----------------------------------------------------------------------------
HubStep ==
  \/ \E c \in Codes : Expire(c) \/ \E x \in Addresses : Mint(c, x)
  \/ \E k \in Keys : Revoke(k) \/ \E c \in Codes : PairLate(k, c)

AppStep(a) ==
  \/ \E c \in Codes : Scan(a, c)
  \/ Pair(a) \/ GiveUp(a) \/ SaveMarker(a) \/ SaveConnection(a) \/ Finish(a)
  \/ Resume(a) \/ Refresh(a) \/ \E x \in Addresses : Switch(a, x)
  \/ Forget(a) \/ ForgetCandidate(a) \/ ForgetMarker(a)
  \/ Disconnect(a) \/ Recheck(a) \/ Crash(a)

Next ==
  \/ HubStep
  \/ \E a \in Apps : AppStep(a)
  \/ \E x \in Addresses, h \in Hubs : Move(x, h)

Spec == Init /\ [][Next]_vars

-----------------------------------------------------------------------------
(* A code lets one device in, whatever is scanned twice, by two apps, or   *)
(* arrives late.                                                           *)
OneDevicePerCode ==
  \A j, k \in Keys : device[j] # NoDevice /\ device[j].by = device[k].by => j = k

(* A device the hub has registered is the app's, or can become it: its key *)
(* is stored, and scanning its code again brings the answer that was lost. *)
(* Only the user turns from a key; and only until the code expires does    *)
(* the hub answer again: a device whose code has lapsed before its app is  *)
(* connected stays in the hub's list, its key no more than a candidate.    *)
Completes(a, k) == Reuses(a, device[k].by) /\ Confirms(device[k].by, k)

Lapsed(k) == code[device[k].by].at = "expired"

NothingOrphaned ==
  \A k \in Keys : device[k].at = "active" =>
    \E a \in Apps :
      \/ connection[a] # Nil /\ connection[a].key = k
      \/ candidate[a] # Nil /\ candidate[a].key = k /\ (Completes(a, k) \/ Lapsed(k))
      \/ k \in left[a]

(* What the app shows is what it can use, or has begun: an address book    *)
(* without its credential has the key of the pairing under way, which can  *)
(* be finished until its code expires, unless the user has gone on to      *)
(* another or has forgotten it.                                            *)
BookHasItsKey ==
  \A a \in Apps : marker[a] # Nil /\ ~Matches(a) =>
    marker[a].key \in KeysOf(a) \union left[a]

(* What the app sends goes to the hub whose key it was paired with, under  *)
(* the credential it has stored, whoever has taken over an address.        *)
GoesHome ==
  \A a \in Apps : session[a] # Nil /\ ~At(a, "kept") =>
    /\ connection[a] # Nil
    /\ session[a].key = connection[a].key /\ session[a].hub = connection[a].hub
=============================================================================
