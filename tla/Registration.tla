---------------------------- MODULE Registration ----------------------------
(***************************************************************************)
(* Who may use a hub, and which machines belong to it.  People sign in, or *)
(* trade a short login code for a session; a user mints a registration     *)
(* token; a host spends it on a machine row and a secret, keeps both in    *)
(* machine.json, and its agent connects with them for as long as the row   *)
(* stands.  Every database statement is a step of its own: requests,       *)
(* machine connections and the command line (another process on the same   *)
(* database) interleave between any two (crates/hub/src/routes/auth.rs,    *)
(* routes/registration.rs, routes/api_tokens.rs, first_run.rs, ws.rs,      *)
(* machine_manager.rs; crates/machine/src/main.rs, hub_conn.rs).           *)
(*                                                                         *)
(* A secret is known by its machine's id.  machines.status is written by   *)
(* the hub and read by nothing, and left out.  The hub is not in dev mode, *)
(* where a machine without a row is let in.                                *)
(***************************************************************************)
EXTENDS Integers, FiniteSets

CONSTANTS
  Logins,        \* identities: a provider's accounts, and the local owner
  Owner,         \* LOCAL_PROVIDER_ID: whoever has the hub's command line
  Codes, Tokens, \* login codes, registration tokens
  Machines,      \* machine ids
  Hosts,         \* computers that run an agent
  Conns,         \* machine WebSockets the hub has not done with
  Requests,      \* requests under way
  Nil,
  MaxStarts,     \* bound: requests
  MaxFaults      \* bound: lost connections and hub restarts

ASSUME OwnerAssumption == Owner \in Logins
ASSUME NilAssumption ==
  Nil \notin Logins \union Codes \union Tokens \union Machines \union Hosts \union Conns
ASSUME BoundsAssumption == MaxStarts \in Nat /\ MaxFaults \in Nat

VARIABLES
  users,    \* users: each login's role
  codes,    \* login_codes
  sessions, \* how many sessions each code has been traded for
  tokens,   \* registration_tokens
  rows,     \* machines
  removed,  \* ids of machines whose row has been deleted
  live,     \* MachineManager.machines: the connection of each
  conns,    \* what the hub's end of each connection is at
  hosts,    \* machine.json, the agent's copy of it, the agent's socket
  doing,    \* what each request is at
  count     \* requests and faults so far

keys == <<codes, sessions, tokens>>
machines == <<rows, removed, live, conns, hosts>>
vars == <<users, keys, machines, doing, count>>

-----------------------------------------------------------------------------
NoMachine == [at |-> "none", user |-> Nil]
Closed == [at |-> "closed", id |-> Nil, host |-> Nil, user |-> Nil, late |-> FALSE]
NewHost == [config |-> Nil, agent |-> Nil, conn |-> Nil]
Idle == [at |-> "idle", who |-> Nil, item |-> Nil, host |-> Nil, id |-> Nil, role |-> "none"]
At(r, step) == doing[r].at = step
Turn(r, work) == doing' = [doing EXCEPT ![r] = work]
Step(r, step) == Turn(r, [doing[r] EXCEPT !.at = step])
Done(r) == Turn(r, Idle)

Fault == count.fault < MaxFaults /\ count' = [count EXCEPT !.fault = @ + 1]

Steps == {"idle", "unknown", "counted", "redeem", "register", "made", "answered",
          "saved", "drop", "delete", "ensure"}

TypeOK ==
  /\ users \in [Logins -> {"none", "user", "admin"}]
  /\ codes \in [Codes -> [at : {"unminted", "fresh", "late", "used"}, user : Logins \union {Nil}]]
  /\ sessions \in [Codes -> Nat]
  /\ tokens \in [Tokens -> [at : {"unminted", "fresh", "late", "used"}, user : Logins \union {Nil}]]
  /\ rows \in [Machines -> [at : {"none", "row", "hollow"}, user : Logins \union {Nil}]]
  /\ removed \subseteq Machines
  /\ live \in [Machines -> Conns \union {Nil}]
  /\ conns \in [Conns -> [at : {"closed", "sent", "authed", "serving", "ended"},
                          id : Machines \union {Nil}, host : Hosts \union {Nil},
                          user : Logins \union {Nil}, late : BOOLEAN]]
  /\ hosts \in [Hosts -> [config : Machines \union {Nil}, agent : Machines \union {Nil},
                          conn : Conns \union {Nil}]]
  /\ doing \in [Requests -> [at : Steps, who : Logins \union {Nil},
                             item : Codes \union Tokens \union {Nil}, host : Hosts \union {Nil},
                             id : Machines \union {Nil}, role : {"none", "user", "admin"}]]
  /\ count \in [start : 0..MaxStarts, fault : 0..MaxFaults]

Init ==
  /\ users = [l \in Logins |-> "none"]
  /\ codes = [k \in Codes |-> [at |-> "unminted", user |-> Nil]]
  /\ sessions = [k \in Codes |-> 0]
  /\ tokens = [t \in Tokens |-> [at |-> "unminted", user |-> Nil]]
  /\ rows = [m \in Machines |-> NoMachine]
  /\ removed = {}
  /\ live = [m \in Machines |-> Nil]
  /\ conns = [c \in Conns |-> Closed]
  /\ hosts = [h \in Hosts |-> NewHost]
  /\ doing = [r \in Requests |-> Idle]
  /\ count = [start |-> 0, fault |-> 0]

-----------------------------------------------------------------------------
(* Signing in: upsert_oauth_user_and_sign, dev_login, owner_user_id.       *)

Start(r, work) ==
  /\ At(r, "idle")
  /\ count.start < MaxStarts
  /\ count' = [count EXCEPT !.start = @ + 1]
  /\ Turn(r, work)

\* find_user_by_provider, after the provider's answer.  A login that has a
\* user is given another session, which changes nothing here.
SignIn(r, l) ==
  /\ users[l] = "none"
  /\ Start(r, [Idle EXCEPT !.at = "unknown", !.who = l])
  /\ UNCHANGED <<users, keys, machines>>

\* The first user is the admin.  The owner joins no hub that has users.
RoleOf(l, others) ==
  IF others = {} THEN "admin" ELSE IF l = Owner THEN "none" ELSE "user"

\* count_users.
CountUsers(r) ==
  LET role == RoleOf(doing[r].who, {l \in Logins : users[l] # "none"})
  IN /\ At(r, "unknown")
     /\ IF role = "none"
          THEN Done(r)
          ELSE Turn(r, [doing[r] EXCEPT !.at = "counted", !.role = role])
     /\ UNCHANGED <<users, keys, machines, count>>

\* create_user: UNIQUE(provider, provider_id) refuses the second of two.
CreateUser(r) ==
  LET l == doing[r].who
  IN /\ At(r, "counted")
     /\ IF users[l] = "none"
          THEN users' = [users EXCEPT ![l] = doing[r].role]
          ELSE UNCHANGED users
     /\ Done(r)
     /\ UNCHANGED <<keys, machines, count>>

\* verify_bearer_token: a user has a session for good, and API tokens it made
\* with one.
Authorised(u) == users[u] # "none"

-----------------------------------------------------------------------------
(* Login codes.                                                            *)

\* login_code, mint_login_code.
MintCode(u, k) ==
  /\ Authorised(u) /\ codes[k].at = "unminted"
  /\ codes' = [codes EXCEPT ![k] = [at |-> "fresh", user |-> u]]
  /\ UNCHANGED <<users, sessions, tokens, machines, doing, count>>

\* redeem_login_code: the row, its use and its age.
Redeem(r, k) ==
  /\ codes[k].at = "fresh"
  /\ Start(r, [Idle EXCEPT !.at = "redeem", !.item = k])
  /\ UNCHANGED <<users, keys, machines>>

\* consume_login_code: UPDATE ... WHERE used = 0.
Consumed(k) == codes[k].at # "used"

ConsumeCode(r) ==
  LET k == doing[r].item
  IN /\ At(r, "redeem")
     /\ IF Consumed(k)
          THEN /\ codes' = [codes EXCEPT ![k].at = "used"]
               /\ sessions' = [sessions EXCEPT ![k] = @ + 1]
          ELSE UNCHANGED <<codes, sessions>>
     /\ Done(r)
     /\ UNCHANGED <<users, tokens, machines, count>>

\* Fifteen minutes of a code, a day of a token.
Expire ==
  /\ \/ \E k \in Codes : /\ codes[k].at = "fresh"
                         /\ codes' = [codes EXCEPT ![k].at = "late"] /\ UNCHANGED tokens
     \/ \E t \in Tokens : /\ tokens[t].at = "fresh"
                          /\ tokens' = [tokens EXCEPT ![t].at = "late"] /\ UNCHANGED codes
  /\ UNCHANGED <<users, sessions, machines, doing, count>>

-----------------------------------------------------------------------------
(* Registration: the host's command line and the hub's handler.            *)

\* create_register_token, mint_registration_token.
MintToken(u, t) ==
  /\ Authorised(u) /\ tokens[t].at = "unminted"
  /\ tokens' = [tokens EXCEPT ![t] = [at |-> "fresh", user |-> u]]
  /\ UNCHANGED <<users, codes, sessions, machines, doing, count>>

\* register_machine: the token's row, its use and its age.
Register(r, h, t) ==
  /\ tokens[t].at = "fresh"
  /\ Start(r, [Idle EXCEPT !.at = "register", !.item = t, !.host = h])
  /\ UNCHANGED <<users, keys, machines>>

\* ensure_service_running: the agent's service starts over and reads
\* machine.json; its old socket goes.
Restarted(h) == hosts' = [hosts EXCEPT ![h].agent = hosts[h].config, ![h].conn = Nil]

\* "already used": a host that has a machine of this hub takes the token for
\* the one spent on it.
RegisterAgain(r, h, t) ==
  /\ tokens[t].at = "used" /\ hosts[h].config # Nil
  /\ Start(r, Idle)
  /\ Restarted(h)
  /\ UNCHANGED <<users, keys, rows, removed, live, conns>>

\* The row create_machine inserts, with the hash of a secret of its own.
Made(t) == [at |-> "row", user |-> tokens[t].user]

\* create_machine, under a new id.
CreateMachine(r, m) ==
  /\ At(r, "register")
  /\ rows[m] = NoMachine /\ m \notin removed
  /\ rows' = [rows EXCEPT ![m] = Made(doing[r].item)]
  /\ Turn(r, [doing[r] EXCEPT !.at = "made", !.id = m])
  /\ UNCHANGED <<users, keys, removed, live, conns, hosts, count>>

\* consume_registration_token: UPDATE ... WHERE id, used or not.
ConsumeToken(r) ==
  /\ At(r, "made")
  /\ tokens' = [tokens EXCEPT ![doing[r].item].at = "used"]
  /\ Step(r, "answered")
  /\ UNCHANGED <<users, codes, sessions, machines, count>>

\* run_register with the hub's answer: save_config, over what was there.
SaveConfig(r) ==
  /\ At(r, "answered")
  /\ hosts' = [hosts EXCEPT ![doing[r].host].config = doing[r].id]
  /\ Step(r, "saved")
  /\ UNCHANGED <<users, keys, rows, removed, live, conns, count>>

\* ... and ensure_service_running.
RestartAgent(r) ==
  /\ At(r, "saved")
  /\ Restarted(doing[r].host)
  /\ Done(r)
  /\ UNCHANGED <<users, keys, rows, removed, live, conns, count>>

\* service install, a login, or the service manager.
StartAgent(h) ==
  /\ hosts[h].agent # hosts[h].config
  /\ Restarted(h)
  /\ UNCHANGED <<users, keys, rows, removed, live, conns, doing, count>>

\* Not in the hub's process: a command line's own work, an answer on its way.
Local(work) ==
  \/ work.at \in {"answered", "saved"}
  \/ work.at \in {"unknown", "counted"} /\ work.who = Owner

\* The command line is stopped, an answer is lost, or the hub drops a request
\* whose client has left, where it waits for a lock.
Abandon(r) ==
  /\ Local(doing[r]) \/ doing[r].at \in {"drop", "delete", "ensure"}
  /\ Done(r)
  /\ UNCHANGED <<users, keys, machines, count>>

-----------------------------------------------------------------------------
(* A machine's connection: HubConnection::run and handle_machine_ws.       *)

Free(c) == conns[c].at = "closed"

Dial(h, c) ==
  /\ hosts[h].agent # Nil /\ hosts[h].conn = Nil
  /\ Free(c)
  /\ conns' = [conns EXCEPT ![c] = [Closed EXCEPT !.at = "sent", !.id = hosts[h].agent, !.host = h]]
  /\ hosts' = [hosts EXCEPT ![h].conn = c]
  /\ UNCHANGED <<users, keys, rows, removed, live, doing, count>>

Ended(c) == hosts' = [h \in Hosts |-> IF hosts[h].conn = c THEN [hosts[h] EXCEPT !.conn = Nil] ELSE hosts[h]]

\* A bug: an empty hash taken for no secret.
VerifiedUnlessSecret(m) == rows[m].at # "none"

\* authenticate_machine: a row, and the secret its hash was made of.  The
\* hash of a row that a terminal's request made up is empty.
Verified(m) == rows[m].at = "row"

Authenticate(c) ==
  LET m == conns[c].id
  IN /\ conns[c].at = "sent"
     /\ IF Verified(m)
          THEN /\ conns' = [conns EXCEPT ![c].at = "authed", ![c].user = rows[m].user,
                                         ![c].late = m \in removed]
               /\ UNCHANGED hosts
          ELSE conns' = [conns EXCEPT ![c] = Closed] /\ Ended(c)
     /\ UNCHANGED <<users, keys, rows, removed, live, doing, count>>

\* register_machine_with_capabilities: in place of an older connection.
Serve(c) ==
  /\ conns[c].at = "authed"
  /\ conns' = [conns EXCEPT ![c].at = "serving"]
  /\ live' = [live EXCEPT ![conns[c].id] = c]
  /\ UNCHANGED <<users, keys, rows, removed, hosts, doing, count>>

\* A bug: only a lost socket ends a connection.
OverAtAgent(c) == hosts[conns[c].host].conn # c

\* The agent's end is gone, or the hub has let go of the connection and with
\* it of cmd_tx, which ends send_task.
Over(c) == hosts[conns[c].host].conn # c \/ live[conns[c].id] # c

EndServing(c) ==
  /\ conns[c].at = "serving" /\ Over(c)
  /\ conns' = [conns EXCEPT ![c].at = "ended"]
  /\ Ended(c)
  /\ UNCHANGED <<users, keys, rows, removed, live, doing, count>>

\* unregister_machine: only if the connection is still the current one.
Unregister(c) ==
  /\ conns[c].at = "ended"
  /\ conns' = [conns EXCEPT ![c] = Closed]
  /\ live' = [m \in Machines |-> IF live[m] = c THEN Nil ELSE live[m]]
  /\ UNCHANGED <<users, keys, rows, removed, hosts, doing, count>>

\* The agent loses its socket; the hub may take long to notice.
Lose(h) ==
  /\ hosts[h].conn # Nil
  /\ Fault
  /\ hosts' = [hosts EXCEPT ![h].conn = Nil]
  /\ UNCHANGED <<users, keys, rows, removed, live, conns, doing>>

RestartHub ==
  /\ Fault
  /\ live' = [m \in Machines |-> Nil]
  /\ conns' = [c \in Conns |-> Closed]
  /\ hosts' = [h \in Hosts |-> [hosts[h] EXCEPT !.conn = Nil]]
  /\ doing' = [r \in Requests |-> IF Local(doing[r]) THEN doing[r] ELSE Idle]
  /\ UNCHANGED <<users, keys, rows, removed>>

-----------------------------------------------------------------------------
(* Requests about a machine.                                               *)

\* remove_machine: the caller's own, then its connection, then its row.
Remove(r, m) ==
  /\ rows[m] # NoMachine /\ Authorised(rows[m].user)
  /\ Start(r, [Idle EXCEPT !.at = "drop", !.id = m])
  /\ UNCHANGED <<users, keys, machines>>

DropConnection(r) ==
  /\ At(r, "drop")
  /\ live' = [live EXCEPT ![doing[r].id] = Nil]
  /\ Step(r, "delete")
  /\ UNCHANGED <<users, keys, rows, removed, conns, hosts, count>>

DeleteMachine(r) ==
  /\ At(r, "delete")
  /\ rows' = [rows EXCEPT ![doing[r].id] = NoMachine]
  /\ removed' = removed \union {doing[r].id}
  /\ Done(r)
  /\ UNCHANGED <<users, keys, live, conns, hosts, count>>

\* ensure_machine_row, of every request about terminals and tabs: a machine
\* that is connected...
FindConnected(r, u, m) ==
  /\ live[m] # Nil /\ conns[live[m]].user = u /\ Authorised(u)
  /\ Start(r, [Idle EXCEPT !.at = "ensure", !.who = u, !.id = m])
  /\ UNCHANGED <<users, keys, machines>>

\* A bug: INSERT OR REPLACE.
EnsuredOver(m, u) == [at |-> "hollow", user |-> u]

\* ... gets a row without a secret if it has none: INSERT OR IGNORE.
Ensured(m, u) == IF rows[m] = NoMachine THEN [at |-> "hollow", user |-> u] ELSE rows[m]

EnsureMachine(r) ==
  LET m == doing[r].id
  IN /\ At(r, "ensure")
     /\ rows' = [rows EXCEPT ![m] = Ensured(m, doing[r].who)]
     /\ Done(r)
     /\ UNCHANGED <<users, keys, removed, live, conns, hosts, count>>

-----------------------------------------------------------------------------
PeopleStep ==
  \/ \E r \in Requests : (\E l \in Logins : SignIn(r, l)) \/ CountUsers(r) \/ CreateUser(r)
  \/ \E u \in Logins : \/ \E k \in Codes : MintCode(u, k)
                       \/ \E t \in Tokens : MintToken(u, t)
  \/ \E r \in Requests : (\E k \in Codes : Redeem(r, k)) \/ ConsumeCode(r)
  \/ Expire

RegisterStep ==
  \/ \E r \in Requests, h \in Hosts, t \in Tokens : Register(r, h, t) \/ RegisterAgain(r, h, t)
  \/ \E r \in Requests : \/ \E m \in Machines : CreateMachine(r, m)
                         \/ ConsumeToken(r) \/ SaveConfig(r) \/ RestartAgent(r) \/ Abandon(r)

HostStep(h) == StartAgent(h) \/ (\E c \in Conns : Dial(h, c)) \/ Lose(h)
ConnStep(c) == Authenticate(c) \/ Serve(c) \/ EndServing(c) \/ Unregister(c)

MachineStep ==
  \E r \in Requests : \/ \E m \in Machines : \/ Remove(r, m)
                                             \/ \E u \in Logins : FindConnected(r, u, m)
                      \/ DropConnection(r) \/ DeleteMachine(r) \/ EnsureMachine(r)

Next ==
  \/ PeopleStep \/ RegisterStep \/ MachineStep
  \/ (\E h \in Hosts : HostStep(h)) \/ (\E c \in Conns : ConnStep(c)) \/ RestartHub

Spec == Init /\ [][Next]_vars

\* run retries every three seconds for ever, and the hub's tasks for one
\* connection keep running.  Nothing is assumed of users and hosts.
LiveSpec ==
  /\ Spec
  /\ \A h \in Hosts : WF_vars(\E c \in Conns : Dial(h, c))
  /\ \A c \in Conns : WF_vars(ConnStep(c))

-----------------------------------------------------------------------------
(* Two phones that race for one login code get one session between them    *)
(* (crates/hub/src/db/tokens.rs:176).                                      *)
OneSessionPerCode == \A k \in Codes : sessions[k] <= 1

(* Whoever signs in, in whatever order and from however many places, a hub *)
(* with users has an admin.                                                *)
SomeoneIsAdmin == (\E l \in Logins : users[l] # "none") => \E l \in Logins : users[l] = "admin"

(* The secret a host has stored opens its hub until the machine is         *)
(* removed: lost answers, spent tokens, restarts and the rows that other   *)
(* requests make up for connected machines never shut a registered host    *)
(* out (crates/hub/src/routes/registration.rs, db/machines.rs).            *)
SecretIsKept ==
  \A h \in Hosts : hosts[h].config # Nil => Verified(hosts[h].config) \/ hosts[h].config \in removed

(* A removed machine never authenticates again, although its host keeps    *)
(* trying and a connection accepted during the removal can bring back a    *)
(* row for it (crates/hub/src/machine_manager.rs:313).                     *)
RemovedStaysOut == \A c \in Conns : ~conns[c].late

(* Once connections stop failing, every agent whose machine has its row is *)
(* connected for good: a replaced, dropped or unnoticed connection never   *)
(* leaves the hub or the agent believing that they are                     *)
(* (crates/machine/src/hub_conn.rs:109, crates/hub/src/ws.rs:892).         *)
BackOnline ==
  <>[](\A h \in Hosts : LET m == hosts[h].agent
                        IN m # Nil /\ Verified(m) => live[m] # Nil)

=============================================================================
