---------------------------- MODULE WorkspaceTabs ----------------------------
(***************************************************************************)
(* The tabs of one machine's terminals and the pane layouts kept for them. *)
(* A tab is a row of workspace_groups; a terminal's tab is kept twice, in  *)
(* the hub's memory and in its terminal_sessions row.  HTTP requests and   *)
(* the machine's messages change both, statement by statement on pooled    *)
(* connections, so that each step below can fall between two of another;   *)
(* a request whose client leaves is dropped where it awaits                *)
(* (crates/hub/src/routes/terminals.rs, machine_manager.rs, db/            *)
(* workspace_groups.rs, db/workspace_layouts.rs, db/mod.rs).               *)
(*                                                                         *)
(* Tabs the hub opens for a terminal that names none ("auto") go with      *)
(* their last pane; tabs a user opens or renames stay.  The machine stays  *)
(* connected: TerminalRegistry has the reconnections.  A layout is known   *)
(* by the save that made it.                                               *)
(***************************************************************************)
EXTENDS Integers, FiniteSetsExt, Sequences

CONSTANTS
  Terminals, Tabs, Editors,
  Requests,      \* HTTP requests under way
  NoTab, Gone,   \* workspace_group_id = None; a terminal not in memory
  Machine,       \* the handler of the machine's messages
  MaxPanes,      \* MAX_PANES_PER_TAB
  MaxStarts,     \* bound: requests
  MaxSaves,      \* bound: layouts saved
  MaxClock,      \* bound: the clock's milliseconds
  MaxRestarts    \* bound: hub restarts

ASSUME NamesAssumption == NoTab \notin Tabs \union Terminals /\ Gone \notin Tabs \union {NoTab}
ASSUME ActorsAssumption == Machine \notin Requests
ASSUME BoundsAssumption ==
  {MaxPanes, MaxStarts, MaxSaves, MaxClock, MaxRestarts} \subseteq Nat

VARIABLES
  tabs,     \* workspace_groups
  born,     \* the ids they have had
  rows,     \* terminal_sessions
  live,     \* machines[id].terminals: the tab of each
  doing,    \* what each request and the machine's handler are at
  layouts,  \* workspace_layouts; the last number a tab's layout had outlives
            \* the row, to tell whether a later one's is new
  editor,   \* the layout each browser shows
  odd,      \* terminals and tabs an overtaken or dropped request left behind
  mixed,    \* tabs numbered by two requests at once, or by half of one
  count     \* requests, saves and restarts so far

vars == <<tabs, born, rows, live, doing, layouts, editor, odd, mixed, count>>
places == <<tabs, born, rows, live>>
edits == <<layouts, editor>>

-----------------------------------------------------------------------------
Actors == Requests \union {Machine}
NoRow == [auto |-> FALSE, order |-> -1]
Exists(g) == g \in Tabs /\ tabs[g] # NoRow
ActiveIn(g) == {t \in Terminals : rows[t] = [state |-> "active", tab |-> g]}
Panes(g) == {t \in Terminals : live[t] = g}
Idle == [at |-> "idle"]
NoLayout == [saved |-> FALSE, doc |-> 0, rev |-> -1, reused |-> FALSE]
Dropped(row) == [row EXCEPT !.saved = FALSE, !.doc = 0]
At(a, step) == doing[a].at = step
Turn(a, work) == doing' = [doing EXCEPT ![a] = work]
Bump(what) == count' = [count EXCEPT ![what] = @ + 1]

Steps == {"asked", "orphan", "opening", "ordered", "placed", "set", "count", "empty",
          "unlaid", "clear", "layout", "delete", "forget", "reorder", "removed"}
Kinds == {"into", "fresh", "move", "append", "delete", "reorder", "death"}
Work == {Idle}
  \union [at : Steps, kind : Kinds, term : Terminals \union {Gone},
          tab : Tabs \union {NoTab}, prev : Tabs \union {NoTab}]
  \union [at : {"ordered"}, kind : Kinds, term : Terminals \union {Gone},
          tab : {NoTab}, prev : {NoTab}, order : Nat]
  \union [at : {"reorder"}, list : Seq(Tabs), order : Nat]

TypeOK ==
  /\ tabs \in [Tabs -> {NoRow} \union [auto : BOOLEAN, order : Nat]]
  /\ born \subseteq Tabs /\ {g \in Tabs : Exists(g)} \subseteq born
  /\ rows \in [Terminals -> [state : {"none", "active", "destroyed"},
                             tab : {NoTab} \union {g \in Tabs : Exists(g)}]]
  /\ live \in [Terminals -> Tabs \union {NoTab, Gone}]
  /\ doing \in [Actors -> Work]
  /\ layouts \in [Tabs -> [saved : BOOLEAN, doc : 0..MaxSaves, rev : Int, reused : BOOLEAN]]
  /\ editor \in [Editors -> [tab : Tabs, base : Int, doc : 0..MaxSaves, checked : BOOLEAN]]
  /\ odd \subseteq Tabs \union Terminals
  /\ mixed \in BOOLEAN
  /\ count \in [start : 0..MaxStarts, save : 0..MaxSaves, restart : 0..MaxRestarts]

Init ==
  /\ tabs = [g \in Tabs |-> NoRow] /\ born = {}
  /\ rows = [t \in Terminals |-> [state |-> "none", tab |-> NoTab]]
  /\ live = [t \in Terminals |-> Gone]
  /\ doing = [a \in Actors |-> Idle]
  /\ layouts = [g \in Tabs |-> NoLayout]
  /\ editor \in [Editors -> [tab : Tabs, base : {-1}, doc : {0}, checked : {FALSE}]]
  /\ odd = {} /\ mixed = FALSE
  /\ count = [start |-> 0, save |-> 0, restart |-> 0]

-----------------------------------------------------------------------------
(* Requests, up to where they change something.                            *)

Start(r, work) ==
  /\ doing[r] = Idle
  /\ count.start < MaxStarts
  /\ Turn(r, work)
  /\ Bump("start")
  /\ UNCHANGED <<places, edits, odd>>

Job(kind, step, t, g) ==
  [at |-> step, kind |-> kind, term |-> t, tab |-> g, prev |-> NoTab]

\* The tab named must exist and have room: workspace_group_belongs_to_machine
\* and workspace_group_pane_count, which leaves out a terminal being moved.
HasRoom(g, mover) == Exists(g) /\ Cardinality(Panes(g) \ {mover}) < MaxPanes

\* create_terminal, as far as the machine's answer.
AskCreate(r, g) ==
  /\ g = NoTab \/ HasRoom(g, Gone)
  /\ Start(r, Job(IF g = NoTab THEN "fresh" ELSE "into", "asked", Gone, g))
  /\ UNCHANGED mixed

\* assign_terminal_workspace_group, as far as its checks.
AskMove(r, t, g) ==
  /\ live[t] # Gone
  /\ g = NoTab \/ HasRoom(g, t)
  /\ Start(r, Job("move", "placed", t, g))
  /\ UNCHANGED mixed

\* create_workspace_group.
AskTab(r) == Start(r, Job("append", "opening", Gone, NoTab)) /\ UNCHANGED mixed

\* delete_workspace_group.
AskDelete(r, g) == Exists(g) /\ Start(r, Job("delete", "clear", Gone, g)) /\ UNCHANGED mixed

Numbering(r) == \E q \in Requests \ {r} : doing[q].at \in {"ordered", "reorder"}

\* reorder_workspace_groups: the list names every tab once.
AskReorder(r, list) ==
  /\ Start(r, [at |-> "reorder", list |-> list, order |-> 0])
  /\ mixed' = (mixed \/ Numbering(r))

\* One UPDATE of sort_order per tab, the next of the list.
NumberTab(r) ==
  /\ At(r, "reorder")
  /\ LET g == doing[r].list[doing[r].order + 1]
     IN  tabs' = IF Exists(g) THEN [tabs EXCEPT ![g].order = doing[r].order] ELSE tabs
  /\ Turn(r, IF doing[r].order + 1 = Len(doing[r].list) THEN Idle
             ELSE [doing[r] EXCEPT !.order = @ + 1])
  /\ UNCHANGED <<born, rows, live, edits, odd, mixed, count>>

\* rename_workspace_group makes the tab the user's.
Rename(g) ==
  /\ Exists(g) /\ tabs[g].auto
  /\ tabs' = [tabs EXCEPT ![g].auto = FALSE]
  /\ UNCHANGED <<born, rows, live, doing, edits, odd, mixed, count>>

\* create_terminal of the routes goes on with its terminal: to the tab it was
\* given, or to a tab of the terminal's own.
GoesOn(r, t) ==
  [doing[r] EXCEPT !.at = IF doing[r].kind = "fresh" THEN "opening" ELSE "placed", !.term = t]

\* The machine answers: in memory and in the database without a tab, and the
\* request goes on, unless it has been given up.
TerminalCreated(r) ==
  /\ doing[Machine] = Idle
  /\ At(r, "asked") \/ At(r, "orphan")
  /\ \E t \in Terminals :
       /\ rows[t].state = "none"
       /\ live' = [live EXCEPT ![t] = NoTab]
       /\ rows' = [rows EXCEPT ![t] = [state |-> "active", tab |-> NoTab]]
       /\ Turn(r, IF At(r, "orphan") THEN Idle ELSE GoesOn(r, t))
  /\ UNCHANGED <<tabs, born, edits, odd, mixed, count>>

\* TerminalCreateError.
Refused(r) ==
  /\ At(r, "asked") \/ At(r, "orphan")
  /\ Turn(r, Idle)
  /\ UNCHANGED <<places, edits, odd, mixed, count>>

-----------------------------------------------------------------------------
(* Opening a tab: auto_create_workspace_group, create_workspace_group.     *)

Orders == {tabs[g].order : g \in {h \in Tabs : Exists(h)}}
\* Mutant: the last number used, not the one after it.
LastOrder == IF Orders = {} THEN 0 ELSE Max(Orders)
NextOrder == IF Orders = {} THEN 0 ELSE Max(Orders) + 1

ReadOrder(r) ==
  /\ At(r, "opening")
  /\ LET w == doing[r]
     IN  Turn(r, [at |-> "ordered", kind |-> w.kind, term |-> w.term, tab |-> NoTab,
                  prev |-> NoTab, order |-> NextOrder])
  /\ mixed' = (mixed \/ Numbering(r))
  /\ UNCHANGED <<places, edits, odd, count>>

InsertTab(r) ==
  /\ At(r, "ordered")
  /\ \E g \in Tabs \ born :
       /\ tabs' = [tabs EXCEPT ![g] = [auto |-> doing[r].kind = "fresh",
                                       order |-> doing[r].order]]
       /\ born' = born \union {g}
       /\ Turn(r, IF doing[r].kind = "fresh" THEN Job("fresh", "placed", doing[r].term, g)
                  ELSE Idle)
  /\ UNCHANGED <<rows, live, edits, odd, mixed, count>>

-----------------------------------------------------------------------------
(* set_terminal_workspace_group: memory, the database, then the tab left.  *)

\* Between memory and database of two requests for one terminal, either may
\* win in either.
Rivals(r) == {q \in Requests \ {r} : At(q, "set") /\ doing[q].term = doing[r].term}
Spoilt(r) ==
  IF Rivals(r) = {} THEN {}
  ELSE {doing[r].term, live[doing[r].term], doing[r].tab, rows[doing[r].term].tab}
       \union {doing[q].tab : q \in Rivals(r)} \union {doing[q].prev : q \in Rivals(r)}

SetInMemory(r) ==
  /\ At(r, "placed")
  /\ LET t == doing[r].term
         left == IF doing[r].kind = "fresh" THEN {doing[r].tab} ELSE {}
     IN  \/ /\ live[t] # Gone
            /\ live' = [live EXCEPT ![t] = doing[r].tab]
            /\ Turn(r, [doing[r] EXCEPT !.at = "set", !.prev = live[t]])
            /\ odd' = odd \union (Spoilt(r) \ {NoTab})
         \/ /\ live[t] = Gone
            /\ live' = live
            /\ Turn(r, Idle)
            /\ odd' = odd \union left
  /\ UNCHANGED <<tabs, born, rows, edits, mixed, count>>

\* Mutant: a terminal taken out of its tab leaves the tab unlooked at.
LeavesMoved(w) == w.prev \notin {NoTab, w.tab} /\ w.tab # NoTab
Leaves(w) == w.prev \notin {NoTab, w.tab}

\* A foreign key keeps rows out of tabs that are gone.
AssignInDb(r) ==
  /\ At(r, "set")
  /\ LET w == doing[r]
     IN  \/ /\ w.tab = NoTab \/ Exists(w.tab)
            /\ rows' = [rows EXCEPT ![w.term].tab = w.tab]
            /\ Turn(r, IF Leaves(w) THEN [w EXCEPT !.at = "count", !.tab = w.prev] ELSE Idle)
            /\ odd' = odd
         \/ /\ w.tab # NoTab /\ ~Exists(w.tab)
            /\ rows' = rows
            /\ Turn(r, Idle)
            /\ odd' = odd \union ({w.term, rows[w.term].tab} \ {NoTab})
  /\ UNCHANGED <<tabs, born, live, edits, mixed, count>>

-----------------------------------------------------------------------------
(* prune_auto_tab_if_empty.                                                *)

CountPanes(a) ==
  /\ At(a, "count")
  /\ Turn(a, IF ActiveIn(doing[a].tab) = {} THEN [doing[a] EXCEPT !.at = "empty"] ELSE Idle)
  /\ UNCHANGED <<places, edits, odd, mixed, count>>

\* Mutant: any tab goes with its last pane.
PrunableAny(g) == Exists(g)
Prunable(g) == Exists(g) /\ tabs[g].auto

\* ON DELETE SET NULL.
Unassigned(g) == [t \in Terminals |-> IF rows[t].tab = g THEN [rows[t] EXCEPT !.tab = NoTab]
                                      ELSE rows[t]]
Without(g) == [tabs EXCEPT ![g] = NoRow]

DropIfAuto(a) ==
  /\ At(a, "empty")
  /\ LET g == doing[a].tab
     IN  IF Prunable(g)
         THEN /\ tabs' = Without(g) /\ rows' = Unassigned(g)
              /\ odd' = odd \union ActiveIn(g)
              /\ Turn(a, [doing[a] EXCEPT !.at = "unlaid"])
         ELSE UNCHANGED <<tabs, rows, odd>> /\ Turn(a, Idle)
  /\ UNCHANGED <<born, live, edits, mixed, count>>

DropLayout(a) ==
  /\ At(a, "unlaid") \/ At(a, "layout")
  /\ layouts' = [layouts EXCEPT ![doing[a].tab] = Dropped(@)]
  /\ Turn(a, IF At(a, "unlaid") THEN Idle ELSE [doing[a] EXCEPT !.at = "delete"])
  /\ UNCHANGED <<places, editor, odd, mixed, count>>

-----------------------------------------------------------------------------
(* delete_workspace_group: rows, layout (DropLayout), tab, memory.         *)

ClearRows(r) ==
  /\ At(r, "clear")
  /\ rows' = Unassigned(doing[r].tab)
  /\ Turn(r, [doing[r] EXCEPT !.at = "layout"])
  /\ UNCHANGED <<tabs, born, live, edits, odd, mixed, count>>

DeleteTab(r) ==
  /\ At(r, "delete")
  /\ tabs' = Without(doing[r].tab)
  /\ rows' = Unassigned(doing[r].tab)
  /\ Turn(r, [doing[r] EXCEPT !.at = "forget"])
  /\ UNCHANGED <<born, live, edits, odd, mixed, count>>

\* Mutant: memory keeps the tab.
Remembered(g) == live
Forgotten(g) == [t \in Terminals |-> IF live[t] = g THEN NoTab ELSE live[t]]

ForgetTab(r) ==
  /\ At(r, "forget")
  /\ live' = Forgotten(doing[r].tab)
  /\ Turn(r, Idle)
  /\ UNCHANGED <<tabs, born, rows, edits, odd, mixed, count>>

\* The client leaves or ten seconds pass: a creation the machine has not
\* answered goes on without the request, which ends where it waits for a lock.
GiveUp(r) ==
  /\ \/ At(r, "asked") /\ Turn(r, [doing[r] EXCEPT !.at = "orphan"]) /\ odd' = odd
     \/ /\ At(r, "placed") /\ Turn(r, Idle)
        /\ odd' = IF doing[r].kind = "fresh" THEN odd \union {doing[r].tab} ELSE odd
     \/ At(r, "forget") /\ Turn(r, Idle) /\ odd' = odd \union Panes(doing[r].tab)
  /\ UNCHANGED <<places, edits, mixed, count>>

-----------------------------------------------------------------------------
(* The machine's message TerminalDestroyed.                                *)

TerminalDestroyed(t) ==
  /\ doing[Machine] = Idle
  /\ live[t] # Gone
  /\ live' = [live EXCEPT ![t] = Gone]
  /\ Turn(Machine, Job("death", "removed", t, live[t]))
  /\ UNCHANGED <<tabs, born, rows, edits, odd, mixed, count>>

MarkDestroyed ==
  /\ At(Machine, "removed")
  /\ rows' = [rows EXCEPT ![doing[Machine].term].state = "destroyed"]
  /\ Turn(Machine, IF doing[Machine].tab = NoTab THEN Idle
                   ELSE [doing[Machine] EXCEPT !.at = "count"])
  /\ UNCHANGED <<tabs, born, live, edits, odd, mixed, count>>

-----------------------------------------------------------------------------
(* Saving a layout.                                                        *)

\* The browser has the layout from its snapshot or the last event.
Look(e, g) ==
  /\ ~editor[e].checked
  /\ editor' = [editor EXCEPT ![e] =
       [tab |-> g, doc |-> layouts[g].doc, checked |-> FALSE,
        base |-> IF layouts[g].saved THEN layouts[g].rev ELSE -1]]
  /\ UNCHANGED <<places, doing, layouts, odd, mixed, count>>

\* save_workspace_layout's checks.
CheckLayout(e) ==
  /\ Exists(editor[e].tab) /\ ~editor[e].checked
  /\ editor' = [editor EXCEPT ![e].checked = TRUE]
  /\ UNCHANGED <<places, doing, layouts, odd, mixed, count>>

\* Mutant: a base of -1 overwrites a row.
ConflictsUnlessNew(row, base) == base >= 0 /\ (~row.saved \/ row.rev > base)
\* workspace_layout_base_conflicts.
Conflicts(row, base) ==
  IF base < 0 THEN row.saved ELSE ~row.saved \/ row.rev > base

\* updated_at: past the row's own, even with the clock set back.  Without a
\* row it is the clock's, which may be a number that an earlier row had.
Stamps(row) == {IF row.saved THEN Max({row.rev + 1, now}) ELSE now : now \in 0..MaxClock}

\* upsert_workspace_layout_checked, delete_workspace_layout_checked: one
\* immediate transaction; the answer may be lost.
SaveLayout(e) ==
  /\ editor[e].checked
  /\ LET g == editor[e].tab
         missed == [editor EXCEPT ![e].checked = FALSE]
     IN  \/ /\ Conflicts(layouts[g], editor[e].base)
            /\ editor' = missed
            /\ UNCHANGED <<layouts, count>>
         \/ /\ ~Conflicts(layouts[g], editor[e].base)
            /\ count.save < MaxSaves
            /\ Bump("save")
            /\ \E rev \in Stamps(layouts[g]) :
                 /\ layouts' = [layouts EXCEPT ![g] =
                                  [saved |-> TRUE, doc |-> count.save + 1, rev |-> rev,
                                   reused |-> @.reused \/ rev <= @.rev]]
                 /\ \/ editor' = missed
                    \/ editor' = [missed EXCEPT ![e].base = rev, ![e].doc = count.save + 1]
  /\ UNCHANGED <<places, doing, odd, mixed>>

-----------------------------------------------------------------------------
(* The hub restarts: migrate_ungrouped_terminals_into_tabs, a tab for the  *)
(* terminals of one directory, then delete_empty_auto_tabs, whose layouts  *)
(* stay; memory is loaded from the rows.                                   *)
Ungrouped == {t \in Terminals : rows[t] = [state |-> "active", tab |-> NoTab]}
Occupied(kept, g) == \E t \in Terminals : kept[t] = [state |-> "active", tab |-> g]

RestartHub ==
  /\ count.restart < MaxRestarts
  /\ Bump("restart")
  /\ \E new \in [Ungrouped -> Tabs \ born] :
       LET made == {new[t] : t \in Ungrouped}
       IN  \E place \in [made -> NextOrder..(NextOrder + Cardinality(made) - 1)] :
             /\ \A g, h \in made : place[g] = place[h] => g = h
             /\ LET kept == [t \in Terminals |->
                               IF t \in Ungrouped THEN [rows[t] EXCEPT !.tab = new[t]] ELSE rows[t]]
                    all == [g \in Tabs |->
                              IF g \in made THEN [auto |-> TRUE, order |-> place[g]] ELSE tabs[g]]
                    empty == {g \in Tabs : all[g].auto /\ ~Occupied(kept, g)}
                IN  /\ tabs' = [g \in Tabs |-> IF g \in empty THEN NoRow ELSE all[g]]
                    /\ rows' = [t \in Terminals |->
                         IF kept[t].tab \in empty THEN [kept[t] EXCEPT !.tab = NoTab] ELSE kept[t]]
             /\ born' = born \union made
  /\ live' = [t \in Terminals |-> IF rows'[t].state = "active" THEN rows'[t].tab ELSE Gone]
  /\ doing' = [a \in Actors |-> Idle]
  /\ editor' = [e \in Editors |-> [editor[e] EXCEPT !.checked = FALSE]]
  /\ odd' = {}
  /\ mixed' = (mixed \/ \E r \in Requests : At(r, "reorder"))
  /\ UNCHANGED layouts

-----------------------------------------------------------------------------
Lists == {l \in [1..Cardinality({g \in Tabs : Exists(g)}) -> {g \in Tabs : Exists(g)}] :
            \A i, j \in DOMAIN l : i # j => l[i] # l[j]}

RequestStep(r) ==
  \/ \E g \in Tabs \union {NoTab} : AskCreate(r, g)
  \/ \E t \in Terminals, g \in Tabs \union {NoTab} : AskMove(r, t, g)
  \/ AskTab(r)
  \/ \E g \in Tabs : AskDelete(r, g)
  \/ \E list \in Lists \ {<<>>} : AskReorder(r, list)
  \/ NumberTab(r) \/ TerminalCreated(r) \/ Refused(r)
  \/ ReadOrder(r) \/ InsertTab(r) \/ SetInMemory(r) \/ AssignInDb(r)
  \/ ClearRows(r) \/ DeleteTab(r) \/ ForgetTab(r) \/ GiveUp(r)

EditStep(e) == (\E g \in Tabs : Look(e, g)) \/ CheckLayout(e) \/ SaveLayout(e)

Next ==
  \/ \E r \in Requests : RequestStep(r)
  \/ \E g \in Tabs : Rename(g)
  \/ \E a \in Actors : CountPanes(a) \/ DropIfAuto(a) \/ DropLayout(a)
  \/ \E t \in Terminals : TerminalDestroyed(t)
  \/ MarkDestroyed
  \/ \E e \in Editors : EditStep(e)
  \/ RestartHub

Spec == Init /\ [][Next]_vars

-----------------------------------------------------------------------------
(* A tab the user opened or renamed goes only when a user deletes it,      *)
(* whatever its panes do and however the renaming falls between the count  *)
(* and the deletion of a tab found empty.                                  *)
AdoptedStays ==
  [][\A g \in Tabs : Exists(g) /\ ~tabs[g].auto /\ tabs'[g] = NoRow =>
       \E r \in Requests : At(r, "delete") /\ doing[r].tab = g]_vars

(* A tab of the hub's own without panes has someone who will take it away: *)
(* a request or the machine's handler that is about to place a terminal    *)
(* in it, took the last one out, or is deleting it.                        *)
Attended(g) ==
  \E a \in Actors :
    \/ doing[a].at \in {"placed", "count", "empty", "removed", "layout", "delete"}
       /\ doing[a].tab = g
    \/ At(a, "set") /\ g \in {doing[a].tab, doing[a].prev}

EmptyTabGoes ==
  \A g \in Tabs : Exists(g) /\ tabs[g].auto /\ ActiveIn(g) = {} /\ g \notin odd => Attended(g)

(* Memory and database agree about a terminal nobody is moving.            *)
Moving(t) ==
  \E a \in Actors :
    \/ doing[a].at \in {"set", "removed"} /\ doing[a].term = t
    \/ doing[a].at \in {"layout", "delete", "forget"} /\ doing[a].tab = live[t]

PlacesAgree ==
  \A t \in Terminals :
    t \notin odd /\ ~Moving(t) =>
      IF live[t] = Gone THEN rows[t].state # "active"
      ELSE rows[t] = [state |-> "active", tab |-> live[t]]

(* The strip is one ordered list: no two tabs have the same number, unless *)
(* two requests numbered tabs at once or the hub stopped during one.       *)
StripIsOrdered ==
  ~mixed /\ (\A r \in Requests : ~At(r, "reorder")) =>
    \A g, h \in Tabs : Exists(g) /\ Exists(h) /\ tabs[g].order = tabs[h].order => g = h

(* No save overwrites a layout its editor has not seen: two browsers that  *)
(* rearrange one tab do not undo each other, through lost answers, a clock *)
(* that is set back and tabs that go.  Only where a layout was dropped and *)
(* made again under a number not past the dropped one's can a browser that *)
(* still shows the old layout overwrite the new.                           *)
Register == INSTANCE LayoutRegister WITH
  Docs <- 1..MaxSaves, NoDoc <- 0,
  docs <- [g \in Tabs |-> layouts[g].doc],
  reused <- {g \in Tabs : layouts[g].reused},
  seen <- [e \in Editors |-> [tab |-> editor[e].tab, doc |-> editor[e].doc]]
EditsBuildOn == Register!Spec
=============================================================================
