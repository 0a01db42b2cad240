---------------------------- MODULE LayoutRegister ----------------------------
(***************************************************************************)
(* What saving a tab's pane layout promises: each saved layout was made    *)
(* from the one it replaces.  WorkspaceTabs implements it with revisions   *)
(* taken from the clock (crates/hub/src/db/workspace_layouts.rs), which    *)
(* are forgotten with the layout: in a tab whose layout has gone and come  *)
(* back under an old revision, nothing is promised.                        *)
(***************************************************************************)
EXTENDS Naturals

CONSTANTS Tabs, Editors, Docs, NoDoc

VARIABLES
  docs,   \* the layout kept for each tab
  reused, \* tabs whose layout came back under an old revision
  seen    \* the tab each editor shows, and the layout it starts from

Init ==
  /\ docs = [g \in Tabs |-> NoDoc] /\ reused = {}
  /\ seen \in [Editors -> [tab : Tabs, doc : {NoDoc}]]

Look(e, g) ==
  /\ seen' = [seen EXCEPT ![e] = [tab |-> g, doc |-> docs[g]]]
  /\ UNCHANGED <<docs, reused>>

(* An editor saves over the layout it has seen, and over no other; it may  *)
(* not hear of it.  A revision comes back only where no layout is kept.    *)
Save(e, d) ==
  LET g == seen[e].tab
  IN  /\ seen[e].doc = docs[g] \/ g \in reused
      /\ docs' = [docs EXCEPT ![g] = d]
      /\ seen' \in {seen, [seen EXCEPT ![e].doc = d]}
      /\ reused' = reused \/ (docs[g] = NoDoc /\ reused' = reused \union {g})

Drop(g) == docs' = [docs EXCEPT ![g] = NoDoc] /\ UNCHANGED <<reused, seen>>

Next ==
  \/ \E e \in Editors, g \in Tabs : Look(e, g)
  \/ \E e \in Editors, d \in Docs : Save(e, d)
  \/ \E g \in Tabs : Drop(g)

Spec == Init /\ [][Next]_<<docs, reused, seen>>
=============================================================================
