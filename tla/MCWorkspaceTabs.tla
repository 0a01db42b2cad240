--------------------------- MODULE MCWorkspaceTabs ---------------------------
(* WorkspaceTabs with interchangeable terminals, tabs, requests, editors.    *)
EXTENDS WorkspaceTabs, TLC

Symmetric ==
  Permutations(Terminals) \union Permutations(Tabs)
  \union Permutations(Requests) \union Permutations(Editors)

(* Where browsers edit layouts, the rest of the machine is smaller: two     *)
(* tabs, one terminal, one request at a time.  Tabs and layouts meet in the *)
(* deletion of a tab alone, for which this is enough.                       *)
NobodyEdits ==
  /\ count.save = 0
  /\ \A e, f \in Editors : ~editor[e].checked /\ editor[e].tab = editor[f].tab
FewTabs ==
  /\ count.start < MaxStarts
  /\ Cardinality(born \union {editor[e].tab : e \in Editors}) <= 1
  /\ Cardinality({t \in Terminals : rows[t].state # "none"}) <= 1
  /\ Cardinality({r \in Requests : doing[r] # Idle}) <= 1
Bounds == NobodyEdits \/ FewTabs

=============================================================================
