------------------------- MODULE WorkspaceTabsProofs -------------------------
(***************************************************************************)
(* Tabs, terminals and the strip, for any number of requests, terminals    *)
(* and tabs.  TabsInv is what holds between any two steps of the handlers: *)
(*   Shapes   what a request has in hand at each of its steps;             *)
(*   Settled  where a terminal is: in its row as in memory, but for the    *)
(*            request or the destruction that is between the two;          *)
(*   Minded   who will take away a tab of the hub's own that is empty;     *)
(*   Strip    the numbers of the tabs, and how far a reordering has come.  *)
(* Minded needs Settled (the terminal that leaves a tab is the one whose   *)
(* row names it), and both need Shapes.                                    *)
(*                                                                         *)
(* Saving layouts implements LayoutRegister for any number of browsers,    *)
(* saves and any clock.  LayoutInv is why revisions from a clock can stand *)
(* for layouts: as long as no layout of a tab came back under an old       *)
(* revision, a base at least as new as the tab's revision is that revision *)
(* and names its layout.                                                   *)
(***************************************************************************)
EXTENDS WorkspaceTabs, FiniteSetTheorems, SequenceTheorems, WellFoundedInduction, TLAPS

-----------------------------------------------------------------------------
(* What a request or the machine's handler can be at.                      *)

Names == Tabs \union {NoTab}
TermSteps == Steps \ {"ordered", "reorder"}
TermWork == [at : TermSteps, kind : Kinds, term : Terminals \union {Gone},
             tab : Names, prev : Names]
OrderWork == [at : {"ordered"}, kind : Kinds, term : Terminals \union {Gone},
              tab : {NoTab}, prev : {NoTab}, order : Nat]
ListWork == [at : {"reorder"}, list : Seq(Tabs), order : Nat]
Doings == {Idle} \union TermWork \union OrderWork \union ListWork

Known == born \union {NoTab}
Spawned(t) == t \in Terminals /\ rows[t].state # "none"

Shape(a) ==
  LET w == doing[a]
  IN  /\ a = Machine => w.at \in {"idle", "removed", "count", "empty", "unlaid"}
      /\ w.at = "removed" => a = Machine
      /\ w \in TermWork => w.tab \in Known /\ w.prev \in Known
      /\ w.at \in {"placed", "set", "removed"} => Spawned(w.term)
      /\ w.at \in {"opening", "ordered"} =>
           w.kind \in {"fresh", "append"} /\ (w.kind = "fresh" => Spawned(w.term))
      /\ w.at \in {"count", "empty", "unlaid", "clear", "layout", "delete", "forget"} =>
           w.tab \in Tabs
      /\ w.at = "placed" /\ w.kind = "fresh" => w.tab \in Tabs
      /\ w.at = "forget" => ~Exists(w.tab)
      /\ w.at = "reorder" => w.order < Len(w.list)

PlaceTypes ==
  /\ tabs \in [Tabs -> {NoRow} \union [auto : BOOLEAN, order : Nat]]
  /\ born \subseteq Tabs /\ \A g \in Tabs : Exists(g) => g \in born
  /\ rows \in [Terminals -> [state : {"none", "active", "destroyed"}, tab : Names]]
  /\ \A t \in Terminals : rows[t].tab = NoTab \/ Exists(rows[t].tab)
  /\ live \in [Terminals -> Names \union {Gone}]
  /\ \A t \in Terminals : live[t] \in Known \union {Gone} /\ (live[t] # Gone => Spawned(t))

Finite == IsFiniteSet(born) /\ IsFiniteSet({t \in Terminals : rows[t].state # "none"})
Bounded == \E n \in Nat : \A g \in Tabs : Exists(g) => tabs[g].order <= n

Shapes ==
  /\ PlaceTypes /\ Finite /\ Bounded
  /\ doing \in [Actors -> Doings] /\ \A a \in Actors : Shape(a)

Grown ==
  /\ born \subseteq born'
  /\ \A t : Spawned(t) => Spawned(t)'
  /\ \A g \in born : ~Exists(g) => ~Exists(g)'

LEMMA Turned ==
  ASSUME Shapes, NEW a \in Actors, NEW w, Turn(a, w)
  PROVE  doing'[a] = w /\ \A b \in Actors \ {a} : doing'[b] = doing[b]
BY DEF Turn, Shapes

LEMMA KindOfWork ==
  ASSUME Shapes, NEW a \in Actors
  PROVE  /\ doing[a].at \in TermSteps => doing[a] \in TermWork
         /\ doing[a].at = "ordered" => doing[a] \in OrderWork
         /\ doing[a].at = "reorder" => doing[a] \in ListWork
         /\ doing[a].at \in Steps \union {"idle"}
BY DEF Shapes, Doings, TermWork, OrderWork, ListWork, Idle, Steps, TermSteps

LEMMA ShapeStays ==
  ASSUME Shapes, Grown, NEW a \in Actors, doing'[a] = doing[a]
  PROVE  Shape(a)'
<1>1. doing[a] \in Doings /\ Shape(a)
  BY DEF Shapes
<1>2. doing[a].at = "forget" => doing[a].tab \in born
  BY <1>1, KindOfWork, NamesAssumption DEF Shape, Known, TermSteps, Steps
<1>3. Known \subseteq Known'
  BY DEF Known, Grown
<1> QED BY <1>1, <1>2, <1>3 DEF Shape, Grown, TermWork, Names

LEMMA ShapesAfter ==
  ASSUME Shapes, Grown, PlaceTypes', Finite', Bounded', NEW a \in Actors, NEW w, Turn(a, w),
         w \in Doings, Shape(a)'
  PROVE  Shapes'
<1>1. doing' \in [Actors -> Doings]
  BY DEF Turn, Shapes
<1>2. \A b \in Actors : Shape(b)'
  BY Turned, ShapeStays
<1>3. Doings' = Doings /\ Actors' = Actors
  BY DEF Doings, Actors, TermWork, OrderWork, ListWork, Names
<1> QED BY <1>1, <1>2, <1>3 DEF Shapes

LEMMA StillPlaces ==
  ASSUME Shapes, UNCHANGED places
  PROVE  Grown /\ PlaceTypes' /\ Finite' /\ Bounded'
BY DEF Shapes, places, Grown, PlaceTypes, Finite, Bounded, Exists, Spawned, Known

LEMMA StartShapes ==
  ASSUME Shapes, NEW r \in Requests, NEW kind \in Kinds, NEW step \in TermSteps,
         NEW t \in Terminals \union {Gone}, NEW g \in Names,
         Start(r, Job(kind, step, t, g)), g \in Known,
         step \in {"asked", "opening", "placed", "clear"},
         step = "opening" => kind = "append",
         step = "placed" => kind # "fresh" /\ Spawned(t),
         step = "clear" => g \in Tabs
  PROVE  Shapes'
<1>1. Turn(r, Job(kind, step, t, g)) /\ UNCHANGED places /\ r \in Actors /\ r # Machine
  BY ActorsAssumption DEF Start, Actors, places
<1>2. Job(kind, step, t, g) \in Doings
  BY DEF Job, Doings, TermWork, Names
<1>3. doing'[r] = Job(kind, step, t, g)
  BY <1>1, Turned
<1>4. Shape(r)'
  BY <1>1, <1>3, StillPlaces DEF Shape, Job, Grown, Known
<1> QED BY <1>1, <1>2, <1>4, StillPlaces, ShapesAfter

LEMMA AskShapes ==
  ASSUME Shapes, NEW r \in Requests,
         \/ \E g \in Tabs \union {NoTab} : AskCreate(r, g)
         \/ \E t \in Terminals, g \in Tabs \union {NoTab} : AskMove(r, t, g)
         \/ AskTab(r)
         \/ \E g \in Tabs : AskDelete(r, g)
  PROVE  Shapes'
<1>0. \A g : Exists(g) => g \in Known /\ g \in Tabs
  BY DEF Shapes, PlaceTypes, Known, Exists
<1>1. {"asked", "opening", "placed", "clear"} \subseteq TermSteps
      /\ {"into", "fresh", "append", "move", "delete"} \subseteq Kinds
  BY DEF TermSteps, Steps, Kinds
<1>2. ASSUME NEW g \in Names, AskCreate(r, g) PROVE Shapes'
  <2>1. g \in Known
    BY <1>0, <1>2 DEF AskCreate, HasRoom, Known
  <2> QED BY <1>1, <1>2, <2>1, StartShapes DEF AskCreate
<1>3. ASSUME NEW t \in Terminals, NEW g \in Names, AskMove(r, t, g) PROVE Shapes'
  <2>1. g \in Known
    BY <1>0, <1>3 DEF AskMove, HasRoom, Known
  <2>2. Spawned(t)
    BY <1>3 DEF AskMove, Shapes, PlaceTypes, Spawned
  <2> QED BY <1>1, <1>3, <2>1, <2>2, StartShapes DEF AskMove
<1>4. CASE AskTab(r)
  BY <1>1, <1>4, StartShapes DEF AskTab, Names, Known
<1>5. ASSUME NEW g \in Tabs, AskDelete(r, g) PROVE Shapes'
  BY <1>0, <1>1, <1>5, StartShapes DEF AskDelete, Names
<1> QED BY <1>2, <1>3, <1>4, <1>5 DEF Names

LEMMA ShapesStill ==
  ASSUME Shapes, Grown, PlaceTypes', Finite', Bounded', UNCHANGED doing
  PROVE  Shapes'
<1>1. \A b \in Actors : Shape(b)'
  BY ShapeStays
<1>2. Doings' = Doings /\ Actors' = Actors
  BY DEF Doings, Actors, TermWork, OrderWork, ListWork, Names
<1> QED BY <1>1, <1>2 DEF Shapes

LEMMA IdleShape ==
  ASSUME Shapes, Grown, PlaceTypes', Finite', Bounded', NEW a \in Actors, Turn(a, Idle)
  PROVE  Shapes'
<1>1. Idle \in Doings
  BY DEF Doings
<1>2. doing'[a] = Idle
  BY Turned
<1>3. Shape(a)'
  BY <1>2 DEF Shape, Idle, TermWork, TermSteps, Steps
<1> QED BY <1>1, <1>3, ShapesAfter

(* A step that leaves the number of terminals and ids as it is.            *)
LEMMA SameFinite ==
  ASSUME Shapes, rows' \in [Terminals -> [state : {"none", "active", "destroyed"}, tab : Names]],
         \A t \in Terminals : rows'[t].state # "none" <=> rows[t].state # "none",
         UNCHANGED born
  PROVE  Finite'
<1>1. {t \in Terminals : rows'[t].state # "none"} = {t \in Terminals : rows[t].state # "none"}
  OBVIOUS
<1> QED BY <1>1 DEF Shapes, Finite

LEMMA TabRows ==
  ASSUME Shapes, NEW g \in Tabs
  PROVE  /\ Exists(g) <=> tabs[g] \in [auto : BOOLEAN, order : Nat]
         /\ Exists(g) => tabs[g].order \in Nat /\ tabs[g].auto \in BOOLEAN
BY DEF Shapes, PlaceTypes, Exists, NoRow

LEMMA NumberShapes ==
  ASSUME Shapes, NEW r \in Requests, NumberTab(r)
  PROVE  Shapes'
<1> DEFINE w == doing[r]
           g == w.list[w.order + 1]
<1>0. r \in Actors /\ r # Machine
  BY ActorsAssumption DEF Actors
<1>1. w \in ListWork /\ w.order < Len(w.list) /\ w.order \in Nat
  BY <1>0, KindOfWork DEF NumberTab, At, Shapes, Shape, ListWork
<1>2. g \in Tabs
  BY <1>1 DEF ListWork
<1>3. /\ tabs' = IF Exists(g) THEN [tabs EXCEPT ![g].order = w.order] ELSE tabs
      /\ UNCHANGED <<born, rows, live>>
  BY DEF NumberTab
<1>4. /\ tabs' \in [Tabs -> {NoRow} \union [auto : BOOLEAN, order : Nat]]
      /\ \A h : Exists(h)' <=> Exists(h)
      /\ \A h \in Tabs : tabs'[h].order \in {tabs[h].order, w.order}
  <2> HIDE DEF g, w
  <2> QED BY <1>1, <1>2, <1>3 DEF Shapes, PlaceTypes, Exists, NoRow
<1>5. PlaceTypes' /\ Grown /\ Finite'
  BY <1>3, <1>4 DEF Shapes, PlaceTypes, Grown, Finite, Spawned, Known
<1>6. Bounded'
  <2>1. PICK n \in Nat : \A h \in Tabs : Exists(h) => tabs[h].order <= n
    BY DEF Shapes, Bounded
  <2>2. n + w.order \in Nat /\ \A h \in Tabs : Exists(h)' => tabs'[h].order <= n + w.order
    <3> HIDE DEF g, w
    <3> QED BY <2>1, <1>1, <1>4, TabRows DEF Exists
  <2> QED BY <2>2 DEF Bounded
<1>7. CASE w.order + 1 = Len(w.list)
  BY <1>0, <1>5, <1>6, <1>7, IdleShape DEF NumberTab
<1>8. CASE w.order + 1 # Len(w.list)
  <2> DEFINE v == [w EXCEPT !.order = @ + 1]
  <2>1. v \in ListWork /\ v.order < Len(v.list) /\ v.at = "reorder"
    BY <1>1, <1>8 DEF ListWork
  <2>2. Turn(r, v)
    BY <1>8 DEF NumberTab
  <2> HIDE DEF v
  <2>3. doing'[r] = v
    BY <1>0, <2>2, Turned
  <2>4. Shape(r)'
    BY <1>0, <2>1, <2>3 DEF Shape, TermWork, TermSteps
  <2> QED BY <1>0, <1>5, <1>6, <2>1, <2>2, <2>4, ShapesAfter DEF Doings
<1> QED BY <1>7, <1>8

LEMMA RenameShapes ==
  ASSUME Shapes, NEW g \in Tabs, Rename(g)
  PROVE  Shapes'
<1>1. /\ tabs' \in [Tabs -> {NoRow} \union [auto : BOOLEAN, order : Nat]]
      /\ \A h : Exists(h)' <=> Exists(h)
      /\ \A h \in Tabs : tabs'[h].order = tabs[h].order
  <2>1. tabs[g] \in [auto : BOOLEAN, order : Nat] /\ tabs' = [tabs EXCEPT ![g].auto = FALSE]
    BY TabRows DEF Rename
  <2>2. tabs'[g] \in [auto : BOOLEAN, order : Nat] /\ tabs'[g].order = tabs[g].order
        /\ \A h \in Tabs \ {g} : tabs'[h] = tabs[h]
    BY <2>1 DEF Shapes, PlaceTypes
  <2>3. tabs[g] # NoRow /\ tabs'[g] # NoRow
    BY <2>1, <2>2 DEF NoRow
  <2> QED BY <2>1, <2>2, <2>3 DEF Shapes, PlaceTypes, Exists
<1>2. PlaceTypes' /\ Grown /\ Finite' /\ Bounded'
  BY <1>1 DEF Rename, Shapes, PlaceTypes, Grown, Finite, Spawned, Known, Bounded
<1> QED BY <1>2, ShapesStill DEF Rename

LEMMA CreatedShapes ==
  ASSUME Shapes, NEW r \in Requests, TerminalCreated(r)
  PROVE  Shapes'
<1>0. r \in Actors /\ r # Machine
  BY ActorsAssumption DEF Actors
<1>1. PICK t \in Terminals :
       /\ rows[t].state = "none"
       /\ live' = [live EXCEPT ![t] = NoTab]
       /\ rows' = [rows EXCEPT ![t] = [state |-> "active", tab |-> NoTab]]
       /\ Turn(r, IF At(r, "orphan") THEN Idle ELSE GoesOn(r, t))
  BY DEF TerminalCreated
<1>2. UNCHANGED <<tabs, born>> /\ (At(r, "asked") \/ At(r, "orphan"))
  BY DEF TerminalCreated
<1>3. PlaceTypes' /\ Grown
  BY <1>1, <1>2 DEF Shapes, PlaceTypes, Grown, Names, Spawned, Known, Exists
<1>4. Finite'
  <2>1. {u \in Terminals : rows'[u].state # "none"}
          = {u \in Terminals : rows[u].state # "none"} \union {t}
    BY <1>1 DEF Shapes, PlaceTypes
  <2> QED BY <1>2, <2>1, FS_AddElement DEF Shapes, Finite
<1>5. Bounded'
  BY <1>2 DEF Shapes, Bounded, Exists
<1>6. CASE At(r, "orphan")
  BY <1>0, <1>1, <1>3, <1>4, <1>5, <1>6, IdleShape
<1>7. CASE ~At(r, "orphan")
  <2> DEFINE w == GoesOn(r, t)
  <2>1. doing[r] \in TermWork /\ Shape(r)
    BY <1>0, <1>2, <1>7, KindOfWork DEF At, TermSteps, Steps, Shapes
  <2>2. w \in TermWork /\ w.term = t /\ w.tab = doing[r].tab /\ w.prev = doing[r].prev
        /\ w.kind = doing[r].kind
        /\ w.at = IF doing[r].kind = "fresh" THEN "opening" ELSE "placed"
    BY <2>1 DEF GoesOn, TermWork, TermSteps, Steps
  <2>3. doing'[r] = w
    BY <1>0, <1>1, <1>7, Turned
  <2> HIDE DEF w
  <2>4. Spawned(t)'
    BY <1>1 DEF Spawned, Shapes, PlaceTypes
  <2>5. Shape(r)'
    BY <1>0, <1>2, <2>1, <2>2, <2>3, <2>4 DEF Shape, Known
  <2> QED BY <1>0, <1>1, <1>3, <1>4, <1>5, <1>7, <2>2, <2>5, ShapesAfter DEF Doings, w
<1> QED BY <1>6, <1>7

LEMMA MaxOfNaturals ==
  ASSUME NEW S \in SUBSET Nat, S # {}, NEW n \in Nat, \A x \in S : x <= n
  PROVE  Max(S) \in S /\ \A x \in S : x <= Max(S)
<1> DEFINE Less == {p \in Nat \X Nat : p[1] < p[2]}
           Above == {m \in Nat : \A x \in S : x <= m}
<1>1. OpToRel(<, Nat) = Less
  BY Zenon DEF OpToRel
<1>2. IsWellFoundedOn(Less, Nat)
  BY <1>1, NatLessThanWellFounded
<1>3. PICK m \in Above : \A k \in Above : ~ (<<k, m>> \in Less)
  <2>1. Above \subseteq Nat /\ n \in Above
    OBVIOUS
  <2> HIDE DEF Less, Above
  <2> QED BY <1>2, <2>1, WFMin
<1>4. m \in S
  <2> SUFFICES ASSUME m \notin S PROVE FALSE
    OBVIOUS
  <2>1. \A x \in S : x < m
    BY <1>3
  <2>2. m - 1 \in Above
    <3>1. PICK y \in S : TRUE
      OBVIOUS
    <3>2. m - 1 \in Nat
      BY <2>1, <3>1, <1>3
    <3> QED BY <2>1, <3>2
  <2>3. <<m - 1, m>> \in Less
    BY <2>2, <1>3
  <2> QED BY <1>3, <2>2, <2>3
<1>5. m \in S /\ \A y \in S : m >= y
  BY <1>3, <1>4
<1> HIDE DEF Less, Above
<1> QED BY <1>5 DEF Max

LEMMA NextOrderIsNew ==
  ASSUME Shapes
  PROVE  NextOrder \in Nat /\ \A g \in Tabs : Exists(g) => tabs[g].order < NextOrder
<1>1. PICK n \in Nat : \A g \in Tabs : Exists(g) => tabs[g].order <= n
  BY DEF Shapes, Bounded
<1>2. Orders \subseteq Nat /\ \A x \in Orders : x <= n
  BY <1>1, TabRows DEF Orders
<1>3. \A g \in Tabs : Exists(g) => tabs[g].order \in Orders
  BY DEF Orders
<1>4. CASE Orders = {}
  BY <1>3, <1>4 DEF NextOrder
<1>5. CASE Orders # {}
  <2>1. Max(Orders) \in Orders /\ \A x \in Orders : x <= Max(Orders)
    BY <1>2, <1>5, MaxOfNaturals
  <2> DEFINE m == Max(Orders)
  <2>2. m \in Nat /\ NextOrder = m + 1
    BY <1>2, <1>5, <2>1 DEF NextOrder
  <2>3. \A g \in Tabs : Exists(g) => tabs[g].order \in Nat /\ tabs[g].order <= m
    BY <1>2, <1>3, <2>1
  <2> HIDE DEF m
  <2> QED BY <2>2, <2>3
<1> QED BY <1>4, <1>5

LEMMA ReadShapes ==
  ASSUME Shapes, NEW r \in Requests, ReadOrder(r)
  PROVE  Shapes'
<1>0. r \in Actors /\ r # Machine
  BY ActorsAssumption DEF Actors
<1> DEFINE w == doing[r]
           v == [at |-> "ordered", kind |-> w.kind, term |-> w.term, tab |-> NoTab,
                 prev |-> NoTab, order |-> NextOrder]
<1>1. w \in TermWork /\ w.at = "opening" /\ Shape(r)
  BY <1>0, KindOfWork DEF ReadOrder, At, Shapes, TermSteps, Steps
<1>2. v \in OrderWork
  BY <1>1, NextOrderIsNew DEF TermWork, OrderWork
<1>3. Turn(r, v) /\ UNCHANGED places
  BY DEF ReadOrder
<1>4. doing'[r] = v /\ Grown
  BY <1>0, <1>3, Turned, StillPlaces
<1>5. Shape(r)'
  BY <1>0, <1>1, <1>4, <1>2 DEF Shape, TermWork, TermSteps, Grown
<1> QED BY <1>0, <1>2, <1>3, <1>5, StillPlaces, ShapesAfter DEF Doings

LEMMA InsertShapes ==
  ASSUME Shapes, NEW r \in Requests, InsertTab(r)
  PROVE  Shapes'
<1>0. r \in Actors /\ r # Machine
  BY ActorsAssumption DEF Actors
<1> DEFINE w == doing[r]
<1>1. w \in OrderWork /\ w.at = "ordered" /\ Shape(r)
  BY <1>0, KindOfWork DEF InsertTab, At, Shapes
<1>2. PICK g \in Tabs \ born :
       /\ tabs' = [tabs EXCEPT ![g] = [auto |-> w.kind = "fresh", order |-> w.order]]
       /\ born' = born \union {g}
       /\ Turn(r, IF w.kind = "fresh" THEN Job("fresh", "placed", w.term, g) ELSE Idle)
  BY DEF InsertTab
<1>3. UNCHANGED <<rows, live>>
  BY DEF InsertTab
<1>4. /\ tabs'[g] \in [auto : BOOLEAN, order : Nat] /\ tabs'[g].order = w.order
      /\ \A h \in Tabs \ {g} : tabs'[h] = tabs[h]
      /\ w.order \in Nat
  BY <1>1, <1>2 DEF OrderWork, Shapes, PlaceTypes
<1>5. Exists(g)' /\ \A h \in Tabs \ {g} : Exists(h)' <=> Exists(h)
  BY <1>4 DEF Exists, NoRow
<1>6. PlaceTypes' /\ Grown
  BY <1>2, <1>3, <1>4, <1>5 DEF Shapes, PlaceTypes, Grown, Spawned, Known, Exists
<1>7. Finite'
  BY <1>2, <1>3, FS_AddElement DEF Shapes, Finite
<1>8. Bounded'
  <2>1. PICK n \in Nat : \A h \in Tabs : Exists(h) => tabs[h].order <= n
    BY DEF Shapes, Bounded
  <2>2. n + w.order \in Nat /\ \A h \in Tabs : Exists(h)' => tabs'[h].order <= n + w.order
    <3> HIDE DEF w
    <3> QED BY <2>1, <1>4, <1>5, TabRows
  <2> QED BY <2>2 DEF Bounded
<1>9. CASE w.kind # "fresh"
  BY <1>0, <1>2, <1>6, <1>7, <1>8, <1>9, IdleShape
<1>10. CASE w.kind = "fresh"
  <2> DEFINE v == Job("fresh", "placed", w.term, g)
  <2>1. v \in TermWork
    BY <1>1 DEF OrderWork, Job, TermWork, TermSteps, Steps, Kinds, Names
  <2>2. doing'[r] = v
    BY <1>0, <1>2, <1>10, Turned
  <2>3. Shape(r)'
    BY <1>0, <1>1, <1>2, <1>6, <1>10, <2>2, <2>1 DEF Shape, Job, Known, Grown
  <2> QED BY <1>0, <1>2, <1>6, <1>7, <1>8, <1>10, <2>1, <2>3, ShapesAfter DEF Doings
<1> QED BY <1>9, <1>10

LEMMA MemoryShapes ==
  ASSUME Shapes, NEW r \in Requests, SetInMemory(r)
  PROVE  Shapes'
<1>0. r \in Actors /\ r # Machine
  BY ActorsAssumption DEF Actors
<1> DEFINE w == doing[r]
           t == w.term
<1>1. w \in TermWork /\ w.at = "placed" /\ Shape(r) /\ t \in Terminals /\ Spawned(t)
      /\ w.tab \in Known
  BY <1>0, KindOfWork DEF SetInMemory, At, Shapes, Shape, TermSteps, Steps, Spawned
<1>2. UNCHANGED <<tabs, born, rows>>
  BY DEF SetInMemory
<1>3. live' \in {live, [live EXCEPT ![t] = w.tab]}
  BY DEF SetInMemory
<1>4. PlaceTypes' /\ Grown /\ Finite' /\ Bounded'
  <2> HIDE DEF t
  <2> QED BY <1>1, <1>2, <1>3 DEF TermWork, Shapes, PlaceTypes, Grown, Spawned, Known, Exists, Finite, Bounded
<1>5. CASE Turn(r, Idle)
  BY <1>0, <1>4, <1>5, IdleShape
<1>6. CASE live[t] # Gone /\ Turn(r, [w EXCEPT !.at = "set", !.prev = live[t]])
  <2> DEFINE v == [w EXCEPT !.at = "set", !.prev = live[t]]
  <2>1. live[t] \in Known /\ Known \subseteq Names
    BY <1>1, <1>6 DEF Shapes, PlaceTypes, Known, Names
  <2>2. v \in TermWork /\ v.at = "set" /\ v.term = t /\ v.tab = w.tab /\ v.prev = live[t]
    <3>1. "set" \in TermSteps
      BY DEF TermSteps, Steps
    <3> QED BY <1>1, <2>1, <3>1 DEF TermWork
  <2>3. doing'[r] = v
    BY <1>0, <1>6, Turned
  <2> HIDE DEF v
  <2>4. Shape(r)'
    BY <1>0, <1>1, <1>2, <2>1, <2>2, <2>3 DEF Shape, Spawned, Known
  <2> QED BY <1>0, <1>4, <1>6, <2>2, <2>4, ShapesAfter DEF Doings, v
<1> QED BY <1>5, <1>6 DEF SetInMemory

LEMMA AssignShapes ==
  ASSUME Shapes, NEW r \in Requests, AssignInDb(r)
  PROVE  Shapes'
<1>0. r \in Actors /\ r # Machine
  BY ActorsAssumption DEF Actors
<1> DEFINE w == doing[r]
<1>1. w \in TermWork /\ w.at = "set" /\ Shape(r) /\ w.term \in Terminals /\ Spawned(w.term)
      /\ w.tab \in Known /\ w.prev \in Known
  BY <1>0, KindOfWork DEF AssignInDb, At, Shapes, Shape, TermSteps, Steps, Spawned
<1>2. /\ UNCHANGED <<tabs, born, live>>
      /\ \/ rows' = rows
         \/ rows' = [rows EXCEPT ![w.term].tab = w.tab] /\ (w.tab = NoTab \/ Exists(w.tab))
  BY DEF AssignInDb
<1>3. /\ rows' \in [Terminals -> [state : {"none", "active", "destroyed"}, tab : Names]]
      /\ \A t \in Terminals : rows'[t].state = rows[t].state
           /\ (rows'[t].tab = rows[t].tab
               \/ (rows'[t].tab = w.tab /\ (w.tab = NoTab \/ Exists(w.tab))))
  <2>1. w.term \in Terminals /\ w.tab \in Names
        /\ rows \in [Terminals -> [state : {"none", "active", "destroyed"}, tab : Names]]
    BY <1>1 DEF TermWork, Shapes, PlaceTypes
  <2>2. CASE rows' = rows
    BY <2>1, <2>2
  <2>3. CASE rows' = [rows EXCEPT ![w.term].tab = w.tab] /\ (w.tab = NoTab \/ Exists(w.tab))
    <3> HIDE DEF w
    <3> QED BY <2>1, <2>3
  <2> QED BY <1>2, <2>2, <2>3
<1>4. PlaceTypes' /\ Grown /\ Bounded'
  BY <1>2, <1>3 DEF Shapes, PlaceTypes, Grown, Spawned, Known, Exists, Bounded
<1>5. Finite'
  BY <1>2, <1>3, SameFinite
<1>6. CASE Turn(r, Idle)
  BY <1>0, <1>4, <1>5, <1>6, IdleShape
<1>7. CASE Leaves(w) /\ Turn(r, [w EXCEPT !.at = "count", !.tab = w.prev])
  <2> DEFINE v == [w EXCEPT !.at = "count", !.tab = w.prev]
  <2>1. v \in TermWork /\ v.at = "count" /\ v.tab = w.prev /\ v.prev = w.prev
    BY <1>1 DEF TermWork, TermSteps, Steps
  <2>2. w.prev \in born /\ w.prev \in Tabs
    BY <1>1, <1>7 DEF Leaves, Known, Shapes, PlaceTypes
  <2>3. doing'[r] = v
    BY <1>0, <1>7, Turned
  <2> HIDE DEF v
  <2>4. Shape(r)'
    BY <1>0, <1>4, <2>1, <2>2, <2>3 DEF Shape, Grown, Known
  <2> QED BY <1>0, <1>4, <1>5, <1>7, <2>1, <2>4, ShapesAfter DEF Doings, v
<1> QED BY <1>6, <1>7 DEF AssignInDb

(* A step from one stage of a piece of work to the next.                   *)
LEMMA StageShapes ==
  ASSUME Shapes, Grown, PlaceTypes', Finite', Bounded', NEW a \in Actors,
         doing[a].at \in TermSteps, NEW g, g = doing[a].tab,
         NEW x \in {"empty", "unlaid", "layout", "delete", "forget", "orphan"},
         x # "orphan" => g \in Tabs,
         x = "forget" => ~Exists(g)',
         a = Machine => x \in {"empty", "unlaid"},
         Turn(a, [doing[a] EXCEPT !.at = x])
  PROVE  Shapes'
<1> DEFINE w == doing[a]
           v == [w EXCEPT !.at = x]
<1>1. w \in TermWork /\ Shape(a)
  BY KindOfWork DEF Shapes
<1>2. v \in TermWork /\ v.at = x /\ v.tab = w.tab /\ v.prev = w.prev
  <2>1. x \in TermSteps
    BY DEF TermSteps, Steps
  <2> QED BY <1>1, <2>1 DEF TermWork
<1>3. doing'[a] = v /\ Turn(a, v)
  BY Turned
<1> HIDE DEF v
<1>4. doing'[a].tab = g
  BY <1>2, <1>3
<1>5. Shape(a)'
  BY <1>1, <1>2, <1>3, <1>4 DEF Shape, Grown, Known
<1> QED BY <1>2, <1>3, <1>5, ShapesAfter DEF Doings

(* A tab's row goes, and with it the tab of the terminals' rows.           *)
LEMMA TabGoes ==
  ASSUME Shapes, NEW g \in Tabs, tabs' = Without(g), rows' = Unassigned(g),
         UNCHANGED <<born, live>>
  PROVE  Grown /\ PlaceTypes' /\ Finite' /\ Bounded' /\ ~Exists(g)'
<1>1. tabs'[g] = NoRow /\ \A h \in Tabs \ {g} : tabs'[h] = tabs[h]
  BY DEF Without, Shapes, PlaceTypes
<1>2. ~Exists(g)' /\ \A h \in Tabs \ {g} : Exists(h)' <=> Exists(h)
  BY <1>1 DEF Exists
<1>3. \A t \in Terminals : /\ rows'[t].state = rows[t].state
                           /\ rows'[t].tab = IF rows[t].tab = g THEN NoTab ELSE rows[t].tab
  BY DEF Unassigned, Shapes, PlaceTypes
<1>4. rows' \in [Terminals -> [state : {"none", "active", "destroyed"}, tab : Names]]
  BY DEF Unassigned, Shapes, PlaceTypes, Names
<1>5. tabs' \in [Tabs -> {NoRow} \union [auto : BOOLEAN, order : Nat]]
  BY DEF Without, Shapes, PlaceTypes
<1>6. PlaceTypes'
  <2>1. \A t \in Terminals : (rows[t].tab = NoTab \/ Exists(rows[t].tab))'
    BY <1>2, <1>3 DEF Shapes, PlaceTypes, Exists
  <2>2. \A h \in Tabs : Exists(h)' => h \in born
    BY <1>2 DEF Shapes, PlaceTypes
  <2>3. \A t : Spawned(t)' <=> Spawned(t)
    BY <1>3 DEF Spawned
  <2> QED BY <1>4, <1>5, <1>3, <1>2, <2>2, <2>3 DEF Shapes, PlaceTypes, Known, Exists
<1>7. Grown
  BY <1>2, <1>3 DEF Grown, Spawned, Exists
<1>8. Finite'
  BY <1>3, <1>4, SameFinite
<1>9. Bounded'
  BY <1>1, <1>2 DEF Shapes, Bounded
<1> QED BY <1>2, <1>6, <1>7, <1>8, <1>9

(* Rows lose a tab that stays.                                             *)
LEMMA RowsCleared ==
  ASSUME Shapes, NEW g \in Tabs, rows' = Unassigned(g), UNCHANGED <<tabs, born, live>>
  PROVE  Grown /\ PlaceTypes' /\ Finite' /\ Bounded'
<1>1. \A t \in Terminals : /\ rows'[t].state = rows[t].state
                           /\ rows'[t].tab \in {NoTab, rows[t].tab}
  BY DEF Unassigned, Shapes, PlaceTypes
<1>2. rows' \in [Terminals -> [state : {"none", "active", "destroyed"}, tab : Names]]
  BY DEF Unassigned, Shapes, PlaceTypes, Names
<1>3. PlaceTypes' /\ Grown /\ Bounded'
  BY <1>1, <1>2 DEF Shapes, PlaceTypes, Exists, Known, Spawned, Grown, Bounded
<1>4. Finite'
  BY <1>1, <1>2, SameFinite
<1> QED BY <1>3, <1>4

LEMMA PruneShapes ==
  ASSUME Shapes, NEW a \in Actors, CountPanes(a) \/ DropIfAuto(a) \/ DropLayout(a)
  PROVE  Shapes'
<1> DEFINE g == doing[a].tab
<1>1. /\ doing[a].at \in {"count", "empty", "unlaid", "layout"} /\ Shape(a)
      /\ doing[a].at \in TermSteps
      /\ g \in Tabs /\ (a = Machine => doing[a].at # "layout")
  BY DEF CountPanes, DropIfAuto, DropLayout, At, Shapes, Shape, TermSteps, Steps
<1>2. CASE UNCHANGED places /\ Turn(a, Idle)
  BY <1>2, StillPlaces, IdleShape
<1>3. CASE CountPanes(a)
  <2>1. CASE ActiveIn(g) = {}
    <3>1. Turn(a, [doing[a] EXCEPT !.at = "empty"]) /\ UNCHANGED places
      BY <1>3, <2>1 DEF CountPanes
    <3> QED BY <1>1, <3>1, StillPlaces, StageShapes
  <2> QED BY <1>2, <1>3, <2>1 DEF CountPanes
<1>4. CASE DropIfAuto(a)
  <2>1. CASE Prunable(g)
    <3>1. /\ tabs' = Without(g) /\ rows' = Unassigned(g) /\ UNCHANGED <<born, live>>
          /\ Turn(a, [doing[a] EXCEPT !.at = "unlaid"])
      BY <1>4, <2>1 DEF DropIfAuto
    <3> HIDE DEF g
    <3>2. Grown /\ PlaceTypes' /\ Finite' /\ Bounded'
      BY <1>1, <3>1, TabGoes
    <3> QED BY <1>1, <3>1, <3>2, StageShapes DEF g
  <2> QED BY <1>2, <1>4, <2>1 DEF DropIfAuto, places
<1>5. CASE DropLayout(a)
  <2>1. CASE At(a, "unlaid")
    BY <1>2, <1>5, <2>1 DEF DropLayout
  <2>2. CASE ~At(a, "unlaid")
    <3>1. /\ UNCHANGED places /\ doing[a].at = "layout"
          /\ Turn(a, [doing[a] EXCEPT !.at = "delete"])
      BY <1>5, <2>2 DEF DropLayout, At
    <3> QED BY <1>1, <3>1, StillPlaces, StageShapes
  <2> QED BY <2>1, <2>2
<1> QED BY <1>3, <1>4, <1>5

LEMMA DeleteShapes ==
  ASSUME Shapes, NEW r \in Requests, ClearRows(r) \/ DeleteTab(r) \/ ForgetTab(r)
  PROVE  Shapes'
<1>0. r \in Actors /\ r # Machine
  BY ActorsAssumption DEF Actors
<1> DEFINE g == doing[r].tab
<1>1. /\ doing[r].at \in {"clear", "delete", "forget"} /\ Shape(r)
      /\ doing[r].at \in TermSteps /\ g \in Tabs
  BY <1>0 DEF ClearRows, DeleteTab, ForgetTab, At, Shapes, Shape, TermSteps, Steps
<1>2. CASE ClearRows(r)
  <2>1. /\ rows' = Unassigned(g) /\ UNCHANGED <<tabs, born, live>>
        /\ Turn(r, [doing[r] EXCEPT !.at = "layout"])
    BY <1>2 DEF ClearRows
  <2> HIDE DEF g
  <2>2. Grown /\ PlaceTypes' /\ Finite' /\ Bounded'
    BY <1>1, <2>1, RowsCleared
  <2> QED BY <1>0, <1>1, <2>1, <2>2, StageShapes DEF g
<1>3. CASE DeleteTab(r)
  <2>1. /\ tabs' = Without(g) /\ rows' = Unassigned(g) /\ UNCHANGED <<born, live>>
        /\ Turn(r, [doing[r] EXCEPT !.at = "forget"])
    BY <1>3 DEF DeleteTab
  <2>2. PICK h \in Tabs : h = g
    BY <1>1
  <2> HIDE DEF g
  <2>3. Grown /\ PlaceTypes' /\ Finite' /\ Bounded' /\ ~Exists(h)'
    BY <1>1, <2>1, <2>2, TabGoes
  <2> QED BY <1>0, <1>1, <2>1, <2>2, <2>3, StageShapes DEF g
<1>4. CASE ForgetTab(r)
  <2>1. live' = Forgotten(g) /\ Turn(r, Idle) /\ UNCHANGED <<tabs, born, rows>>
    BY <1>4 DEF ForgetTab
  <2>2. PlaceTypes' /\ Grown /\ Finite' /\ Bounded'
    <3>1. live' \in [Terminals -> Names \union {Gone}]
      BY <2>1 DEF Forgotten, Shapes, PlaceTypes, Names
    <3>2. \A t \in Terminals : live'[t] = live[t] \/ (live[t] = g /\ live'[t] = NoTab)
      BY <2>1 DEF Forgotten
    <3>3. \A t : Spawned(t)' <=> Spawned(t)
      BY <2>1 DEF Spawned
    <3>4. g # Gone
      BY <1>1, NamesAssumption
    <3> HIDE DEF g
    <3> QED BY <2>1, <3>1, <3>2, <3>3, <3>4 DEF Shapes, PlaceTypes, Grown, Known, Exists, Finite, Bounded
  <2> QED BY <1>0, <2>1, <2>2, IdleShape
<1> QED BY <1>2, <1>3, <1>4

LEMMA GiveUpShapes ==
  ASSUME Shapes, NEW r \in Requests, GiveUp(r) \/ Refused(r)
  PROVE  Shapes'
<1>0. r \in Actors /\ r # Machine
  BY ActorsAssumption DEF Actors
<1>1. UNCHANGED places
  BY DEF GiveUp, Refused
<1>2. CASE Turn(r, Idle)
  BY <1>0, <1>1, <1>2, StillPlaces, IdleShape
<1>3. CASE At(r, "asked") /\ Turn(r, [doing[r] EXCEPT !.at = "orphan"])
  <2>1. doing[r].at \in TermSteps
    BY <1>3 DEF At, TermSteps, Steps
  <2> QED BY <1>0, <1>1, <1>3, <2>1, StillPlaces, StageShapes
<1> QED BY <1>2, <1>3 DEF GiveUp, Refused

LEMMA DeathShapes ==
  ASSUME Shapes, NEW t \in Terminals, TerminalDestroyed(t)
  PROVE  Shapes'
<1>0. Machine \in Actors
  BY DEF Actors
<1> DEFINE w == Job("death", "removed", t, live[t])
<1>1. live[t] \in Known /\ Spawned(t)
  BY DEF TerminalDestroyed, Shapes, PlaceTypes
<1>2. live' = [live EXCEPT ![t] = Gone] /\ Turn(Machine, w) /\ UNCHANGED <<tabs, born, rows>>
  BY DEF TerminalDestroyed
<1>3. PlaceTypes' /\ Grown /\ Finite' /\ Bounded'
  BY <1>2 DEF Shapes, PlaceTypes, Grown, Spawned, Known, Exists, Finite, Bounded
<1>4. w \in TermWork /\ w.at = "removed" /\ w.term = t /\ w.tab = live[t] /\ w.prev = NoTab
  BY <1>1 DEF Job, TermWork, TermSteps, Steps, Kinds, Names, Known, Shapes, PlaceTypes
<1>5. doing'[Machine] = w
  BY <1>0, <1>2, Turned
<1> HIDE DEF w
<1>6. Shape(Machine)'
  BY <1>1, <1>3, <1>4, <1>5 DEF Shape, Grown, Known
<1> QED BY <1>0, <1>2, <1>3, <1>4, <1>6, ShapesAfter DEF Doings

LEMMA MarkShapes ==
  ASSUME Shapes, MarkDestroyed
  PROVE  Shapes'
<1>0. Machine \in Actors
  BY DEF Actors
<1> DEFINE w == doing[Machine]
<1>1. w \in TermWork /\ w.at = "removed" /\ Shape(Machine) /\ Spawned(w.term) /\ w.term \in Terminals
  BY <1>0, KindOfWork DEF MarkDestroyed, At, Shapes, Shape, TermSteps, Steps, Spawned
<1>2. rows' = [rows EXCEPT ![w.term].state = "destroyed"] /\ UNCHANGED <<tabs, born, live>>
  BY DEF MarkDestroyed
<1>3. /\ rows' \in [Terminals -> [state : {"none", "active", "destroyed"}, tab : Names]]
      /\ \A t \in Terminals :
           /\ rows'[t].tab = rows[t].tab
           /\ rows'[t].state = IF t = w.term THEN "destroyed" ELSE rows[t].state
  <2> HIDE DEF w
  <2> QED BY <1>1, <1>2 DEF Shapes, PlaceTypes
<1>4. \A t \in Terminals : rows'[t].state # "none" <=> rows[t].state # "none"
  BY <1>1, <1>3 DEF Spawned
<1>5. PlaceTypes' /\ Grown /\ Bounded'
  BY <1>2, <1>3, <1>4 DEF Shapes, PlaceTypes, Grown, Spawned, Known, Exists, Bounded
<1>6. Finite'
  BY <1>2, <1>3, <1>4, SameFinite
<1>7. CASE w.tab = NoTab
  BY <1>0, <1>5, <1>6, <1>7, IdleShape DEF MarkDestroyed
<1>8. CASE w.tab # NoTab
  <2> DEFINE v == [w EXCEPT !.at = "count"]
  <2>1. v \in TermWork /\ v.at = "count" /\ v.tab = w.tab /\ v.prev = w.prev
    BY <1>1 DEF TermWork, TermSteps, Steps
  <2>2. doing'[Machine] = v /\ Turn(Machine, v)
    BY <1>0, <1>8, Turned DEF MarkDestroyed
  <2> HIDE DEF v
  <2>3. Shape(Machine)'
    BY <1>1, <1>5, <1>8, <2>1, <2>2 DEF Shape, Grown, Known, Shapes, PlaceTypes
  <2> QED BY <1>0, <1>5, <1>6, <2>1, <2>2, <2>3, ShapesAfter DEF Doings
<1> QED BY <1>7, <1>8

(* The list of a reordering names every tab once.                          *)
LEMMA ListNamesAll ==
  ASSUME Shapes, NEW list \in Lists \ {<<>>}
  PROVE  /\ list \in Seq(Tabs) /\ Len(list) > 0
         /\ \A g \in Tabs : Exists(g) => \E i \in 1..Len(list) : list[i] = g
         /\ \A i, j \in 1..Len(list) : list[i] = list[j] => i = j
<1> DEFINE E == {g \in Tabs : Exists(g)}
           n == Cardinality(E)
<1>1. IsFiniteSet(E)
  <2>1. E \in SUBSET born
    BY DEF Shapes, PlaceTypes
  <2> QED BY <2>1, FS_Subset DEF Shapes, Finite
<1>2. n \in Nat
  BY <1>1, FS_CardinalityType
<1>3. list \in [1..n -> E] /\ \A i, j \in 1..n : i # j => list[i] # list[j]
  BY DEF Lists
<1> HIDE DEF n
<1>4. list \in Seq(E) /\ Len(list) = n
  BY <1>2, <1>3
<1>5. list \in Injection(1..n, E)
  BY <1>3 DEF Injection, IsInjective
<1>6. Cardinality(1..n) = n
  BY <1>2, FS_Interval
<1>7. list \in Surjection(1..n, E)
  BY <1>1, <1>5, <1>6, FS_Injection DEF n
<1>8. \A g \in E : \E i \in 1..n : list[i] = g
  BY <1>7 DEF Surjection
<1>9. Len(list) > 0
  BY <1>2, <1>4, EmptySeq
<1> QED BY <1>3, <1>4, <1>8, <1>9

LEMMA ReorderShapes ==
  ASSUME Shapes, NEW r \in Requests, NEW list \in Lists \ {<<>>}, AskReorder(r, list)
  PROVE  Shapes'
<1>0. r \in Actors /\ r # Machine
  BY ActorsAssumption DEF Actors
<1> DEFINE w == [at |-> "reorder", list |-> list, order |-> 0]
<1>1. w \in ListWork /\ w.at = "reorder" /\ w.order < Len(w.list)
  BY ListNamesAll DEF ListWork
<1>2. Turn(r, w) /\ UNCHANGED places
  BY DEF AskReorder, Start, places
<1>3. doing'[r] = w
  BY <1>0, <1>2, Turned
<1> HIDE DEF w
<1>4. Shape(r)'
  BY <1>0, <1>1, <1>3 DEF Shape, TermWork, TermSteps
<1> QED BY <1>0, <1>1, <1>2, <1>4, StillPlaces, ShapesAfter DEF Doings

(* What a restart leaves: new tabs with numbers of their own past those in *)
(* use, no tab of the hub's own without panes, rows of tabs that exist.    *)
Resettled(made, place) ==
  /\ made \subseteq Tabs \ born /\ IsFiniteSet(made) /\ born' = born \union made
  /\ place \in [made -> NextOrder..(NextOrder + Cardinality(made) - 1)]
  /\ \A g, h \in made : place[g] = place[h] => g = h
  /\ \A g \in Tabs :
       /\ tabs'[g] \in {NoRow, IF g \in made THEN [auto |-> TRUE, order |-> place[g]] ELSE tabs[g]}
       /\ tabs'[g].auto => \E t \in Terminals : rows'[t] = [state |-> "active", tab |-> g]
       /\ tabs[g] # NoRow /\ ~tabs[g].auto => tabs'[g] = tabs[g]
  /\ rows' \in [Terminals -> [state : {"none", "active", "destroyed"}, tab : Names]]
  /\ \A t \in Terminals :
       /\ rows'[t].state = rows[t].state
       /\ rows'[t].tab = NoTab \/ (rows'[t].tab \in Tabs /\ tabs'[rows'[t].tab] # NoRow)
  /\ tabs' \in [Tabs -> {NoRow} \union [auto : BOOLEAN, order : Nat]]

LEMMA RestartResettles ==
  ASSUME Shapes, RestartHub
  PROVE  \E made, place : Resettled(made, place)
<1>1. PICK new \in [Ungrouped -> Tabs \ born] :
      LET made == {new[t] : t \in Ungrouped}
       IN  \E place \in [made -> NextOrder..(NextOrder + Cardinality(made) - 1)] :
             /\ \A g, h \in made : place[g] = place[h] => g = h
             /\ LET kept == [t \in Terminals |->
                               IF t \in Ungrouped THEN [rows[t] EXCEPT !.tab = new[t]] ELSE rows[t]]
                    all == [g \in Tabs |->
                              IF g \in made THEN [auto |-> TRUE, order |-> place[g]] ELSE tabs[g]]
                    empty == {g \in Tabs : all[g].auto /\ ~Occupied(kept, g)}
                IN  /\ tabs' = [g \in Tabs |-> IF g \in empty THEN NoRow ELSE all[g]]
                    /\ rows' = [t \in Terminals |->
                         IF kept[t].tab \in empty THEN [kept[t] EXCEPT !.tab = NoTab] ELSE kept[t]]
             /\ born' = born \union made
  BY Zenon DEF RestartHub
<1> DEFINE made == {new[t] : t \in Ungrouped}
<1>2. PICK place \in [made -> NextOrder..(NextOrder + Cardinality(made) - 1)] :
             /\ \A g, h \in made : place[g] = place[h] => g = h
             /\ LET kept == [t \in Terminals |->
                               IF t \in Ungrouped THEN [rows[t] EXCEPT !.tab = new[t]] ELSE rows[t]]
                    all == [g \in Tabs |->
                              IF g \in made THEN [auto |-> TRUE, order |-> place[g]] ELSE tabs[g]]
                    empty == {g \in Tabs : all[g].auto /\ ~Occupied(kept, g)}
                IN  /\ tabs' = [g \in Tabs |-> IF g \in empty THEN NoRow ELSE all[g]]
                    /\ rows' = [t \in Terminals |->
                         IF kept[t].tab \in empty THEN [kept[t] EXCEPT !.tab = NoTab] ELSE kept[t]]
             /\ born' = born \union made
  BY <1>1
<1> DEFINE kept == [t \in Terminals |->
                      IF t \in Ungrouped THEN [rows[t] EXCEPT !.tab = new[t]] ELSE rows[t]]
           all == [g \in Tabs |->
                     IF g \in made THEN [auto |-> TRUE, order |-> place[g]] ELSE tabs[g]]
           empty == {g \in Tabs : all[g].auto /\ ~Occupied(kept, g)}
<1>3. /\ tabs' = [g \in Tabs |-> IF g \in empty THEN NoRow ELSE all[g]]
      /\ rows' = [t \in Terminals |->
                    IF kept[t].tab \in empty THEN [kept[t] EXCEPT !.tab = NoTab] ELSE kept[t]]
      /\ born' = born \union made
  BY <1>2
<1>4. made \subseteq Tabs \ born /\ IsFiniteSet(made)
  <2>1. Ungrouped \in SUBSET {t \in Terminals : rows[t].state # "none"}
    BY DEF Ungrouped
  <2>2. IsFiniteSet(Ungrouped)
    BY <2>1, FS_Subset DEF Shapes, Finite
  <2>3. new \in Surjection(Ungrouped, made)
    BY DEF Surjection
  <2> QED BY <2>2, <2>3, FS_Surjection
<1> DEFINE RowType == [state : {"none", "active", "destroyed"}, tab : Names]
<1>5. \A t \in Terminals : /\ kept[t] \in RowType /\ kept[t].state = rows[t].state
                           /\ kept[t].tab = rows[t].tab \/ kept[t].tab \in made
  <2>1. \A t \in Terminals : rows[t] \in RowType
    BY DEF Shapes, PlaceTypes
  <2>2. \A t \in Ungrouped : new[t] \in made /\ new[t] \in Names
    BY <1>4 DEF Names
  <2> HIDE DEF made
  <2> QED BY <2>1, <2>2 DEF Ungrouped
<1> HIDE DEF kept
<1>6. \A g \in Tabs : /\ g \in made => all[g].auto = TRUE /\ all[g].order = place[g] /\ all[g].order \in Nat
                      /\ g \in made => all[g] = [auto |-> TRUE, order |-> place[g]]
                      /\ g \notin made => all[g] = tabs[g]
  <2>1. NextOrder \in Nat /\ Cardinality(made) \in Nat
    BY <1>4, NextOrderIsNew, FS_CardinalityType
  <2>2. \A g \in made : place[g] \in Nat
    BY <2>1
  <2> HIDE DEF made
  <2> QED BY <2>2
<1>7. \A g \in Tabs : all[g] \in {NoRow} \union [auto : BOOLEAN, order : Nat]
  BY <1>6 DEF Shapes, PlaceTypes
<1>8. \A g \in empty : all[g].auto /\ ~Occupied(kept, g) /\ g \in Tabs
  OBVIOUS
<1>9. \A g \in Tabs \ empty : all[g].auto => Occupied(kept, g)
  OBVIOUS
<1>10. \A g \in Tabs : tabs'[g] = IF g \in empty THEN NoRow ELSE all[g]
  BY <1>3
<1>11. \A t \in Terminals :
         rows'[t] = IF kept[t].tab \in empty THEN [kept[t] EXCEPT !.tab = NoTab] ELSE kept[t]
  BY <1>3
<1>12. rows' = [t \in Terminals |-> rows'[t]] /\ tabs' = [g \in Tabs |-> tabs'[g]]
  BY <1>3
<1>13. \A g \in made : all[g] # NoRow
  BY <1>4, <1>6 DEF NoRow
<1> HIDE DEF made, all, empty
<1>14. \A g \in Tabs : tabs'[g] \in {NoRow} \union [auto : BOOLEAN, order : Nat]
  BY <1>7, <1>10
<1>15. ASSUME NEW t \in Terminals
       PROVE  /\ rows'[t] \in RowType /\ rows'[t].state = rows[t].state
              /\ kept[t].tab \notin empty => rows'[t] = kept[t]
              /\ kept[t].tab \in empty => rows'[t].tab = NoTab
  <2>1. kept[t] \in RowType /\ NoTab \in Names
    BY <1>5 DEF Names
  <2>2. CASE kept[t].tab \in empty
    BY <1>5, <1>11, <2>1, <2>2
  <2>3. CASE kept[t].tab \notin empty
    BY <1>5, <1>11, <2>1, <2>3
  <2> QED BY <2>2, <2>3
<1>16. ASSUME NEW t \in Terminals
       PROVE  rows'[t].tab = NoTab \/ (rows'[t].tab \in Tabs /\ tabs'[rows'[t].tab] # NoRow)
  <2>1. CASE kept[t].tab \in empty
    BY <1>15, <2>1
  <2>2. CASE kept[t].tab \notin empty /\ kept[t].tab \in made
    BY <1>4, <1>10, <1>13, <1>15, <2>2
  <2>3. CASE kept[t].tab \notin empty /\ kept[t].tab \notin made
    <3>1. rows'[t].tab = rows[t].tab /\ rows'[t].tab \notin empty /\ rows'[t].tab \notin made
      BY <1>5, <1>15, <2>3
    <3>2. rows[t].tab = NoTab \/ Exists(rows[t].tab)
      BY DEF Shapes, PlaceTypes
    <3> QED BY <1>6, <1>10, <3>1, <3>2 DEF Exists
  <2> QED BY <2>1, <2>2, <2>3
<1>17. ASSUME NEW g \in Tabs, tabs'[g].auto
       PROVE  \E t \in Terminals : rows'[t] = [state |-> "active", tab |-> g]
  <2>1. g \notin empty /\ all[g].auto
    BY <1>10, <1>17 DEF NoRow
  <2>2. PICK t \in Terminals : kept[t] = [state |-> "active", tab |-> g]
    BY <1>9, <2>1 DEF Occupied
  <2> QED BY <1>15, <2>1, <2>2
<1>18. \A g \in Tabs : tabs[g] # NoRow /\ ~tabs[g].auto => tabs'[g] = tabs[g]
  <2>1. \A g \in Tabs : tabs[g] # NoRow => g \notin made
    BY <1>4 DEF Shapes, PlaceTypes, Exists
  <2> QED BY <1>6, <1>8, <1>10, <2>1
<1>19. \A g \in Tabs : tabs'[g] \in {NoRow, IF g \in made THEN [auto |-> TRUE, order |-> place[g]] ELSE tabs[g]}
  BY <1>6, <1>10
<1> QED
  <2>1. rows' \in [Terminals -> RowType]
    BY <1>12, <1>15
  <2>2. tabs' \in [Tabs -> {NoRow} \union [auto : BOOLEAN, order : Nat]]
    BY <1>12, <1>14
  <2>3. Resettled(made, place)
    BY <1>2, <1>3, <1>4, <1>15, <1>16, <1>17, <1>18, <1>19, <2>1, <2>2 DEF Resettled
  <2> QED BY <2>3

LEMMA RestartShapes ==
  ASSUME Shapes, RestartHub
  PROVE  Shapes'
<1>1. PICK made, place : Resettled(made, place)
  BY RestartResettles
<1> USE DEF Resettled
<1>2. live' = [t \in Terminals |-> IF rows'[t].state = "active" THEN rows'[t].tab ELSE Gone]
      /\ doing' = [a \in Actors |-> Idle]
  BY DEF RestartHub
<1>3. \A g \in Tabs : tabs'[g] # NoRow => g \in born' /\ (tabs[g] # NoRow \/ g \notin born)
  BY <1>1 DEF Shapes, PlaceTypes, Exists
<1>4. PlaceTypes'
  <2>1. \A t \in Terminals : /\ live'[t] \in Names \union {Gone}
                             /\ live'[t] # Gone => rows'[t].state # "none" /\ live'[t] = rows'[t].tab
    BY <1>1, <1>2
  <2>2. live' \in [Terminals -> Names \union {Gone}]
    BY <1>2, <2>1
  <2>3. \A t \in Terminals : (rows[t].tab = NoTab \/ Exists(rows[t].tab))'
    BY <1>1 DEF Exists
  <2>4. \A t \in Terminals : live'[t] \in Known' \union {Gone}
    BY <1>1, <1>3, <2>1, <2>3 DEF Known, Exists
  <2> QED BY <1>1, <1>3, <2>1, <2>2, <2>3, <2>4 DEF Shapes, PlaceTypes, Exists, Spawned
<1>5. Finite'
  <2>1. {t \in Terminals : rows'[t].state # "none"} = {t \in Terminals : rows[t].state # "none"}
    BY <1>1
  <2>2. IsFiniteSet(born \union made)
    BY <1>1, FS_Union DEF Shapes, Finite
  <2> QED BY <1>1, <2>1, <2>2 DEF Shapes, Finite
<1>6. Bounded'
  <2>1. NextOrder \in Nat /\ Cardinality(made) \in Nat
        /\ \A g \in Tabs : Exists(g) => tabs[g].order < NextOrder /\ tabs[g].order \in Nat
    BY <1>1, NextOrderIsNew, FS_CardinalityType, TabRows
  <2> DEFINE n == NextOrder + Cardinality(made)
  <2>2. ASSUME NEW g \in Tabs, tabs'[g] # NoRow PROVE tabs'[g].order <= n
    <3>1. CASE g \in made
      <4>1. tabs'[g] = [auto |-> TRUE, order |-> place[g]]
            /\ place[g] \in NextOrder..(NextOrder + Cardinality(made) - 1)
        BY <1>1, <2>2, <3>1
      <4> QED BY <2>1, <4>1
    <3>2. CASE g \notin made
      <4>1. tabs'[g] = tabs[g] /\ Exists(g)
        BY <1>1, <2>2, <3>2 DEF Exists
      <4> QED BY <2>1, <4>1
    <3> QED BY <3>1, <3>2
  <2>3. n \in Nat
    BY <2>1
  <2> HIDE DEF n
  <2> QED BY <2>2, <2>3 DEF Bounded, Exists
<1>7. \A a \in Actors : Shape(a)'
  BY <1>2 DEF Shape, Idle, TermWork, TermSteps, Steps
<1> QED BY <1>2, <1>4, <1>5, <1>6, <1>7 DEF Shapes, Doings

LEMMA InitShapes == Init => Shapes
<1> SUFFICES ASSUME Init PROVE Shapes
  OBVIOUS
<1>1. PlaceTypes
  BY NamesAssumption DEF Init, PlaceTypes, Exists, Names, Known
<1>2. Finite
  <2>1. {t \in Terminals : rows[t].state # "none"} = {}
    BY DEF Init
  <2> QED BY <2>1, FS_EmptySet DEF Init, Finite
<1>3. Bounded
  <2>1. \A g \in Tabs : ~Exists(g)
    BY DEF Init, Exists
  <2> QED BY <2>1 DEF Bounded
<1>4. \A a \in Actors : Shape(a)
  BY DEF Init, Shape, Idle, TermWork, TermSteps, Steps
<1> QED BY <1>1, <1>2, <1>3, <1>4 DEF Init, Shapes, Doings

LEMMA NextShapes == Shapes /\ [Next]_vars => Shapes'
<1> SUFFICES ASSUME Shapes, [Next]_vars PROVE Shapes'
  OBVIOUS
<1>1. ASSUME NEW r \in Requests, RequestStep(r) PROVE Shapes'
  BY <1>1, AskShapes, ReorderShapes, NumberShapes, CreatedShapes, GiveUpShapes, ReadShapes,
     InsertShapes, MemoryShapes, AssignShapes, DeleteShapes DEF RequestStep
<1>2. CASE \E g \in Tabs : Rename(g)
  BY <1>2, RenameShapes
<1>3. CASE \E a \in Actors : CountPanes(a) \/ DropIfAuto(a) \/ DropLayout(a)
  BY <1>3, PruneShapes
<1>4. CASE \E t \in Terminals : TerminalDestroyed(t)
  BY <1>4, DeathShapes
<1>5. CASE MarkDestroyed
  BY <1>5, MarkShapes
<1>6. ASSUME NEW e \in Editors, EditStep(e) PROVE Shapes'
  <2>1. UNCHANGED <<places, doing>>
    BY <1>6 DEF EditStep, Look, CheckLayout, SaveLayout
  <2> QED BY <2>1, StillPlaces, ShapesStill
<1>7. CASE RestartHub
  BY <1>7, RestartShapes
<1>8. CASE UNCHANGED vars
  <2>1. UNCHANGED <<places, doing>>
    BY <1>8 DEF vars, places
  <2> QED BY <2>1, StillPlaces, ShapesStill
<1> QED BY <1>1, <1>2, <1>3, <1>4, <1>5, <1>6, <1>7, <1>8 DEF Next

(* What a request has in hand is of its step's kind, a row names a tab     *)
(* there is, and memory names only terminals and tabs that once existed.   *)
THEOREM ShapesHold == Spec => []Shapes
  BY InitShapes, NextShapes, PTL DEF Spec

-----------------------------------------------------------------------------
(* Where a terminal is: memory, its row and the steps between them.        *)

Active(t) == rows[t].state = "active"
Setter(r, t) == At(r, "set") /\ doing[r].term = t
Dying(t) == At(Machine, "removed") /\ doing[Machine].term = t
\* Its tab in memory, or the one it had there.
Home(t) == IF live[t] # Gone THEN live[t] ELSE doing[Machine].tab
Deleting(g) == \E r \in Requests : doing[r].at \in {"layout", "delete", "forget"} /\ doing[r].tab = g

\* A terminal between its two writes, and what it was moved from.
PlaceOf(t) ==
  /\ live[t] # Gone => Active(t)
  /\ Dying(t) => live[t] = Gone /\ Active(t)
  /\ Active(t) /\ live[t] = Gone => Dying(t)
  /\ Active(t) => \/ rows[t].tab \in {Home(t), NoTab} \union odd
                  \/ \E r \in Requests : Setter(r, t) /\ rows[t].tab = doing[r].prev
  /\ t \notin odd /\ live[t] # Gone /\ (\A r \in Requests : ~Setter(r, t)) =>
       rows[t].tab = live[t] \/ (rows[t].tab = NoTab /\ Deleting(live[t]))

\* A request that has changed memory and not yet the row.
MoveOf(r) ==
  LET w == doing[r]
      t == w.term
  IN  At(r, "set") =>
        /\ Active(t) => Home(t) \in {w.tab, NoTab} \union odd
        /\ Active(t) /\ Home(t) # w.tab => w.tab \in odd \union {NoTab} \/ ~Exists(w.tab)
        /\ t \notin odd /\ live[t] # Gone =>
             live[t] = w.tab \/ (live[t] = NoTab /\ ~Exists(w.tab) /\ w.tab # NoTab)
        /\ \A q \in Requests : q # r /\ Setter(q, t) =>
             {t, w.tab, w.prev, rows[t].tab} \subseteq odd \union {NoTab}

Settled == (\A t \in Terminals : PlaceOf(t)) /\ (\A r \in Requests : MoveOf(r))

(* Steps that move no terminal.                                            *)
LEMMA QuietSettled ==
  ASSUME Shapes, Settled, NEW a \in Actors, \A b \in Actors \ {a} : doing'[b] = doing[b],
         ~At(a, "set"), ~At(a, "removed"), ~At(a, "set")', ~At(a, "removed")',
         \A g : Deleting(g) => Deleting(g)', UNCHANGED <<rows, live>>, odd \subseteq odd',
         \A g \in born : Exists(g)' => Exists(g)
  PROVE  Settled'
<1>1. \A r \in Requests : \A t : /\ Setter(r, t)' <=> Setter(r, t)
                                 /\ Setter(r, t) => doing'[r] = doing[r]
  BY DEF Setter, At, Actors
<1>2. \A t : /\ Dying(t)' <=> Dying(t)
             /\ Dying(t) => doing'[Machine] = doing[Machine]
  BY DEF Dying, At, Actors
<1>3. ASSUME NEW t \in Terminals PROVE PlaceOf(t)' /\ (Active(t) => Home(t)' = Home(t))
  <2>1. PlaceOf(t)
    BY DEF Settled
  <2>2. Active(t) => Home(t)' = Home(t)
    BY <1>2, <2>1 DEF PlaceOf, Home
  <2>3. Active(t)' <=> Active(t)
    BY DEF Active
  <2> QED BY <1>1, <1>2, <2>1, <2>2, <2>3 DEF PlaceOf
<1>4. ASSUME NEW r \in Requests, At(r, "set")' PROVE MoveOf(r)'
  <2>1. doing'[r] = doing[r] /\ MoveOf(r) /\ At(r, "set")
    BY <1>4 DEF Settled, Actors, At
  <2>2. doing[r].tab \in Known
    BY <2>1, KindOfWork DEF Shapes, Shape, At, Actors, TermSteps, Steps
  <2>3. PICK t \in Terminals : t = doing[r].term
    BY <2>1, KindOfWork DEF Shapes, Shape, At, Actors, Spawned
  <2>4. (Active(t) => Home(t)' = Home(t)) /\ (Active(t)' <=> Active(t))
    BY <1>3 DEF Active
  <2> QED BY <1>1, <2>1, <2>2, <2>3, <2>4 DEF MoveOf, Known, Exists, Home, Active
<1> QED BY <1>3, <1>4 DEF Settled, MoveOf

LEMMA CreatedSettled ==
  ASSUME Shapes, Settled, NEW r \in Requests, TerminalCreated(r)
  PROVE  Settled'
<1>0. r \in Actors /\ r # Machine /\ Machine \in Actors
  BY ActorsAssumption DEF Actors
<1>1. PICK t \in Terminals :
       /\ rows[t].state = "none"
       /\ live' = [live EXCEPT ![t] = NoTab]
       /\ rows' = [rows EXCEPT ![t] = [state |-> "active", tab |-> NoTab]]
       /\ Turn(r, IF At(r, "orphan") THEN Idle ELSE GoesOn(r, t))
  BY DEF TerminalCreated
<1>2. UNCHANGED <<tabs, odd>> /\ (At(r, "asked") \/ At(r, "orphan"))
  BY DEF TerminalCreated
<1>3. doing'[r].at \in {"idle", "opening", "placed"} /\ \A b \in Actors \ {r} : doing'[b] = doing[b]
  <2>1. doing[r] \in TermWork
    BY <1>0, <1>2, KindOfWork DEF At, TermSteps, Steps
  <2>2. GoesOn(r, t).at \in {"opening", "placed"}
    BY <2>1 DEF GoesOn, TermWork
  <2>3. doing'[r] = (IF At(r, "orphan") THEN Idle ELSE GoesOn(r, t))
        /\ \A b \in Actors \ {r} : doing'[b] = doing[b]
    BY <1>0, <1>1, Turned
  <2> QED BY <2>2, <2>3 DEF Idle
<1>4. /\ live'[t] = NoTab /\ rows'[t] = [state |-> "active", tab |-> NoTab]
      /\ \A u \in Terminals \ {t} : live'[u] = live[u] /\ rows'[u] = rows[u]
  BY <1>1 DEF Shapes, PlaceTypes
<1>5. \A q \in Requests : /\ At(q, "set") => doing[q].term \in Terminals \ {t}
                          /\ At(q, "set")' <=> At(q, "set")
                          /\ At(q, "set") => doing'[q] = doing[q]
  BY <1>0, <1>1, <1>2, <1>3 DEF Shapes, Shape, Spawned, At, Actors
<1>6. doing'[Machine] = doing[Machine] /\ ~Dying(t) /\ \A u : Dying(u)' <=> Dying(u)
  <2>1. doing'[Machine] = doing[Machine]
    BY <1>0, <1>3
  <2>2. ~Dying(t)
    BY <1>0, <1>1 DEF Dying, At, Shapes, Shape, Spawned
  <2> QED BY <2>1, <2>2 DEF Dying, At
<1>7. \A g : Deleting(g) => Deleting(g)'
  BY <1>0, <1>2, <1>3 DEF Deleting, At, Actors
<1>8. ASSUME NEW u \in Terminals PROVE PlaceOf(u)'
  <2>1. CASE u = t
    BY <1>4, <1>6, <2>1, NamesAssumption DEF PlaceOf, Active, Home
  <2>2. CASE u # t
    <3>1. PlaceOf(u)
      BY DEF Settled
    <3>2. live'[u] = live[u] /\ rows'[u] = rows[u]
      BY <1>4, <2>2
    <3>3. \A q \in Requests : Setter(q, u)' <=> Setter(q, u)
      BY <1>5 DEF Setter
    <3> QED BY <1>2, <1>5, <1>6, <1>7, <3>1, <3>2, <3>3 DEF PlaceOf, Active, Home, Setter
  <2> QED BY <2>1, <2>2
<1>9. ASSUME NEW q \in Requests, At(q, "set")' PROVE MoveOf(q)'
  <2>1. doing'[q] = doing[q] /\ MoveOf(q) /\ At(q, "set")
    BY <1>5, <1>9 DEF Settled
  <2>2. PICK u \in Terminals : u = doing[q].term /\ u # t
    BY <1>5, <2>1
  <2>3. \A p \in Requests : Setter(p, u)' <=> Setter(p, u)
    BY <1>5 DEF Setter
  <2> QED BY <1>2, <1>4, <1>6, <2>1, <2>2, <2>3 DEF MoveOf, Active, Home, Exists
<1> QED BY <1>8, <1>9 DEF Settled, MoveOf

LEMMA MemorySettled ==
  ASSUME Shapes, Settled, NEW r \in Requests, SetInMemory(r)
  PROVE  Settled'
<1>0. r \in Actors /\ r # Machine /\ Machine \in Actors
  BY ActorsAssumption DEF Actors
<1> DEFINE w == doing[r]
<1>1. w \in TermWork /\ w.at = "placed" /\ w.term \in Terminals /\ w.tab \in Names
      /\ UNCHANGED <<tabs, rows>>
  BY <1>0, KindOfWork DEF SetInMemory, At, Shapes, Shape, TermSteps, Steps, Spawned, TermWork
<1>2. PICK t \in Terminals : t = w.term
  BY <1>1
<1>3. CASE live[t] = Gone
  <2>1. Turn(r, Idle) /\ live' = live /\ odd \subseteq odd'
    BY <1>2, <1>3 DEF SetInMemory
  <2>2. doing'[r] = Idle /\ \A b \in Actors \ {r} : doing'[b] = doing[b]
    BY <1>0, <2>1, Turned
  <2>3. \A g : Deleting(g) => Deleting(g)'
    BY <1>1, <2>2 DEF Deleting, Actors
  <2>4. \A g : Exists(g)' => Exists(g)
    BY <1>1 DEF Exists
  <2>5. ~At(r, "set") /\ ~At(r, "removed") /\ ~At(r, "set")' /\ ~At(r, "removed")'
    BY <1>1, <2>2 DEF At, Idle
  <2> QED BY <1>0, <1>1, <2>1, <2>2, <2>3, <2>4, <2>5, QuietSettled
<1>4. CASE live[t] # Gone
  <2> DEFINE v == [w EXCEPT !.at = "set", !.prev = live[t]]
  <2>1. live' = [live EXCEPT ![t] = w.tab] /\ Turn(r, v) /\ odd' = odd \union (Spoilt(r) \ {NoTab})
    BY <1>2, <1>4 DEF SetInMemory
  <2>2. v.at = "set" /\ v.term = t /\ v.tab = w.tab /\ v.prev = live[t]
    BY <1>1, <1>2 DEF TermWork
  <2>3. doing'[r] = v /\ \A b \in Actors \ {r} : doing'[b] = doing[b]
    BY <1>0, <2>1, Turned
  <2> HIDE DEF v
  <2>4. live'[t] = w.tab /\ \A u \in Terminals \ {t} : live'[u] = live[u]
    BY <1>1, <2>1 DEF Shapes, PlaceTypes
  <2>5. \A q \in Requests \ {r} : /\ doing'[q] = doing[q]
                                  /\ \A u : Setter(q, u)' <=> Setter(q, u)
    BY <2>3 DEF Setter, At, Actors
  <2>6. \A u : Setter(r, u)' <=> u = t
    BY <2>2, <2>3 DEF Setter, At
  <2>7. doing'[Machine] = doing[Machine] /\ \A u : Dying(u)' <=> Dying(u)
    BY <1>0, <2>3 DEF Dying, At
  <2>8. \A g : Deleting(g) => Deleting(g)'
    BY <1>1, <2>3 DEF Deleting, Actors
  <2>9. ASSUME NEW q \in Requests, q # r, Setter(q, t)
        PROVE  /\ {t, live[t], w.tab, rows[t].tab, doing[q].tab, doing[q].prev} \subseteq odd' \union {NoTab}
               /\ \A p \in Requests : p # r /\ Setter(p, t) => {doing[p].tab, doing[p].prev} \subseteq odd' \union {NoTab}
    <3>1. Rivals(r) = {p \in Requests \ {r} : Setter(p, t)}
      BY <1>2 DEF Rivals, Setter
    <3>2. q \in Rivals(r)
      BY <2>9, <3>1
    <3>3. Spoilt(r) = {t, live[t], w.tab, rows[t].tab}
             \union {doing[p].tab : p \in Rivals(r)} \union {doing[p].prev : p \in Rivals(r)}
      BY <1>2, <3>2 DEF Spoilt
    <3> QED BY <2>1, <3>1, <3>2, <3>3
  <2>10. w.tab # Gone
    BY <1>1, NamesAssumption DEF Names
  <2>11. ASSUME NEW u \in Terminals PROVE PlaceOf(u)'
    <3>1. PlaceOf(u) /\ rows'[u] = rows[u]
      BY <1>1 DEF Settled
    <3>2. CASE u = t
      <4>1. Active(t) /\ ~Dying(t) /\ Home(t) = live[t]
        BY <1>4, <3>1, <3>2 DEF PlaceOf, Home
      <4>2. Active(t)' /\ ~Dying(t)' /\ live'[t] # Gone /\ Setter(r, t)'
        BY <1>1, <2>4, <2>6, <2>7, <2>10, <4>1 DEF Active
      <4>3. \/ rows'[t].tab \in {NoTab} \union odd'
            \/ \E q \in Requests : Setter(q, t)' /\ rows'[t].tab = doing'[q].prev
        <5>1. CASE rows[t].tab = live[t]
          BY <2>2, <2>3, <3>1, <3>2, <4>2, <5>1
        <5>2. CASE \E q \in Requests : Setter(q, t) /\ rows[t].tab = doing[q].prev
          <6>1. PICK q \in Requests : Setter(q, t) /\ rows[t].tab = doing[q].prev
            BY <5>2
          <6>2. q # r
            BY <1>1, <6>1 DEF Setter, At
          <6> QED BY <2>5, <3>1, <3>2, <6>1, <6>2
        <5> QED BY <2>1, <3>1, <3>2, <4>1, <5>1, <5>2 DEF PlaceOf
      <4> QED BY <3>2, <4>2, <4>3 DEF PlaceOf
    <3>3. CASE u # t
      <4>1. /\ live'[u] = live[u] /\ odd \subseteq odd'
            /\ \A q \in Requests : /\ Setter(q, u)' <=> Setter(q, u)
                                   /\ Setter(q, u) => doing'[q] = doing[q]
        <5>1. ~Setter(r, u)
          BY <1>1 DEF Setter, At
        <5> QED BY <2>1, <2>4, <2>5, <2>6, <3>3, <5>1
      <4>2. Home(u)' = Home(u) /\ (Active(u)' <=> Active(u))
        BY <2>7, <3>1, <4>1 DEF Home, Active
      <4> QED BY <2>7, <2>8, <3>1, <4>1, <4>2 DEF PlaceOf
    <3> QED BY <3>2, <3>3
  <2>12. MoveOf(r)'
    BY <1>1, <2>2, <2>3, <2>4, <2>5, <2>9, <2>10 DEF MoveOf, Active, Home
  <2>13. ASSUME NEW q \in Requests, q # r, At(q, "set")' PROVE MoveOf(q)'
    <3>1. doing'[q] = doing[q] /\ MoveOf(q) /\ At(q, "set")
      BY <2>5, <2>13 DEF Settled, At
    <3>2. PICK u \in Terminals : u = doing[q].term
      BY <3>1, KindOfWork DEF Shapes, Shape, At, Actors, Spawned
    <3>3. CASE u = t
      <4>1. Setter(q, t)
        BY <3>1, <3>2, <3>3 DEF Setter
      <4>2. {t, live[t], w.tab, rows[t].tab, doing[q].tab, doing[q].prev} \subseteq odd' \union {NoTab}
        BY <2>9, <2>13, <4>1
      <4>3. t \in odd'
        BY <4>2, NamesAssumption
      <4>4. \A p \in Requests : p # q /\ Setter(p, t)' =>
               {t, doing'[q].tab, doing'[q].prev, rows'[t].tab} \subseteq odd' \union {NoTab}
        BY <1>1, <3>1, <4>2
      <4>5. Home(t)' = w.tab
        BY <2>4, <2>10 DEF Home
      <4> QED BY <3>1, <3>2, <3>3, <4>2, <4>3, <4>4, <4>5 DEF MoveOf, Home
    <3>4. CASE u # t
      BY <1>1, <2>1, <2>4, <2>5, <2>6, <2>7, <3>1, <3>2, <3>4 DEF MoveOf, Active, Home, Exists
    <3> QED BY <3>3, <3>4
  <2> QED BY <2>11, <2>12, <2>13 DEF Settled, MoveOf
<1> QED BY <1>3, <1>4

(* A request that sets a terminal's tab comes to its end, whatever it does *)
(* to the terminal's row.                                                  *)
LEMMA AssignSettled ==
  ASSUME Shapes, Settled, NEW r \in Requests, AssignInDb(r)
  PROVE  Settled'
<1>0. r \in Actors /\ r # Machine /\ Machine \in Actors
  BY ActorsAssumption DEF Actors
<1> DEFINE w == doing[r]
<1>1. w \in TermWork /\ At(r, "set") /\ w.term \in Terminals /\ w.tab \in Names /\ MoveOf(r)
      /\ UNCHANGED <<tabs, live>>
  BY <1>0, KindOfWork DEF AssignInDb, At, Shapes, Shape, TermSteps, Steps, Spawned, TermWork, Settled
<1>2. PICK t \in Terminals : t = w.term
  BY <1>1
<1>3. doing'[r].at \in {"idle", "count"} /\ \A b \in Actors \ {r} : doing'[b] = doing[b]
  <2> DEFINE v == [w EXCEPT !.at = "count", !.tab = w.prev]
  <2>1. v.at = "count" /\ Idle.at = "idle"
    BY <1>1 DEF TermWork, Idle
  <2>2. Turn(r, Idle) \/ Turn(r, v)
    BY DEF AssignInDb
  <2> HIDE DEF v
  <2> QED BY <1>0, <2>1, <2>2, Turned
<1>4. /\ \A q \in Requests \ {r} : doing'[q] = doing[q] /\ \A u : Setter(q, u)' <=> Setter(q, u)
      /\ \A u : ~Setter(r, u)' /\ (Setter(r, u) <=> u = t)
      /\ \A u \in Terminals : Home(u)' = Home(u)
      /\ \A u : Dying(u)' <=> Dying(u)
      /\ \A g : Deleting(g) => Deleting(g)'
  BY <1>0, <1>1, <1>2, <1>3 DEF Setter, At, Home, Dying, Deleting, Actors
<1>5. \/ /\ w.tab = NoTab \/ Exists(w.tab)
         /\ rows'[t] = [rows[t] EXCEPT !.tab = w.tab] /\ odd' = odd
      \/ /\ w.tab # NoTab /\ ~Exists(w.tab)
         /\ rows'[t] = rows[t] /\ t \in odd' /\ odd \subseteq odd'
         /\ rows'[t].tab \in odd' \union {NoTab}
  BY <1>1, <1>2, NamesAssumption DEF AssignInDb, Shapes, PlaceTypes
<1>6. /\ \A u \in Terminals \ {t} : rows'[u] = rows[u]
      /\ odd \subseteq odd' /\ (Active(t)' <=> Active(t))
  BY <1>1, <1>2, <1>5 DEF AssignInDb, Shapes, PlaceTypes, Active
<1>7. ASSUME NEW u \in Terminals, u # t PROVE PlaceOf(u)'
  <2>1. PlaceOf(u) /\ (Active(u)' <=> Active(u)) /\ live'[u] = live[u] /\ rows'[u] = rows[u]
    BY <1>1, <1>6, <1>7 DEF Settled, Active
  <2>2. \A q \in Requests : /\ Setter(q, u)' <=> Setter(q, u)
                            /\ Setter(q, u) => doing'[q] = doing[q]
    BY <1>4, <1>7
  <2> QED BY <1>4, <1>6, <1>7, <2>1, <2>2 DEF PlaceOf
<1>8. PlaceOf(t)'
  <2>1. PlaceOf(t) /\ live'[t] = live[t] /\ Home(t)' = Home(t)
    BY <1>1, <1>4 DEF Settled
  <2>2. CASE rows'[t] = [rows[t] EXCEPT !.tab = w.tab] /\ odd' = odd /\ (w.tab = NoTab \/ Exists(w.tab))
    <3>1. rows'[t].tab = w.tab
      BY <2>2 DEF Shapes, PlaceTypes
    <3>2. Active(t) => w.tab \in {Home(t), NoTab} \union odd
      BY <1>1, <1>2, <2>2 DEF MoveOf
    <3>3. t \notin odd /\ live[t] # Gone => live[t] = w.tab
      BY <1>1, <1>2, <2>2 DEF MoveOf
    <3> QED BY <1>4, <1>6, <2>1, <2>2, <3>1, <3>2, <3>3 DEF PlaceOf
  <2>3. CASE t \in odd' /\ rows'[t].tab \in odd' \union {NoTab}
    BY <1>4, <1>6, <2>1, <2>3 DEF PlaceOf
  <2> QED BY <1>5, <2>2, <2>3
<1>9. ASSUME NEW q \in Requests, At(q, "set")' PROVE MoveOf(q)'
  <2>1. q # r
    BY <1>3, <1>9 DEF At
  <2>2. doing'[q] = doing[q] /\ MoveOf(q) /\ At(q, "set")
    BY <1>4, <1>9, <2>1 DEF Settled, At
  <2>3. PICK u \in Terminals : u = doing[q].term
    BY <2>2, KindOfWork DEF Shapes, Shape, At, Actors, Spawned
  <2>4. CASE u = t
    <3>1. Setter(q, t)
      BY <2>2, <2>3, <2>4 DEF Setter
    <3>2. w.tab \in odd \union {NoTab} /\ t \in odd
      BY <1>1, <1>2, <2>1, <3>1, NamesAssumption DEF MoveOf
    <3>3. rows'[t].tab \in {w.tab} \union odd' \union {NoTab}
      BY <1>5 DEF Shapes, PlaceTypes
    <3>4. {t, doing[q].tab, doing[q].prev} \subseteq odd \union {NoTab}
      <4>1. Setter(r, t)
        BY <1>4
      <4> QED BY <2>1, <2>2, <2>3, <2>4, <4>1 DEF MoveOf
    <3>5. /\ Active(t) => Home(t) \in {doing[q].tab, NoTab} \union odd
          /\ Active(t) /\ Home(t) # doing[q].tab => doing[q].tab \in odd \union {NoTab} \/ ~Exists(doing[q].tab)
      BY <2>2, <2>3, <2>4 DEF MoveOf
    <3>6. Home(t)' = Home(t) /\ (\A g : Exists(g)' <=> Exists(g))
      BY <1>1, <1>4 DEF Exists
    <3>7. \A v : v = t => Home(v)' = Home(t) /\ (Active(v)' <=> Active(t))
      BY <1>6, <3>6
    <3> QED BY <1>4, <1>6, <2>2, <2>3, <2>4, <3>2, <3>3, <3>4, <3>5, <3>6, <3>7 DEF MoveOf, Exists, Home, Active
  <2>5. CASE u # t
    <3>1. rows'[u] = rows[u] /\ (\A p \in Requests : Setter(p, u)' <=> Setter(p, u))
      BY <1>4, <1>6, <2>5
    <3>2. Home(u)' = Home(u)
      BY <1>4
    <3> QED BY <1>1, <1>6, <2>2, <2>3, <3>1, <3>2 DEF MoveOf, Active, Home, Exists
  <2> QED BY <2>4, <2>5
<1> QED BY <1>7, <1>8, <1>9 DEF Settled, MoveOf

(* Rows lose their tab where that is known to be under way.                *)
LEMMA UnassignSettled ==
  ASSUME Shapes, Settled, NEW a \in Actors, \A b \in Actors \ {a} : doing'[b] = doing[b],
         ~At(a, "set"), ~At(a, "removed"), ~At(a, "set")', ~At(a, "removed")',
         \A h : Deleting(h) => Deleting(h)', live' = live, odd \subseteq odd',
         NEW g \in Tabs, tabs' \in {tabs, Without(g)}, rows' = Unassigned(g),
         ActiveIn(g) \subseteq odd' \/ Deleting(g)'
  PROVE  Settled'
<1>1. \A h : Exists(h)' => Exists(h)
  BY DEF Exists, Without, Shapes, PlaceTypes
<1>2. \A r \in Requests : \A t : /\ Setter(r, t)' <=> Setter(r, t)
                                 /\ Setter(r, t) => doing'[r] = doing[r]
  BY DEF Setter, At, Actors
<1>3. \A t : /\ Dying(t)' <=> Dying(t)
             /\ Dying(t) => doing'[Machine] = doing[Machine]
  BY DEF Dying, At, Actors
<1>4. \A t \in Terminals :
        /\ rows'[t].state = rows[t].state
        /\ rows'[t].tab = IF rows[t].tab = g THEN NoTab ELSE rows[t].tab
  BY DEF Unassigned, Shapes, PlaceTypes
<1>5. ASSUME NEW t \in Terminals, PlaceOf(t)
      PROVE  (Active(t) => Home(t)' = Home(t)) /\ (Active(t)' <=> Active(t))
  BY <1>3, <1>4, <1>5 DEF PlaceOf, Home, Active
<1>6. ASSUME NEW t \in Terminals PROVE PlaceOf(t)'
  <2>1. PlaceOf(t)
    BY DEF Settled
  <2>2. Active(t) /\ rows[t].tab = g => t \in odd' \/ Deleting(g)'
    BY DEF Active, ActiveIn, Shapes, PlaceTypes
  <2>3. Active(t)' => \/ rows'[t].tab \in {Home(t)', NoTab} \union odd'
                      \/ \E r \in Requests : Setter(r, t)' /\ rows'[t].tab = doing'[r].prev
    BY <1>2, <1>4, <1>5, <2>1 DEF PlaceOf
  <2>4. (t \notin odd /\ live[t] # Gone /\ (\A r \in Requests : ~Setter(r, t)) =>
           rows[t].tab = live[t] \/ (rows[t].tab = NoTab /\ Deleting(live[t])))'
    BY <1>2, <1>4, <2>1, <2>2 DEF PlaceOf
  <2> QED BY <1>3, <1>5, <2>1, <2>3, <2>4 DEF PlaceOf
<1>7. ASSUME NEW r \in Requests, At(r, "set")' PROVE MoveOf(r)'
  <2>1. doing'[r] = doing[r] /\ MoveOf(r) /\ At(r, "set")
    BY <1>7 DEF Settled, Actors, At
  <2>2. PICK t \in Terminals : t = doing[r].term
    BY <2>1, KindOfWork DEF Shapes, Shape, At, Actors, Spawned
  <2>3. (Active(t) => Home(t)' = Home(t)) /\ (Active(t)' <=> Active(t))
    BY <1>5 DEF Settled
  <2> QED BY <1>1, <1>2, <1>4, <2>1, <2>2, <2>3 DEF MoveOf, Home, Active
<1> QED BY <1>6, <1>7 DEF Settled, MoveOf

LEMMA PruneSettled ==
  ASSUME Shapes, Settled, NEW a \in Actors, CountPanes(a) \/ DropIfAuto(a) \/ DropLayout(a)
  PROVE  Settled'
<1> DEFINE g == doing[a].tab
<1>1. /\ doing[a].at \in {"count", "empty", "unlaid", "layout"}
      /\ doing[a] \in TermWork /\ g \in Tabs
      /\ ~At(a, "set") /\ ~At(a, "removed")
      /\ UNCHANGED live
  BY KindOfWork DEF CountPanes, DropIfAuto, DropLayout, At, Shapes, Shape, TermSteps, Steps, places
<1>2. PICK v : /\ Turn(a, v) /\ v.at \in {"idle", "empty", "unlaid", "delete"}
               /\ At(a, "layout") => v.at = "delete" /\ v.tab = g
  <2>1. \A x : /\ [doing[a] EXCEPT !.at = x].at = x
               /\ [doing[a] EXCEPT !.at = x].tab = g
    BY <1>1 DEF TermWork
  <2>2. Idle.at = "idle"
    BY DEF Idle
  <2>3. CASE At(a, "layout")
    <3>1. Turn(a, [doing[a] EXCEPT !.at = "delete"])
      BY <2>3 DEF CountPanes, DropIfAuto, DropLayout, At
    <3> QED BY <2>1, <3>1
  <2>4. CASE ~At(a, "layout")
    <3>1. \/ Turn(a, Idle) \/ Turn(a, [doing[a] EXCEPT !.at = "empty"])
          \/ Turn(a, [doing[a] EXCEPT !.at = "unlaid"])
      BY <2>4 DEF CountPanes, DropIfAuto, DropLayout
    <3> QED BY <2>1, <2>2, <2>4, <3>1
  <2> QED BY <2>3, <2>4
<1>3. /\ \A b \in Actors \ {a} : doing'[b] = doing[b]
      /\ ~At(a, "set")' /\ ~At(a, "removed")'
      /\ \A h : Deleting(h) => Deleting(h)'
  <2>1. doing'[a] = v /\ \A b \in Actors \ {a} : doing'[b] = doing[b]
    BY <1>2, Turned
  <2> QED BY <1>1, <1>2, <2>1 DEF At, Deleting, Actors
<1>4. CASE UNCHANGED <<tabs, rows, odd>>
  <2>1. \A h : Exists(h)' => Exists(h)
    BY <1>4 DEF Exists
  <2> QED BY <1>1, <1>3, <1>4, <2>1, QuietSettled
<1>5. CASE ~UNCHANGED <<tabs, rows, odd>>
  <2>1. tabs' = Without(g) /\ rows' = Unassigned(g) /\ odd' = odd \union ActiveIn(g)
    BY <1>5 DEF CountPanes, DropIfAuto, DropLayout, places
  <2>2. PICK h \in Tabs : h = g
    BY <1>1
  <2> HIDE DEF g
  <2> QED BY <1>1, <1>3, <2>1, <2>2, UnassignSettled
<1> QED BY <1>4, <1>5

LEMMA DeleteSettled ==
  ASSUME Shapes, Settled, NEW r \in Requests, ClearRows(r) \/ DeleteTab(r)
  PROVE  Settled'
<1>0. r \in Actors /\ r # Machine /\ Machine \in Actors
  BY ActorsAssumption DEF Actors
<1> DEFINE g == doing[r].tab
<1>1. /\ doing[r].at \in {"clear", "delete"} /\ doing[r] \in TermWork /\ g \in Tabs
      /\ ~At(r, "set") /\ ~At(r, "removed")
      /\ UNCHANGED <<live, odd>> /\ rows' = Unassigned(g) /\ tabs' \in {tabs, Without(g)}
  BY <1>0, KindOfWork DEF ClearRows, DeleteTab, At, Shapes, Shape, TermSteps, Steps
<1>2. PICK v : Turn(r, v) /\ v.at \in {"layout", "forget"} /\ v.tab = g
  <2>1. \A x : /\ [doing[r] EXCEPT !.at = x].at = x
               /\ [doing[r] EXCEPT !.at = x].tab = g
    BY <1>1 DEF TermWork
  <2> QED BY <2>1 DEF ClearRows, DeleteTab
<1>3. doing'[r] = v /\ \A b \in Actors \ {r} : doing'[b] = doing[b]
  BY <1>0, <1>2, Turned
<1>4. ~At(r, "set")' /\ ~At(r, "removed")' /\ \A h : Deleting(h) => Deleting(h)'
  BY <1>1, <1>2, <1>3 DEF At, Deleting, Actors
<1>5. PICK h \in Tabs : h = g
  BY <1>1
<1>6. Deleting(h)'
  BY <1>2, <1>3, <1>5 DEF Deleting
<1> HIDE DEF g
<1> QED BY <1>0, <1>1, <1>3, <1>4, <1>5, <1>6, UnassignSettled

LEMMA ForgetSettled ==
  ASSUME Shapes, Settled, NEW r \in Requests, ForgetTab(r)
  PROVE  Settled'
<1>0. r \in Actors /\ r # Machine /\ Machine \in Actors
  BY ActorsAssumption DEF Actors
<1>1. PICK g \in Tabs : g = doing[r].tab /\ ~Exists(g) /\ At(r, "forget")
  BY <1>0 DEF ForgetTab, At, Shapes, Shape
<1>2. live' = Forgotten(g) /\ UNCHANGED <<tabs, rows, odd>> /\ Turn(r, Idle)
  BY <1>1 DEF ForgetTab
<1>3. doing'[r] = Idle /\ \A b \in Actors \ {r} : doing'[b] = doing[b]
  BY <1>0, <1>2, Turned
<1>4. \A t \in Terminals : live'[t] = IF live[t] = g THEN NoTab ELSE live[t]
  BY <1>2 DEF Forgotten
<1>5. /\ \A q \in Requests : \A t : /\ Setter(q, t)' <=> Setter(q, t)
                                    /\ Setter(q, t) => doing'[q] = doing[q]
      /\ \A t : Dying(t)' <=> Dying(t)
      /\ doing'[Machine] = doing[Machine]
      /\ \A t : Active(t)' <=> Active(t)
      /\ \A h : h # g /\ Deleting(h) => Deleting(h)'
  BY <1>0, <1>1, <1>2, <1>3 DEF Setter, Dying, Active, Deleting, At, Actors, Idle
<1>6. \A t \in Terminals : rows[t].tab # g
  BY <1>1, NamesAssumption DEF Shapes, PlaceTypes
<1>7. NoTab # Gone /\ g # Gone
  BY NamesAssumption
<1>8. ASSUME NEW t \in Terminals
      PROVE  /\ live'[t] = Gone <=> live[t] = Gone
             /\ live[t] = g => Home(t)' = NoTab
             /\ live[t] # g => Home(t)' = Home(t)
             /\ live[t] = g => Home(t) = g
  BY <1>4, <1>5, <1>7 DEF Home
<1>9. ASSUME NEW t \in Terminals PROVE PlaceOf(t)'
  <2>1. PlaceOf(t) /\ rows'[t] = rows[t] /\ odd' = odd
    BY <1>2 DEF Settled
  <2>2. CASE live[t] = g
    BY <1>4, <1>5, <1>6, <1>7, <1>8, <2>1, <2>2 DEF PlaceOf
  <2>3. CASE live[t] # g
    <3>1. live'[t] = live[t]
      BY <1>4, <2>3
    <3> QED BY <1>5, <1>8, <2>1, <2>3, <3>1 DEF PlaceOf
  <2> QED BY <2>2, <2>3
<1>10. ASSUME NEW q \in Requests, At(q, "set")' PROVE MoveOf(q)'
  <2>1. doing'[q] = doing[q] /\ MoveOf(q) /\ At(q, "set")
    BY <1>3, <1>10 DEF Settled, At, Idle, Actors
  <2>2. PICK t \in Terminals : t = doing[q].term
    BY <2>1, KindOfWork DEF Shapes, Shape, At, Actors, Spawned
  <2>3. Home(t)' = Home(t) \/ (Home(t) = g /\ Home(t)' = NoTab)
    BY <1>8
  <2>4. live'[t] = live[t] \/ (live[t] = g /\ live'[t] = NoTab /\ Home(t)' = NoTab)
    BY <1>4, <1>8
  <2> QED BY <1>1, <1>2, <1>5, <1>8, <2>1, <2>2, <2>3, <2>4 DEF MoveOf, Exists, Home, Active
<1> QED BY <1>9, <1>10 DEF Settled, MoveOf

LEMMA GiveUpSettled ==
  ASSUME Shapes, Settled, NEW r \in Requests, GiveUp(r)
  PROVE  Settled'
<1>0. r \in Actors /\ r # Machine /\ Machine \in Actors
  BY ActorsAssumption DEF Actors
<1>1. PICK v : Turn(r, v) /\ v.at \in {"orphan", "idle"}
  <2>1. At(r, "asked") => [doing[r] EXCEPT !.at = "orphan"].at = "orphan"
    <3>1. At(r, "asked") => doing[r] \in TermWork
      BY <1>0, KindOfWork DEF At, TermSteps, Steps
    <3> QED BY <3>1 DEF TermWork
  <2>2. Turn(r, Idle) \/ (At(r, "asked") /\ Turn(r, [doing[r] EXCEPT !.at = "orphan"]))
    BY DEF GiveUp
  <2>3. Idle.at = "idle"
    BY DEF Idle
  <2> QED BY <2>1, <2>2, <2>3
<1>2. doing'[r] = v /\ \A b \in Actors \ {r} : doing'[b] = doing[b]
  BY <1>0, <1>1, Turned
<1>3. /\ UNCHANGED <<tabs, rows, live>> /\ odd \subseteq odd'
      /\ doing[r].at \in {"asked", "placed", "forget"}
      /\ At(r, "forget") => odd' = odd \union Panes(doing[r].tab)
  BY DEF GiveUp, places, At
<1>4. ~At(r, "set") /\ ~At(r, "removed") /\ ~At(r, "set")' /\ ~At(r, "removed")'
  BY <1>1, <1>2, <1>3 DEF At
<1>5. \A g : Exists(g)' => Exists(g)
  BY <1>3 DEF Exists
<1>6. CASE ~At(r, "forget")
  <2>1. \A g : Deleting(g) => Deleting(g)'
    BY <1>2, <1>3, <1>6 DEF Deleting, At, Actors
  <2> QED BY <1>0, <1>2, <1>3, <1>4, <1>5, <2>1, QuietSettled
<1>7. CASE At(r, "forget")
  <2>1. /\ \A q \in Requests : \A t : /\ Setter(q, t)' <=> Setter(q, t)
                                      /\ Setter(q, t) => doing'[q] = doing[q]
        /\ \A t : Dying(t)' <=> Dying(t)
        /\ doing'[Machine] = doing[Machine]
        /\ \A t : Active(t)' <=> Active(t)
        /\ \A h : h # doing[r].tab /\ Deleting(h) => Deleting(h)'
        /\ \A t \in Terminals : Home(t)' = Home(t)
    BY <1>0, <1>2, <1>3, <1>4 DEF Setter, Dying, Active, Deleting, Home, At, Actors
  <2>2. ASSUME NEW t \in Terminals PROVE PlaceOf(t)'
    <3>1. PlaceOf(t) /\ (live[t] = doing[r].tab => t \in odd')
      BY <1>3, <1>7 DEF Settled, Panes
    <3> QED BY <1>3, <2>1, <3>1 DEF PlaceOf
  <2>3. ASSUME NEW q \in Requests, At(q, "set")' PROVE MoveOf(q)'
    <3>1. doing'[q] = doing[q] /\ MoveOf(q) /\ At(q, "set")
      BY <1>2, <1>4, <2>3 DEF Settled, At, Actors
    <3>2. PICK t \in Terminals : t = doing[q].term
      BY <3>1, KindOfWork DEF Shapes, Shape, At, Actors, Spawned
    <3> QED BY <1>3, <1>5, <2>1, <3>1, <3>2 DEF MoveOf, Exists, Home, Active
  <2> QED BY <2>2, <2>3 DEF Settled, MoveOf
<1> QED BY <1>6, <1>7

LEMMA DeathSettled ==
  ASSUME Shapes, Settled, NEW t \in Terminals, TerminalDestroyed(t)
  PROVE  Settled'
<1>0. Machine \in Actors /\ Machine \notin Requests
  BY ActorsAssumption DEF Actors
<1>1. /\ doing[Machine] = Idle /\ live[t] # Gone /\ UNCHANGED <<tabs, rows, odd>>
      /\ live' = [live EXCEPT ![t] = Gone]
      /\ Turn(Machine, Job("death", "removed", t, live[t]))
  BY DEF TerminalDestroyed
<1>2. /\ At(Machine, "removed")' /\ doing'[Machine].term = t /\ doing'[Machine].tab = live[t]
      /\ \A b \in Requests : doing'[b] = doing[b]
  BY <1>0, <1>1, Turned DEF Job, At, Actors
<1>3. live'[t] = Gone /\ \A u \in Terminals \ {t} : live'[u] = live[u]
  BY <1>1 DEF Shapes, PlaceTypes
<1>4. /\ \A q \in Requests : \A u : Setter(q, u)' <=> Setter(q, u)
      /\ \A u : Dying(u)' <=> u = t
      /\ \A u : ~Dying(u)
      /\ \A u : Active(u)' <=> Active(u)
      /\ \A g : Deleting(g)' <=> Deleting(g)
  BY <1>1, <1>2 DEF Setter, Dying, Active, Deleting, At, Idle
<1>5. ASSUME NEW u \in Terminals PROVE Active(u) => Home(u)' = Home(u)
  <2>1. PlaceOf(u)
    BY DEF Settled
  <2> QED BY <1>1, <1>2, <1>3, <1>4, <2>1 DEF PlaceOf, Home
<1>6. ASSUME NEW u \in Terminals PROVE PlaceOf(u)'
  <2>1. PlaceOf(u) /\ odd' = odd /\ rows'[u] = rows[u]
    BY <1>1 DEF Settled
  <2>2. CASE u = t
    BY <1>1, <1>2, <1>3, <1>4, <1>5, <2>1, <2>2 DEF PlaceOf
  <2>3. CASE u # t
    BY <1>1, <1>2, <1>3, <1>4, <1>5, <2>1, <2>3 DEF PlaceOf
  <2> QED BY <2>2, <2>3
<1>7. ASSUME NEW q \in Requests, At(q, "set")' PROVE MoveOf(q)'
  <2>1. doing'[q] = doing[q] /\ MoveOf(q) /\ At(q, "set")
    BY <1>2, <1>7 DEF Settled, At
  <2>2. PICK u \in Terminals : u = doing[q].term
    BY <2>1, KindOfWork DEF Shapes, Shape, At, Actors, Spawned
  <2>3. live'[u] \in {live[u], Gone}
    BY <1>3
  <2> QED BY <1>1, <1>4, <1>5, <2>1, <2>2, <2>3 DEF MoveOf, Exists, Home, Active
<1> QED BY <1>6, <1>7 DEF Settled, MoveOf

LEMMA MarkSettled ==
  ASSUME Shapes, Settled, MarkDestroyed
  PROVE  Settled'
<1>0. Machine \in Actors /\ Machine \notin Requests
  BY ActorsAssumption DEF Actors
<1>1. PICK t \in Terminals : t = doing[Machine].term /\ Dying(t)
  BY <1>0 DEF MarkDestroyed, At, Shapes, Shape, Spawned, Dying
<1>2. rows' = [rows EXCEPT ![t].state = "destroyed"] /\ UNCHANGED <<tabs, live, odd>>
  BY <1>1 DEF MarkDestroyed
<1>3. /\ rows'[t].state = "destroyed"
      /\ \A u \in Terminals : rows'[u].tab = rows[u].tab
      /\ \A u \in Terminals \ {t} : rows'[u] = rows[u]
  BY <1>2 DEF Shapes, PlaceTypes
<1>4. ~At(Machine, "removed")' /\ \A b \in Requests : doing'[b] = doing[b]
  <2>1. doing[Machine] \in TermWork
    BY <1>0, KindOfWork DEF MarkDestroyed, At, TermSteps, Steps
  <2>2. [doing[Machine] EXCEPT !.at = "count"].at = "count" /\ Idle.at = "idle"
    BY <2>1 DEF TermWork, Idle
  <2>3. Turn(Machine, Idle) \/ Turn(Machine, [doing[Machine] EXCEPT !.at = "count"])
    BY DEF MarkDestroyed
  <2> QED BY <1>0, <2>2, <2>3, Turned DEF At, Actors
<1>5. /\ \A q \in Requests : \A u : Setter(q, u)' <=> Setter(q, u)
      /\ \A u : ~Dying(u)' /\ (Dying(u) => u = t)
      /\ \A u \in Terminals : Active(u)' <=> Active(u) /\ u # t
      /\ \A g : Deleting(g)' <=> Deleting(g)
  BY <1>1, <1>3, <1>4 DEF Setter, Dying, Active, Deleting, At
<1>6. ASSUME NEW u \in Terminals PROVE Active(u)' => Home(u)' = Home(u)
  <2>1. PlaceOf(u)
    BY DEF Settled
  <2> QED BY <1>2, <1>5, <2>1 DEF PlaceOf, Home
<1>7. ASSUME NEW u \in Terminals PROVE PlaceOf(u)'
  <2>1. PlaceOf(u) /\ odd' = odd /\ live'[u] = live[u] /\ rows'[u].tab = rows[u].tab
    BY <1>2, <1>3 DEF Settled
  <2>2. CASE u = t
    <3>1. live[t] = Gone
      BY <1>1, <2>1, <2>2 DEF PlaceOf
    <3> QED BY <1>1, <1>5, <2>1, <2>2, <3>1 DEF PlaceOf
  <2>3. CASE u # t
    BY <1>4, <1>5, <1>6, <2>1, <2>3 DEF PlaceOf
  <2> QED BY <2>2, <2>3
<1>8. ASSUME NEW q \in Requests, At(q, "set")' PROVE MoveOf(q)'
  <2>1. doing'[q] = doing[q] /\ MoveOf(q) /\ At(q, "set")
    BY <1>4, <1>8 DEF Settled, At
  <2>2. PICK u \in Terminals : u = doing[q].term
    BY <2>1, KindOfWork DEF Shapes, Shape, At, Actors, Spawned
  <2> QED BY <1>2, <1>3, <1>5, <1>6, <2>1, <2>2 DEF MoveOf, Exists, Home, Active
<1> QED BY <1>7, <1>8 DEF Settled, MoveOf

LEMMA RestartSettled ==
  ASSUME Shapes, Settled, RestartHub
  PROVE  Settled'
<1>1. PICK made, place : Resettled(made, place)
  BY RestartResettles
<1>2. \A t \in Terminals : rows'[t].tab = NoTab \/ rows'[t].tab \in Tabs
  BY <1>1 DEF Resettled
<1>3. /\ \A t \in Terminals : live'[t] = IF Active(t)' THEN rows'[t].tab ELSE Gone
      /\ \A a \in Actors : doing'[a] = Idle
  BY DEF RestartHub, Active
<1>4. \A a \in Actors : ~At(a, "set")' /\ ~At(a, "removed")'
  BY <1>3 DEF At, Idle
<1>5. \A t \in Terminals : live'[t] # Gone <=> Active(t)'
  BY <1>2, <1>3, NamesAssumption
<1>6. ASSUME NEW t \in Terminals PROVE PlaceOf(t)'
  BY <1>3, <1>4, <1>5 DEF PlaceOf, Home, Dying, Setter, Actors
<1> QED BY <1>4, <1>6 DEF Settled, MoveOf, Actors

(* The steps of a request that change no terminal's place.                 *)
LEMMA OtherSettled ==
  ASSUME Shapes, Settled, NEW r \in Requests, NEW v, Turn(r, v), v.at \notin {"set", "removed"},
         doing[r].at \notin {"set", "removed", "layout", "delete", "forget"},
         UNCHANGED <<rows, live, odd>>, \A g \in born : Exists(g)' => Exists(g)
  PROVE  Settled'
<1>1. doing'[r] = v /\ \A b \in Actors \ {r} : doing'[b] = doing[b]
  BY Turned DEF Actors
<1>2. \A g : Deleting(g) => Deleting(g)'
  BY <1>1 DEF Deleting, Actors
<1> QED BY <1>1, <1>2, QuietSettled DEF At, Actors

LEMMA RequestSettled ==
  ASSUME Shapes, Settled, NEW r \in Requests,
         \/ \E work : Start(r, work) /\ work.at \notin {"set", "removed"}
         \/ NumberTab(r) \/ Refused(r) \/ ReadOrder(r) \/ InsertTab(r)
  PROVE  Settled'
<1>0. r \in Actors
  BY DEF Actors
<1>1. Idle.at = "idle"
  BY DEF Idle
<1>2. CASE \E work : Start(r, work) /\ work.at \notin {"set", "removed"}
  BY <1>1, <1>2, OtherSettled DEF Start, places, Exists
<1>3. CASE NumberTab(r)
  <2>1. doing[r] \in ListWork
    BY <1>0, <1>3, KindOfWork DEF NumberTab, At
  <2>2. doing[r].at = "reorder" /\ [doing[r] EXCEPT !.order = @ + 1].at = "reorder"
    BY <2>1 DEF ListWork
  <2>3. Turn(r, Idle) \/ Turn(r, [doing[r] EXCEPT !.order = @ + 1])
    BY <1>3 DEF NumberTab
  <2>4. \A g \in born : Exists(g)' => Exists(g)
    BY <1>3 DEF NumberTab, Exists, Shapes, PlaceTypes
  <2>5. UNCHANGED <<rows, live, odd>>
    BY <1>3 DEF NumberTab
  <2> QED BY <1>1, <2>2, <2>3, <2>4, <2>5, OtherSettled
<1>4. CASE Refused(r)
  BY <1>1, <1>4, OtherSettled DEF Refused, At, places, Exists
<1>5. CASE ReadOrder(r)
  <2>1. /\ doing[r].at = "opening" /\ UNCHANGED <<rows, live, odd, tabs>>
        /\ \E v : Turn(r, v) /\ v.at = "ordered"
    BY <1>5 DEF ReadOrder, At, places
  <2> QED BY <2>1, OtherSettled DEF Exists
<1>6. CASE InsertTab(r)
  <2>1. /\ doing[r].at = "ordered" /\ UNCHANGED <<rows, live, odd>>
        /\ \E v : Turn(r, v) /\ v.at \in {"placed", "idle"}
    BY <1>1, <1>6 DEF InsertTab, At, Job
  <2>2. \A g \in born : Exists(g)' => Exists(g)
    BY <1>6 DEF InsertTab, Exists, Shapes, PlaceTypes
  <2> QED BY <2>1, <2>2, OtherSettled
<1> QED BY <1>2, <1>3, <1>4, <1>5, <1>6

LEMMA StillSettled ==
  ASSUME Shapes, Settled, UNCHANGED <<rows, live, doing, odd>>, \A g \in Tabs : Exists(g)' => Exists(g)
  PROVE  Settled'
<1>1. \A t \in Terminals : PlaceOf(t)'
  BY DEF Settled, PlaceOf, Active, Home, Dying, Setter, Deleting, At
<1>2. \A r \in Requests : MoveOf(r)'
  BY DEF Settled, MoveOf, Active, Home, Setter, At, Exists
<1> QED BY <1>1, <1>2 DEF Settled

LEMMA InitSettled == Init => Settled
<1> SUFFICES ASSUME Init PROVE Settled
  OBVIOUS
<1>1. \A a \in Actors : doing[a].at = "idle"
  BY DEF Init, Idle
<1>2. \A t \in Terminals : live[t] = Gone /\ rows[t].state = "none"
  BY DEF Init
<1>3. \A t \in Terminals : PlaceOf(t)
  BY <1>1, <1>2 DEF PlaceOf, Active, Dying, At, Actors
<1>4. \A r \in Requests : MoveOf(r)
  BY <1>1 DEF MoveOf, At, Actors
<1> QED BY <1>3, <1>4 DEF Settled

LEMMA NextSettled == Shapes /\ Settled /\ [Next]_vars => Settled'
<1> SUFFICES ASSUME Shapes, Settled, [Next]_vars PROVE Settled'
  OBVIOUS
<1>1. ASSUME NEW r \in Requests, RequestStep(r) PROVE Settled'
  <2>1. ASSUME NEW kind, NEW step \in {"asked", "opening", "placed", "clear"}, NEW t, NEW g,
               Start(r, Job(kind, step, t, g))
        PROVE  Settled'
    <3>1. Job(kind, step, t, g).at \notin {"set", "removed"}
      BY DEF Job
    <3> QED BY <2>1, <3>1, RequestSettled
  <2>2. CASE \E g \in Tabs \union {NoTab} : AskCreate(r, g)
    BY <2>1, <2>2 DEF AskCreate
  <2>3. CASE \E t \in Terminals, g \in Tabs \union {NoTab} : AskMove(r, t, g)
    BY <2>1, <2>3 DEF AskMove
  <2>4. CASE AskTab(r)
    BY <2>1, <2>4 DEF AskTab
  <2>5. CASE \E g \in Tabs : AskDelete(r, g)
    BY <2>1, <2>5 DEF AskDelete
  <2>6. CASE \E list \in Lists \ {<<>>} : AskReorder(r, list)
    BY <2>6, RequestSettled DEF AskReorder
  <2> QED BY <1>1, <2>2, <2>3, <2>4, <2>5, <2>6, RequestSettled, CreatedSettled, MemorySettled,
             AssignSettled, DeleteSettled, ForgetSettled, GiveUpSettled DEF RequestStep
<1>2. ASSUME NEW g \in Tabs, Rename(g) PROVE Settled'
  BY <1>2, StillSettled DEF Rename, Exists, Shapes, PlaceTypes
<1>3. CASE \E a \in Actors : CountPanes(a) \/ DropIfAuto(a) \/ DropLayout(a)
  BY <1>3, PruneSettled
<1>4. CASE \E t \in Terminals : TerminalDestroyed(t)
  BY <1>4, DeathSettled
<1>5. CASE MarkDestroyed
  BY <1>5, MarkSettled
<1>6. ASSUME NEW e \in Editors, EditStep(e) PROVE Settled'
  BY <1>6, StillSettled DEF EditStep, Look, CheckLayout, SaveLayout, places, Exists
<1>7. CASE RestartHub
  BY <1>7, RestartSettled
<1>8. CASE UNCHANGED vars
  BY <1>8, StillSettled DEF vars, Exists
<1> QED BY <1>1, <1>2, <1>3, <1>4, <1>5, <1>6, <1>7, <1>8 DEF Next

-----------------------------------------------------------------------------
(* Who takes an empty tab of the hub's own away.                           *)

\* Attended, with what the keeper knows of the terminal it moves.
Kept(a, g) ==
  \/ doing[a].at \in {"count", "empty", "removed", "layout", "delete"} /\ doing[a].tab = g
  \/ At(a, "placed") /\ doing[a].kind = "fresh" /\ doing[a].tab = g
  \/ /\ At(a, "set") /\ doing[a].prev = g /\ doing[a].tab # g
     /\ rows[doing[a].term].tab = g
  \/ At(a, "set") /\ doing[a].tab = g /\ Active(doing[a].term)

EmptyOf(g) ==
  Exists(g) /\ tabs[g].auto /\ ActiveIn(g) = {} /\ g \notin odd => \E a \in Actors : Kept(a, g)

Minded == \A g \in Tabs : EmptyOf(g)

(* Steps that take no pane away and give up no empty tab.                  *)
LEMMA MindedStays ==
  ASSUME NEW g \in Tabs, EmptyOf(g), odd \subseteq odd',
         Exists(g)' /\ tabs'[g].auto => Exists(g) /\ tabs[g].auto,
         ActiveIn(g) \subseteq ActiveIn(g)',
         NEW a \in Actors, \A b \in Actors \ {a} : Kept(b, g) => Kept(b, g)',
         Kept(a, g) => Kept(a, g)' \/ g \in odd' \/ ~Exists(g)'
  PROVE  EmptyOf(g)'
<1> SUFFICES ASSUME Exists(g)', tabs'[g].auto, ActiveIn(g)' = {}, g \notin odd'
             PROVE  \E b \in Actors : Kept(b, g)'
  BY DEF EmptyOf, Actors
<1>1. PICK b \in Actors : Kept(b, g)
  BY DEF EmptyOf
<1> QED BY <1>1

(* A request's own step leaves what other actors keep.                     *)
LEMMA OthersKeep ==
  ASSUME Shapes, NEW a \in Actors, NEW b \in Actors \ {a}, NEW g \in Tabs,
         doing'[b] = doing[b], Kept(b, g),
         \A t \in Terminals : Spawned(t) => /\ rows[t].tab = g => rows'[t].tab = g
                                            /\ Active(t) => Active(t)'
  PROVE  Kept(b, g)'
<1>1. CASE At(b, "set")
  <2>1. PICK t \in Terminals : t = doing[b].term /\ Spawned(t)
    BY <1>1 DEF Shapes, Shape, At, Spawned
  <2> QED BY <1>1, <2>1 DEF Kept, At, Active
<1>2. CASE ~At(b, "set")
  BY <1>2 DEF Kept, At
<1> QED BY <1>1, <1>2

(* Steps that leave rows alone or give a terminal its first row.           *)
LEMMA CalmMinded ==
  ASSUME Shapes, Minded, NEW a \in Actors, \A b \in Actors \ {a} : doing'[b] = doing[b],
         odd \subseteq odd', NEW g \in Tabs,
         Exists(g)' /\ tabs'[g].auto => Exists(g) /\ tabs[g].auto,
         \A t \in Terminals : Spawned(t) => rows'[t] = rows[t],
         Kept(a, g) => Kept(a, g)' \/ g \in odd' \/ ~Exists(g)'
  PROVE  EmptyOf(g)'
<1>1. \A b \in Actors \ {a} : Kept(b, g) => Kept(b, g)'
  BY OthersKeep DEF Active
<1>2. ActiveIn(g) \subseteq ActiveIn(g)'
  BY DEF ActiveIn, Spawned
<1>3. EmptyOf(g)
  BY DEF Minded
<1> QED BY <1>1, <1>2, <1>3, MindedStays

(* Steps of an actor that minds no tab before it.                          *)
LEMMA IdleMinded ==
  ASSUME Shapes, Minded, NEW a \in Actors, \A b \in Actors \ {a} : doing'[b] = doing[b],
         doing[a].at \notin {"count", "empty", "removed", "layout", "delete", "placed", "set"},
         odd \subseteq odd',
         \A g \in Tabs : Exists(g)' /\ tabs'[g].auto =>
                           (Exists(g) /\ tabs[g].auto) \/ Kept(a, g)',
         \A t \in Terminals : Spawned(t) => rows'[t] = rows[t]
  PROVE  Minded'
<1>1. ASSUME NEW g \in Tabs PROVE EmptyOf(g)'
  <2>1. ~Kept(a, g)
    BY DEF Kept, At
  <2>2. CASE Kept(a, g)'
    BY <2>2 DEF EmptyOf, Actors
  <2>3. CASE ~Kept(a, g)'
    BY <2>1, <2>3, CalmMinded
  <2> QED BY <2>2, <2>3
<1> QED BY <1>1 DEF Minded

LEMMA RequestMinded ==
  ASSUME Shapes, Minded, NEW r \in Requests,
         \/ \E work : Start(r, work)
         \/ NumberTab(r) \/ Refused(r) \/ ReadOrder(r) \/ InsertTab(r)
         \/ TerminalCreated(r) \/ ForgetTab(r)
  PROVE  Minded'
<1>0. r \in Actors
  BY DEF Actors
<1>1. /\ odd' = odd /\ \E v : Turn(r, v)
      /\ doing[r].at \in {"idle", "reorder", "asked", "orphan", "opening", "ordered", "forget"}
  BY DEF Start, NumberTab, Refused, ReadOrder, InsertTab, TerminalCreated, ForgetTab, At, Idle
<1>2. \A b \in Actors \ {r} : doing'[b] = doing[b]
  BY <1>0, <1>1, Turned
<1>3. \A t \in Terminals : Spawned(t) => rows'[t] = rows[t]
  BY DEF Start, NumberTab, Refused, ReadOrder, InsertTab, TerminalCreated, ForgetTab,
         places, Spawned, Shapes, PlaceTypes
<1>4. ASSUME NEW g \in Tabs, Exists(g)', tabs'[g].auto
      PROVE  (Exists(g) /\ tabs[g].auto) \/ Kept(r, g)'
  <2>1. CASE NumberTab(r)
    BY <1>4, <2>1 DEF NumberTab, Shapes, PlaceTypes, Exists, NoRow
  <2>2. CASE InsertTab(r)
    <3>1. PICK h \in Tabs \ born :
           /\ tabs' = [tabs EXCEPT ![h] = [auto |-> doing[r].kind = "fresh",
                                           order |-> doing[r].order]]
           /\ Turn(r, IF doing[r].kind = "fresh" THEN Job("fresh", "placed", doing[r].term, h)
                      ELSE Idle)
      BY <2>2 DEF InsertTab
    <3>2. CASE g = h
      <4>1. tabs'[h].auto <=> doing[r].kind = "fresh"
        BY <3>1 DEF Shapes, PlaceTypes
      <4>2. doing'[r] = Job("fresh", "placed", doing[r].term, g)
        BY <1>0, <1>4, <3>1, <3>2, <4>1, Turned
      <4> QED BY <4>2 DEF Kept, At, Job
    <3>3. CASE g # h
      BY <1>4, <3>1, <3>3 DEF Shapes, PlaceTypes, Exists
    <3> QED BY <3>2, <3>3
  <2>3. CASE UNCHANGED tabs
    BY <1>4, <2>3 DEF Exists
  <2> QED BY <2>1, <2>2, <2>3 DEF Start, Refused, ReadOrder, TerminalCreated, ForgetTab, places
<1> QED BY <1>0, <1>1, <1>2, <1>3, <1>4, IdleMinded

LEMMA MemoryMinded ==
  ASSUME Shapes, Settled, Minded, NEW r \in Requests, SetInMemory(r)
  PROVE  Minded'
<1>0. r \in Actors
  BY DEF Actors
<1> DEFINE w == doing[r]
<1>1. w \in TermWork /\ w.at = "placed" /\ UNCHANGED <<tabs, rows>> /\ odd \subseteq odd'
  BY <1>0, KindOfWork DEF SetInMemory, At, TermSteps, Steps
<1>2. PICK t \in Terminals : t = w.term
  BY <1>0, <1>1 DEF Shapes, Shape, Spawned
<1>3. PlaceOf(t)
  BY DEF Settled
<1>4. ASSUME NEW g \in Tabs, Kept(r, g) PROVE Kept(r, g)' \/ g \in odd'
  <2>1. w.kind = "fresh" /\ w.tab = g
    BY <1>1, <1>4 DEF Kept, At
  <2>2. CASE live[t] = Gone
    BY <1>2, <2>1, <2>2 DEF SetInMemory
  <2>3. CASE live[t] # Gone
    <3> DEFINE v == [w EXCEPT !.at = "set", !.prev = live[t]]
    <3>1. v.at = "set" /\ v.tab = g /\ v.term = t
      BY <1>1, <1>2, <2>1 DEF TermWork
    <3>2. doing'[r] = v
      BY <1>0, <1>2, <2>3, Turned DEF SetInMemory
    <3>3. Active(t)'
      BY <1>1, <1>3, <2>3 DEF PlaceOf, Active
    <3> HIDE DEF v
    <3> QED BY <3>1, <3>2, <3>3 DEF Kept, At, Active
  <2> QED BY <2>2, <2>3
<1>5. \A b \in Actors \ {r} : doing'[b] = doing[b]
  <2>1. \E v : Turn(r, v)
    BY DEF SetInMemory
  <2> QED BY <1>0, <2>1, Turned
<1>6. ASSUME NEW g \in Tabs PROVE EmptyOf(g)'
  BY <1>0, <1>1, <1>4, <1>5, CalmMinded DEF Exists
<1> QED BY <1>6 DEF Minded

LEMMA AssignMinded ==
  ASSUME Shapes, Settled, Minded, NEW r \in Requests, AssignInDb(r)
  PROVE  Minded'
<1>0. r \in Actors
  BY DEF Actors
<1> DEFINE w == doing[r]
<1>1. /\ w \in TermWork /\ At(r, "set") /\ w.term \in Terminals /\ MoveOf(r)
      /\ UNCHANGED tabs /\ w.tab \in Names
  BY <1>0, KindOfWork DEF AssignInDb, At, Shapes, Shape, TermSteps, Steps, Spawned, Settled, TermWork
<1>2. PICK t \in Terminals : t = w.term /\ Setter(r, t)
  BY <1>1 DEF Setter
<1>3. PlaceOf(t)
  BY DEF Settled
<1>4. \A b \in Actors \ {r} : doing'[b] = doing[b]
  <2>1. \E v : Turn(r, v)
    BY DEF AssignInDb
  <2> QED BY <1>0, <2>1, Turned
<1>5. CASE w.tab # NoTab /\ ~Exists(w.tab)
  <2>1. rows' = rows /\ odd \subseteq odd' /\ (rows[t].tab # NoTab => rows[t].tab \in odd')
    BY <1>2, <1>5 DEF AssignInDb
  <2>2. ASSUME NEW g \in Tabs PROVE EmptyOf(g)'
    <3>1. Kept(r, g) => g \in odd' \/ ~Exists(g)'
      BY <1>1, <1>2, <1>5, <2>1, NamesAssumption DEF Kept, At, Exists
    <3> QED BY <1>0, <1>1, <1>4, <2>1, <3>1, CalmMinded DEF Exists
  <2> QED BY <2>2 DEF Minded
<1>6. CASE w.tab = NoTab \/ Exists(w.tab)
  <2>1. /\ rows' = [rows EXCEPT ![t].tab = w.tab] /\ odd' = odd
        /\ Turn(r, IF Leaves(w) THEN [w EXCEPT !.at = "count", !.tab = w.prev] ELSE Idle)
    BY <1>2, <1>6 DEF AssignInDb
  <2>2. /\ rows'[t].tab = w.tab /\ rows'[t].state = rows[t].state
        /\ \A u \in Terminals \ {t} : rows'[u] = rows[u]
        /\ \A u \in Terminals : Active(u)' <=> Active(u)
    BY <2>1 DEF Shapes, PlaceTypes, Active
  <2>3. ASSUME NEW g \in Tabs, w.prev = g, w.tab # g PROVE Kept(r, g)'
    <3> DEFINE v == [w EXCEPT !.at = "count", !.tab = w.prev]
    <3>1. v.at = "count" /\ v.tab = g
      BY <1>1, <2>3 DEF TermWork
    <3>2. doing'[r] = v
      BY <1>0, <2>1, <2>3, Turned, NamesAssumption DEF Leaves
    <3> HIDE DEF v
    <3> QED BY <3>1, <3>2 DEF Kept
  <2>4. \A u \in Terminals, g \in Tabs :
          /\ u \in ActiveIn(g) <=> Active(u) /\ rows[u].tab = g
          /\ u \in ActiveIn(g)' <=> Active(u)' /\ rows'[u].tab = g
    <3>1. Shapes'
      BY AssignShapes
    <3> QED BY <3>1 DEF ActiveIn, Active, Shapes, PlaceTypes
  <2>5. ASSUME NEW g \in Tabs, Exists(g), g \notin odd, ActiveIn(g)' = {}, EmptyOf(g), tabs[g].auto
        PROVE  \E b \in Actors : Kept(b, g)'
    <3>1. ASSUME NEW q \in Requests, q # r, Setter(q, t) PROVE rows[t].tab # g
      BY <1>1, <1>2, <2>5, <3>1, NamesAssumption DEF MoveOf
    <3>2. CASE Active(t) /\ rows[t].tab = g
      <4>1. w.tab # g
        BY <2>2, <2>4, <2>5, <3>2
      <4>2. Home(t) # g
        BY <1>1, <1>2, <2>5, <3>2, <4>1, NamesAssumption DEF MoveOf
      <4>3. PICK q \in Requests : Setter(q, t) /\ g = doing[q].prev
        BY <1>3, <2>5, <3>2, <4>2, NamesAssumption DEF PlaceOf
      <4>4. q = r
        BY <3>1, <3>2, <4>3
      <4> QED BY <1>0, <2>3, <4>1, <4>3, <4>4
    <3>3. CASE ~(Active(t) /\ rows[t].tab = g)
      <4>1. ActiveIn(g) = {}
        <5>1. ActiveIn(g) \subseteq Terminals
          BY DEF ActiveIn
        <5>2. \A u \in Terminals : u \notin ActiveIn(g)
          BY <2>2, <2>4, <2>5, <3>3
        <5> QED BY <5>1, <5>2
      <4>2. PICK a \in Actors : Kept(a, g)
        BY <2>5, <4>1 DEF EmptyOf
      <4>3. CASE a = r
        <5>1. ~(w.tab = g /\ Active(t))
          BY <2>2, <2>4, <2>5
        <5> QED BY <1>0, <1>1, <1>2, <2>3, <4>2, <4>3, <5>1 DEF Kept, At
      <4>4. CASE a # r
        <5>1. doing'[a] = doing[a]
          BY <1>4, <4>4
        <5>2. CASE At(a, "set")
          <6>1. PICK u \in Terminals : u = doing[a].term /\ a \in Requests /\ Setter(a, u)
            BY <5>2 DEF Shapes, Shape, At, Spawned, Actors, Setter
          <6>2. rows[u].tab = g => rows'[u].tab = g
            BY <2>2, <3>1, <4>4, <6>1
          <6> QED BY <2>2, <4>2, <5>1, <5>2, <6>1, <6>2 DEF Kept, At, Active
        <5>3. CASE ~At(a, "set")
          BY <4>2, <5>1, <5>3 DEF Kept, At
        <5> QED BY <5>2, <5>3
      <4> QED BY <4>3, <4>4
    <3> QED BY <3>2, <3>3
  <2>6. ASSUME NEW g \in Tabs PROVE EmptyOf(g)'
    BY <1>1, <2>1, <2>5 DEF EmptyOf, Minded, Exists, Actors
  <2> QED BY <2>6 DEF Minded
<1> QED BY <1>5, <1>6 DEF AssignInDb

LEMMA PruneMinded ==
  ASSUME Shapes, Minded, NEW a \in Actors, CountPanes(a) \/ DropIfAuto(a) \/ DropLayout(a)
  PROVE  Minded'
<1> DEFINE h == doing[a].tab
<1>1. doing[a] \in TermWork /\ doing[a].at \in {"count", "empty", "unlaid", "layout"} /\ h \in Tabs
  BY KindOfWork DEF CountPanes, DropIfAuto, DropLayout, At, Shapes, Shape, TermSteps, Steps
<1>2. \A b \in Actors \ {a} : doing'[b] = doing[b]
  <2>1. \E v : Turn(a, v)
    BY DEF CountPanes, DropIfAuto, DropLayout
  <2> QED BY <2>1, Turned
<1>3. \A x : /\ [doing[a] EXCEPT !.at = x].at = x
             /\ [doing[a] EXCEPT !.at = x].tab = h
  BY <1>1 DEF TermWork
<1>4. \A g : Kept(a, g) => g = h
  BY <1>1 DEF Kept, At
<1>5. ASSUME NEW g \in Tabs PROVE EmptyOf(g)'
  <2>1. CASE CountPanes(a)
    <3>1. CASE ActiveIn(h) = {}
      <4>1. doing'[a] = [doing[a] EXCEPT !.at = "empty"]
        BY <2>1, <3>1, Turned DEF CountPanes
      <4>2. Kept(a, h)'
        BY <1>3, <4>1 DEF Kept
      <4>3. Kept(a, g) => Kept(a, g)'
        BY <1>3, <1>4, <4>1 DEF Kept
      <4> QED BY <1>2, <2>1, <4>3, CalmMinded DEF CountPanes, places, Exists
    <3>2. CASE ActiveIn(h) # {}
      <4>1. CASE g = h
        <5>1. ActiveIn(g)' = ActiveIn(g) /\ ActiveIn(g) # {}
          BY <2>1, <3>2, <4>1 DEF CountPanes, places, ActiveIn
        <5> QED BY <5>1 DEF EmptyOf
      <4>2. CASE g # h
        BY <1>2, <1>4, <2>1, <4>2, CalmMinded DEF CountPanes, places, Exists
      <4> QED BY <4>1, <4>2
    <3> QED BY <3>1, <3>2
  <2>2. CASE DropLayout(a)
    <3>1. CASE doing[a].at = "unlaid"
      <4>1. ~Kept(a, g)
        BY <3>1 DEF Kept, At
      <4> QED BY <1>2, <2>2, <4>1, CalmMinded DEF DropLayout, places, Exists
    <3>2. CASE doing[a].at # "unlaid"
      <4>1. doing'[a] = [doing[a] EXCEPT !.at = "delete"]
        BY <2>2, <3>2, Turned DEF DropLayout, At
      <4>2. Kept(a, g) => Kept(a, g)'
        BY <1>3, <1>4, <4>1 DEF Kept
      <4> QED BY <1>2, <2>2, <4>2, CalmMinded DEF DropLayout, places, Exists
    <3> QED BY <3>1, <3>2
  <2>3. CASE DropIfAuto(a) /\ ~Prunable(h)
    <3>1. UNCHANGED <<tabs, rows, odd>>
      BY <2>3 DEF DropIfAuto
    <3>2. CASE g = h
      BY <2>3, <3>1, <3>2 DEF EmptyOf, Prunable, Exists
    <3>3. CASE g # h
      BY <1>2, <1>4, <3>1, <3>3, CalmMinded DEF Exists
    <3> QED BY <3>2, <3>3
  <2>4. CASE DropIfAuto(a) /\ Prunable(h)
    <3>1. tabs' = Without(h) /\ rows' = Unassigned(h) /\ odd \subseteq odd'
      BY <2>4 DEF DropIfAuto
    <3>2. CASE g = h
      BY <1>1, <3>1, <3>2 DEF EmptyOf, Without, Exists, Shapes, PlaceTypes
    <3>3. CASE g # h
      <4>1. tabs'[g] = tabs[g]
        BY <3>1, <3>3 DEF Without, Shapes, PlaceTypes
      <4>2. \A t \in Terminals : /\ rows[t].tab = g => rows'[t] = rows[t]
                                 /\ Active(t) => Active(t)'
        BY <3>1, <3>3 DEF Unassigned, Active, Shapes, PlaceTypes
      <4>3. ActiveIn(g) \subseteq ActiveIn(g)'
        BY <4>2 DEF ActiveIn
      <4>4. \A b \in Actors \ {a} : Kept(b, g) => Kept(b, g)'
        BY <1>2, <4>2, OthersKeep
      <4> QED BY <1>4, <3>1, <3>3, <4>1, <4>3, <4>4, MindedStays DEF Minded, Exists
    <3> QED BY <3>2, <3>3
  <2> QED BY <2>1, <2>2, <2>3, <2>4
<1> QED BY <1>5 DEF Minded

LEMMA DeleteMinded ==
  ASSUME Shapes, Minded, NEW r \in Requests, ClearRows(r) \/ DeleteTab(r)
  PROVE  Minded'
<1>0. r \in Actors
  BY DEF Actors
<1> DEFINE h == doing[r].tab
<1>1. /\ doing[r] \in TermWork /\ doing[r].at \in {"clear", "delete"} /\ h \in Tabs
      /\ UNCHANGED odd /\ rows' = Unassigned(h) /\ tabs' \in {tabs, Without(h)}
  BY <1>0, KindOfWork DEF ClearRows, DeleteTab, At, Shapes, Shape, TermSteps, Steps
<1>2. \A b \in Actors \ {r} : doing'[b] = doing[b]
  <2>1. \E v : Turn(r, v)
    BY DEF ClearRows, DeleteTab
  <2> QED BY <1>0, <2>1, Turned
<1>3. \A g : Kept(r, g) => g = h
  BY <1>1 DEF Kept, At
<1>4. Kept(r, h)' \/ ~Exists(h)'
  <2>1. CASE ClearRows(r)
    <3>1. doing'[r] = [doing[r] EXCEPT !.at = "layout"]
      BY <1>0, <2>1, Turned DEF ClearRows
    <3>2. doing'[r].at = "layout" /\ doing'[r].tab = h
      BY <1>1, <3>1 DEF TermWork
    <3>3. PICK g \in Tabs : g = h
      BY <1>1
    <3>4. Kept(r, g)'
      BY <3>2, <3>3 DEF Kept
    <3> QED BY <3>2, <3>4 DEF Kept
  <2>2. CASE DeleteTab(r)
    <3>1. doing'[r] = [doing[r] EXCEPT !.at = "forget"] /\ tabs' = Without(h)
      BY <1>0, <2>2, Turned DEF DeleteTab
    <3>2. doing'[r].tab = h
      BY <1>1, <3>1 DEF TermWork
    <3>3. tabs'[h] = NoRow
      BY <1>1, <3>1 DEF Without, Shapes, PlaceTypes
    <3> QED BY <3>2, <3>3 DEF Exists
  <2> QED BY <2>1, <2>2
<1>5. PICK k \in Tabs : k = h /\ k = doing'[r].tab
  <2>1. \A x : [doing[r] EXCEPT !.at = x].tab = h
    BY <1>1 DEF TermWork
  <2>2. \E x : Turn(r, [doing[r] EXCEPT !.at = x])
    BY DEF ClearRows, DeleteTab
  <2> QED BY <1>0, <1>1, <2>1, <2>2, Turned
<1>6. Kept(r, k)' \/ ~Exists(k)'
  BY <1>4, <1>5 DEF Kept, Exists
<1>7. ASSUME NEW g \in Tabs PROVE EmptyOf(g)'
  <2>1. CASE g = k
    BY <1>0, <1>6, <2>1 DEF EmptyOf, Actors
  <2>2. CASE g # k
    <3>1. tabs'[g] = tabs[g]
      BY <1>1, <1>5, <2>2 DEF Without, Shapes, PlaceTypes
    <3>2. \A t \in Terminals : /\ rows[t].tab = g => rows'[t] = rows[t]
                               /\ Active(t) => Active(t)'
      BY <1>1, <1>5, <2>2 DEF Unassigned, Active, Shapes, PlaceTypes
    <3>3. ActiveIn(g) \subseteq ActiveIn(g)'
      BY <3>2 DEF ActiveIn
    <3>4. \A b \in Actors \ {r} : Kept(b, g) => Kept(b, g)'
      BY <1>0, <1>2, <3>2, OthersKeep
    <3>5. ~Kept(r, g)
      BY <1>3, <1>5, <2>2
    <3> QED BY <1>0, <1>1, <3>1, <3>3, <3>4, <3>5, MindedStays DEF Minded, Exists
  <2> QED BY <2>1, <2>2
<1> QED BY <1>7 DEF Minded

LEMMA GiveUpMinded ==
  ASSUME Shapes, Minded, NEW r \in Requests, GiveUp(r)
  PROVE  Minded'
<1>0. r \in Actors
  BY DEF Actors
<1>1. \A b \in Actors \ {r} : doing'[b] = doing[b]
  <2>1. \E v : Turn(r, v)
    BY DEF GiveUp
  <2> QED BY <1>0, <2>1, Turned
<1>2. /\ UNCHANGED places /\ odd \subseteq odd' /\ doing[r].at \in {"asked", "placed", "forget"}
      /\ At(r, "placed") /\ doing[r].kind = "fresh" => doing[r].tab \in odd'
  BY DEF GiveUp, At
<1>3. ASSUME NEW g \in Tabs PROVE EmptyOf(g)'
  <2>1. Kept(r, g) => g \in odd'
    BY <1>2 DEF Kept, At
  <2> QED BY <1>0, <1>1, <1>2, <2>1, CalmMinded DEF places, Exists
<1> QED BY <1>3 DEF Minded

LEMMA DeathMinded ==
  ASSUME Shapes, Minded, NEW t \in Terminals, TerminalDestroyed(t)
  PROVE  Minded'
<1>1. Machine \in Actors /\ doing[Machine].at = "idle" /\ UNCHANGED <<tabs, rows, odd>>
  BY DEF TerminalDestroyed, Idle, Actors
<1>2. \A b \in Actors \ {Machine} : doing'[b] = doing[b]
  BY <1>1, Turned DEF TerminalDestroyed
<1> QED BY <1>1, <1>2, IdleMinded DEF Exists

LEMMA MarkMinded ==
  ASSUME Shapes, Settled, Minded, MarkDestroyed
  PROVE  Minded'
<1>0. Machine \in Actors /\ Machine \notin Requests
  BY ActorsAssumption DEF Actors
<1> DEFINE w == doing[Machine]
<1>1. PICK t \in Terminals : t = w.term /\ Dying(t)
  BY <1>0 DEF MarkDestroyed, At, Shapes, Shape, Spawned, Dying
<1>2. rows' = [rows EXCEPT ![t].state = "destroyed"] /\ UNCHANGED <<tabs, odd>>
  BY <1>1 DEF MarkDestroyed
<1>3. /\ ~Active(t)'
      /\ \A u \in Terminals : rows'[u].tab = rows[u].tab
      /\ \A u \in Terminals \ {t} : rows'[u] = rows[u]
  BY <1>2 DEF Shapes, PlaceTypes, Active
<1>4. \A b \in Requests : doing'[b] = doing[b]
  <2>1. \E v : Turn(Machine, v)
    BY DEF MarkDestroyed
  <2> QED BY <1>0, <2>1, Turned DEF Actors
<1>5. PlaceOf(t) /\ live[t] = Gone /\ Active(t) /\ Home(t) = w.tab
  BY <1>1 DEF Settled, PlaceOf, Home
<1>6. ASSUME NEW g \in Tabs, w.tab = g PROVE Kept(Machine, g)'
  <2>1. w \in TermWork
    BY <1>0, KindOfWork DEF MarkDestroyed, At, TermSteps, Steps
  <2>2. doing'[Machine] = [w EXCEPT !.at = "count"]
    BY <1>0, <1>6, Turned, NamesAssumption DEF MarkDestroyed
  <2> QED BY <1>6, <2>1, <2>2 DEF Kept, TermWork
<1>7. ASSUME NEW g \in Tabs, Exists(g), g \notin odd, tabs[g].auto, EmptyOf(g), ActiveIn(g)' = {}
      PROVE  \E a \in Actors : Kept(a, g)'
  <2>1. CASE w.tab = g
    BY <1>0, <1>6, <2>1
  <2>2. CASE w.tab # g
    <3>1. ASSUME NEW q \in Requests, Setter(q, t) PROVE doing[q].tab # g
      <4>1. MoveOf(q) /\ At(q, "set") /\ doing[q].term = t
        BY <3>1 DEF Settled, Setter
      <4> QED BY <1>5, <1>7, <2>2, <4>1, NamesAssumption DEF MoveOf
    <3>2. CASE rows[t].tab = g
      <4>1. PICK q \in Requests : Setter(q, t) /\ g = doing[q].prev
        BY <1>5, <1>7, <2>2, <3>2, NamesAssumption DEF PlaceOf
      <4>2. doing'[q] = doing[q] /\ rows'[t].tab = g /\ doing[q].tab # g
        BY <1>3, <1>4, <3>1, <3>2, <4>1
      <4>3. Kept(q, g)'
        BY <4>1, <4>2 DEF Kept, Setter, At
      <4> QED BY <4>3 DEF Actors
    <3>3. CASE rows[t].tab # g
      <4>1. ActiveIn(g) = {}
        BY <1>3, <1>7, <3>3 DEF ActiveIn
      <4>2. PICK a \in Actors : Kept(a, g)
        BY <1>7, <4>1 DEF EmptyOf
      <4>3. a \in Requests
        BY <1>0, <1>1, <2>2, <4>2 DEF Kept, Actors, Dying, At
      <4>4. doing'[a] = doing[a]
        BY <1>4, <4>3
      <4>5. CASE At(a, "set")
        <5>1. PICK u \in Terminals : u = doing[a].term /\ Setter(a, u)
          BY <4>3, <4>5 DEF Shapes, Shape, At, Spawned, Actors, Setter
        <5>2. u = t => doing[a].tab # g
          BY <3>1, <4>3, <5>1
        <5> QED BY <1>3, <4>2, <4>4, <4>5, <5>1, <5>2 DEF Kept, At, Active
      <4>6. CASE ~At(a, "set")
        BY <4>2, <4>4, <4>6 DEF Kept, At
      <4> QED BY <4>5, <4>6
    <3> QED BY <3>2, <3>3
  <2> QED BY <2>1, <2>2
<1>8. ASSUME NEW g \in Tabs PROVE EmptyOf(g)'
  BY <1>2, <1>7 DEF EmptyOf, Minded, Exists, Actors
<1> QED BY <1>8 DEF Minded

LEMMA RestartMinded ==
  ASSUME Shapes, RestartHub
  PROVE  Minded'
<1>1. PICK made, place : Resettled(made, place)
  BY RestartResettles
<1>2. \A g \in Tabs : tabs'[g].auto => ActiveIn(g)' # {}
  BY <1>1 DEF Resettled, ActiveIn
<1> QED BY <1>2 DEF Minded, EmptyOf

LEMMA StillMinded ==
  ASSUME Minded, UNCHANGED <<rows, doing, odd>>,
         \A g \in Tabs : Exists(g)' /\ tabs'[g].auto => Exists(g) /\ tabs[g].auto
  PROVE  Minded'
<1>1. \A g : ActiveIn(g)' = ActiveIn(g)
  BY DEF ActiveIn
<1>2. \A a, g : Kept(a, g) => Kept(a, g)'
  BY DEF Kept, At, Active
<1> QED BY <1>1, <1>2 DEF Minded, EmptyOf, Actors

LEMMA NextMinded == Shapes /\ Settled /\ Minded /\ [Next]_vars => Minded'
<1> SUFFICES ASSUME Shapes, Settled, Minded, [Next]_vars PROVE Minded'
  OBVIOUS
<1>1. ASSUME NEW r \in Requests, RequestStep(r) PROVE Minded'
  BY <1>1, RequestMinded, MemoryMinded, AssignMinded, DeleteMinded, GiveUpMinded
     DEF RequestStep, AskCreate, AskMove, AskTab, AskDelete, AskReorder
<1>2. ASSUME NEW g \in Tabs, Rename(g) PROVE Minded'
  BY <1>2, StillMinded DEF Rename, Exists, Shapes, PlaceTypes
<1>3. CASE \E a \in Actors : CountPanes(a) \/ DropIfAuto(a) \/ DropLayout(a)
  BY <1>3, PruneMinded
<1>4. CASE \E t \in Terminals : TerminalDestroyed(t)
  BY <1>4, DeathMinded
<1>5. CASE MarkDestroyed
  BY <1>5, MarkMinded
<1>6. ASSUME NEW e \in Editors, EditStep(e) PROVE Minded'
  BY <1>6, StillMinded DEF EditStep, Look, CheckLayout, SaveLayout, places, Exists
<1>7. CASE RestartHub
  BY <1>7, RestartMinded
<1>8. CASE UNCHANGED vars
  BY <1>8, StillMinded DEF vars, Exists
<1> QED BY <1>1, <1>2, <1>3, <1>4, <1>5, <1>6, <1>7, <1>8 DEF Next

-----------------------------------------------------------------------------
(* The numbers of the strip.                                               *)

Numbers(r) == doing[r].at \in {"ordered", "reorder"}

Distinct == \A g, h \in Tabs : Exists(g) /\ Exists(h) /\ tabs[g].order = tabs[h].order => g = h

\* How far a reordering is.
Partway(r) ==
  LET l == doing[r].list
  IN  /\ \A g \in Tabs : Exists(g) => \E i \in 1..Len(l) : l[i] = g
      /\ \A i, j \in 1..Len(l) : l[i] = l[j] => i = j
      /\ \A i \in 1..doing[r].order : Exists(l[i]) => tabs[l[i]].order = i - 1

Strip ==
  ~mixed =>
    /\ \A r, q \in Requests : Numbers(r) /\ Numbers(q) => r = q
    /\ \A r \in Requests : At(r, "ordered") =>
         \A g \in Tabs : Exists(g) => tabs[g].order # doing[r].order
    /\ (\A r \in Requests : ~At(r, "reorder")) => Distinct
    /\ \A r \in Requests : At(r, "reorder") => Partway(r)

(* Steps that number nothing.                                              *)
LEMMA UnnumberedStrip ==
  ASSUME Shapes, Strip, UNCHANGED mixed,
         \A g \in Tabs : Exists(g)' => Exists(g) /\ tabs'[g].order = tabs[g].order,
         \A r \in Requests : /\ Numbers(r)' <=> Numbers(r)
                             /\ Numbers(r) => doing'[r] = doing[r]
  PROVE  Strip'
<1>1. SUFFICES ASSUME ~mixed PROVE Strip'
  BY DEF Strip
<1>2. Distinct => Distinct'
  BY DEF Distinct
<1>3. \A r \in Requests : (At(r, "ordered")' <=> At(r, "ordered")) /\ (At(r, "reorder")' <=> At(r, "reorder"))
  BY DEF Numbers, At
<1>4. ASSUME NEW r \in Requests, At(r, "reorder") PROVE Partway(r) => Partway(r)'
  <2>1. doing'[r] = doing[r] /\ doing[r] \in ListWork /\ doing[r].order < Len(doing[r].list)
    BY <1>4, KindOfWork DEF Numbers, At, Actors, Shapes, Shape
  <2>2. \A i \in 1..doing[r].order : doing[r].list[i] \in Tabs
    BY <2>1 DEF ListWork
  <2> QED BY <2>1, <2>2 DEF Partway
<1>5. \A r, q \in Requests : Numbers(r)' /\ Numbers(q)' => r = q
  BY <1>1 DEF Strip
<1>6. ASSUME NEW r \in Requests, At(r, "ordered"), NEW g \in Tabs, Exists(g)'
      PROVE  tabs'[g].order # doing'[r].order
  <2>1. Exists(g) /\ tabs'[g].order = tabs[g].order /\ doing'[r] = doing[r]
    BY <1>6 DEF Numbers, At
  <2> QED BY <1>1, <1>6, <2>1 DEF Strip
<1>7. (\A r \in Requests : ~At(r, "reorder")) => Distinct'
  BY <1>1, <1>2 DEF Strip
<1>8. \A r \in Requests : At(r, "reorder") => Partway(r)'
  BY <1>1, <1>4 DEF Strip
<1> QED BY <1>3, <1>5, <1>6, <1>7, <1>8 DEF Strip

LEMMA TurnStrip ==
  ASSUME Shapes, Strip, UNCHANGED mixed, NEW a \in Actors, NEW v, Turn(a, v),
         doing[a].at \notin {"ordered", "reorder"}, v.at \notin {"ordered", "reorder"},
         \A g \in Tabs : Exists(g)' => Exists(g) /\ tabs'[g].order = tabs[g].order
  PROVE  Strip'
BY Turned, UnnumberedStrip DEF Numbers, Actors

LEMMA ReorderStrip ==
  ASSUME Shapes, Strip, NEW r \in Requests, NEW list \in Lists \ {<<>>}, AskReorder(r, list)
  PROVE  Strip'
<1>1. SUFFICES ASSUME ~mixed, ~Numbering(r) PROVE Strip'
  BY DEF Strip, AskReorder
<1>2. /\ UNCHANGED tabs
      /\ doing'[r] = [at |-> "reorder", list |-> list, order |-> 0]
      /\ \A q \in Requests \ {r} : doing'[q] = doing[q]
  BY Turned DEF AskReorder, Start, places, Actors
<1>3. \A q \in Requests \ {r} : ~Numbers(q)
  BY <1>1 DEF Numbering, Numbers
<1>4. Partway(r)'
  <2>1. \A g \in Tabs : Exists(g)' <=> Exists(g)
    BY <1>2 DEF Exists
  <2>2. doing'[r].list = list /\ doing'[r].order = 0 /\ ~(\E i \in 1..0 : TRUE)
    BY <1>2
  <2> QED BY <2>1, <2>2, ListNamesAll DEF Partway
<1> QED BY <1>2, <1>3, <1>4 DEF Strip, Numbers, At

LEMMA ReadStrip ==
  ASSUME Shapes, Strip, NEW r \in Requests, ReadOrder(r)
  PROVE  Strip'
<1>1. SUFFICES ASSUME ~mixed, ~Numbering(r) PROVE Strip'
  BY DEF Strip, ReadOrder
<1>2. PICK v : Turn(r, v) /\ v.at = "ordered" /\ v.order = NextOrder
  BY DEF ReadOrder
<1>3. /\ UNCHANGED tabs /\ At(r, "opening")
      /\ doing'[r] = v
      /\ \A q \in Requests \ {r} : doing'[q] = doing[q]
  BY <1>2, Turned DEF ReadOrder, places, Actors
<1>4. \A q \in Requests \ {r} : ~Numbers(q)
  BY <1>1 DEF Numbering, Numbers
<1>5. Distinct
  BY <1>1, <1>3, <1>4 DEF Strip, Numbers, At
<1>6. \A g \in Tabs : Exists(g) => tabs[g].order # NextOrder
  BY NextOrderIsNew, TabRows
<1>7. Distinct' /\ \A g \in Tabs : Exists(g)' => tabs'[g].order # doing'[r].order
  BY <1>2, <1>3, <1>5, <1>6 DEF Distinct, Exists
<1> QED BY <1>2, <1>3, <1>4, <1>7 DEF Strip, Numbers, At

LEMMA InsertStrip ==
  ASSUME Shapes, Strip, NEW r \in Requests, InsertTab(r)
  PROVE  Strip'
<1>1. SUFFICES ASSUME ~mixed PROVE Strip'
  BY DEF Strip, InsertTab
<1>2. PICK h \in Tabs \ born :
       /\ tabs' = [tabs EXCEPT ![h] = [auto |-> doing[r].kind = "fresh",
                                       order |-> doing[r].order]]
       /\ Turn(r, IF doing[r].kind = "fresh" THEN Job("fresh", "placed", doing[r].term, h)
                  ELSE Idle)
  BY DEF InsertTab
<1>3. At(r, "ordered") /\ Numbers(r)
  BY DEF InsertTab, Numbers, At
<1>4. doing'[r].at \in {"placed", "idle"} /\ \A q \in Requests \ {r} : doing'[q] = doing[q]
  BY <1>2, Turned DEF Job, Idle, Actors
<1>5. \A q \in Requests : ~Numbers(q)'
  BY <1>1, <1>3, <1>4 DEF Strip, Numbers
<1>6. Distinct /\ \A g \in Tabs : Exists(g) => tabs[g].order # doing[r].order
  BY <1>1, <1>3 DEF Strip, Numbers, At
<1>7. tabs'[h].order = doing[r].order /\ \A g \in Tabs \ {h} : tabs'[g] = tabs[g]
  BY <1>2 DEF Shapes, PlaceTypes
<1>8. Distinct'
  BY <1>6, <1>7 DEF Distinct, Exists
<1> QED BY <1>5, <1>8 DEF Strip, Numbers, At

LEMMA NumberStrip ==
  ASSUME Shapes, Strip, NEW r \in Requests, NumberTab(r)
  PROVE  Strip'
<1>0. r \in Actors
  BY DEF Actors
<1>1. SUFFICES ASSUME ~mixed PROVE Strip'
  BY DEF Strip, NumberTab
<1> DEFINE l == doing[r].list
           k == doing[r].order
           g == l[k + 1]
<1>2. doing[r] \in ListWork /\ At(r, "reorder") /\ k \in Nat /\ k < Len(l) /\ Len(l) \in Nat
  BY <1>0, KindOfWork DEF NumberTab, At, ListWork, Shapes, Shape
<1>3. \A i \in 1..Len(l) : l[i] \in Tabs
  BY <1>2 DEF ListWork
<1>4. Partway(r) /\ \A q \in Requests \ {r} : ~Numbers(q)
  BY <1>1, <1>2 DEF Strip, Numbers, At
<1>5. g \in Tabs /\ k + 1 \in 1..Len(l)
  BY <1>2, <1>3
<1>6. /\ \A h \in Tabs \ {g} : tabs'[h] = tabs[h]
      /\ Exists(g) => tabs'[g].order = k
      /\ \A h \in Tabs : Exists(h)' <=> Exists(h)
  <2>1. tabs' = IF Exists(g) THEN [tabs EXCEPT ![g].order = k] ELSE tabs
    BY DEF NumberTab
  <2>2. Exists(g) => tabs[g] \in [auto : BOOLEAN, order : Nat]
    BY <1>5, TabRows
  <2>3. CASE Exists(g)
    <3>1. tabs' = [tabs EXCEPT ![g].order = k]
      BY <2>1, <2>3
    <3> HIDE DEF g, k
    <3>2. tabs'[g] \in [auto : BOOLEAN, order : Nat] /\ tabs'[g].order = k
          /\ \A h \in Tabs \ {g} : tabs'[h] = tabs[h]
      BY <1>2, <1>5, <2>2, <2>3, <3>1 DEF Shapes, PlaceTypes
    <3>3. tabs'[g] # NoRow
      BY <3>2 DEF NoRow
    <3> QED BY <2>3, <3>2, <3>3 DEF Exists
  <2>4. CASE ~Exists(g)
    <3>1. tabs' = tabs
      BY <2>1, <2>4
    <3> QED BY <2>4, <3>1 DEF Exists
  <2> QED BY <2>3, <2>4
<1>7. \A i \in 1..k + 1 : Exists(l[i]) => tabs'[l[i]].order = i - 1
  <2> SUFFICES ASSUME NEW i \in 1..k + 1, Exists(l[i]) PROVE tabs'[l[i]].order = i - 1
    OBVIOUS
  <2>1. CASE i = k + 1
    BY <1>2, <1>6, <2>1
  <2>2. CASE i # k + 1
    <3>1. i \in 1..k /\ i \in 1..Len(l)
      BY <1>2, <2>2
    <3>2. l[i] # g /\ l[i] \in Tabs
      BY <1>3, <1>4, <1>5, <2>2, <3>1 DEF Partway
    <3>3. tabs[l[i]].order = i - 1
      BY <1>4, <3>1 DEF Partway
    <3> QED BY <1>6, <3>2, <3>3
  <2> QED BY <2>1, <2>2
<1>8. \A q \in Requests \ {r} : doing'[q] = doing[q]
  <2>1. \E v : Turn(r, v)
    BY DEF NumberTab
  <2> QED BY <1>0, <2>1, Turned DEF Actors
<1>9. CASE k + 1 = Len(l)
  <2>1. doing'[r] = Idle
    BY <1>0, <1>9, Turned DEF NumberTab
  <2>2. \A q \in Requests : ~Numbers(q)'
    BY <1>4, <1>8, <2>1 DEF Numbers, Idle
  <2>3. Distinct'
    <3> SUFFICES ASSUME NEW x \in Tabs, NEW y \in Tabs, Exists(x), Exists(y),
                        tabs'[x].order = tabs'[y].order
                 PROVE  x = y
      BY <1>6 DEF Distinct
    <3>1. PICK i \in 1..Len(l) : l[i] = x
      BY <1>4 DEF Partway
    <3>2. PICK j \in 1..Len(l) : l[j] = y
      BY <1>4 DEF Partway
    <3>3. tabs'[x].order = i - 1 /\ tabs'[y].order = j - 1
      BY <1>7, <1>9, <3>1, <3>2
    <3>4. i \in Int /\ j \in Int /\ i - 1 = j - 1
      <4>1. i \in Int /\ j \in Int
        BY <1>2
      <4> QED BY <3>3, <4>1
    <3>5. i = j
      BY <3>4
    <3> QED BY <3>1, <3>2, <3>5
  <2> QED BY <2>2, <2>3 DEF Strip, Numbers, At
<1>10. CASE k + 1 # Len(l)
  <2>1. doing'[r] = [doing[r] EXCEPT !.order = k + 1]
    BY <1>0, <1>10, Turned DEF NumberTab
  <2>2. doing'[r].at = "reorder" /\ doing'[r].list = l /\ doing'[r].order = k + 1
    BY <1>2, <2>1 DEF ListWork, At
  <2>3. Partway(r)'
    <3>1. \A i \in 1..k + 1 : l[i] \in Tabs
      BY <1>2, <1>3
    <3>2. \A i \in 1..k + 1 : tabs'[l[i]] # NoRow => tabs'[l[i]].order = i - 1
      BY <1>6, <1>7, <3>1 DEF Exists
    <3>3. \A h \in Tabs : tabs'[h] # NoRow => \E i \in 1..Len(l) : l[i] = h
      BY <1>4, <1>6 DEF Partway, Exists
    <3>4. \A i, j \in 1..Len(l) : l[i] = l[j] => i = j
      BY <1>4 DEF Partway
    <3> HIDE DEF l, k
    <3> QED BY <2>2, <3>2, <3>3, <3>4 DEF Partway, Exists
  <2> QED BY <1>4, <1>8, <2>2, <2>3 DEF Strip, Numbers, At
<1> QED BY <1>9, <1>10

LEMMA RestartStrip ==
  ASSUME Shapes, Strip, RestartHub
  PROVE  Strip'
<1>1. PICK made, place : Resettled(made, place)
  BY RestartResettles
<1>2. SUFFICES ASSUME ~mixed, \A r \in Requests : ~At(r, "reorder") PROVE Strip'
  BY DEF Strip, RestartHub
<1>3. Distinct
  BY <1>2 DEF Strip
<1>4. \A r \in Requests : doing'[r] = Idle
  BY DEF RestartHub, Actors
<1>5. \A g \in Tabs : Exists(g) => tabs[g].order < NextOrder /\ tabs[g].order \in Nat
  BY NextOrderIsNew, TabRows
<1>6. NextOrder \in Nat /\ Cardinality(made) \in Nat
  BY <1>1, NextOrderIsNew, FS_CardinalityType DEF Resettled
<1>7. ASSUME NEW g \in Tabs, tabs'[g] # NoRow
      PROVE  \/ g \in made /\ tabs'[g].order = place[g] /\ tabs'[g].order >= NextOrder
                /\ tabs'[g].order \in Int
             \/ g \notin made /\ tabs'[g] = tabs[g] /\ Exists(g)
  <2>1. CASE g \in made
    <3>1. tabs'[g] = [auto |-> TRUE, order |-> place[g]]
          /\ place[g] \in NextOrder..(NextOrder + Cardinality(made) - 1)
      BY <1>1, <1>7, <2>1 DEF Resettled
    <3> QED BY <1>6, <2>1, <3>1
  <2>2. CASE g \notin made
    BY <1>1, <1>7, <2>2 DEF Resettled, Exists
  <2> QED BY <2>1, <2>2
<1>8. \A g, h \in made : place[g] = place[h] => g = h
  BY <1>1 DEF Resettled
<1>9. ASSUME NEW g \in Tabs, NEW h \in Tabs, tabs'[g] # NoRow, tabs'[h] # NoRow,
             tabs'[g].order = tabs'[h].order
      PROVE  g = h
  <2>1. CASE g \in made <=> h \in made
    BY <1>3, <1>7, <1>8, <1>9, <2>1 DEF Distinct
  <2>2. CASE ~(g \in made <=> h \in made)
    BY <1>5, <1>6, <1>7, <1>9, <2>2
  <2> QED BY <2>1, <2>2
<1>10. Distinct'
  BY <1>9 DEF Distinct, Exists
<1> QED BY <1>4, <1>10 DEF Strip, Numbers, At, Idle

LEMMA RequestStrip ==
  ASSUME Shapes, Strip, NEW r \in Requests,
         \/ TerminalCreated(r) \/ Refused(r) \/ SetInMemory(r) \/ AssignInDb(r)
         \/ ClearRows(r) \/ DeleteTab(r) \/ ForgetTab(r) \/ GiveUp(r)
  PROVE  Strip'
<1>0. r \in Actors
  BY DEF Actors
<1>1. /\ doing[r].at \in {"asked", "orphan", "placed", "set", "clear", "delete", "forget"}
      /\ UNCHANGED mixed
  BY DEF TerminalCreated, Refused, SetInMemory, AssignInDb, ClearRows, DeleteTab, ForgetTab, GiveUp, At
<1>2. doing[r] \in TermWork
  BY <1>0, <1>1, KindOfWork DEF TermSteps, Steps
<1>3. \A g \in Tabs : Exists(g)' => Exists(g) /\ tabs'[g].order = tabs[g].order
  <2>1. CASE UNCHANGED tabs
    BY <2>1 DEF Exists
  <2>2. CASE DeleteTab(r)
    BY <2>2 DEF DeleteTab, Without, Exists, Shapes, PlaceTypes
  <2> QED BY <2>1, <2>2 DEF TerminalCreated, Refused, SetInMemory, AssignInDb, ClearRows, ForgetTab,
             GiveUp, places
<1>4. ASSUME NEW x \in {"opening", "placed", "set", "count", "layout", "forget", "orphan"},
             NEW p, NEW q,
             \/ Turn(r, [doing[r] EXCEPT !.at = x])
             \/ Turn(r, [doing[r] EXCEPT !.at = x, !.term = p])
             \/ Turn(r, [doing[r] EXCEPT !.at = x, !.prev = p])
             \/ Turn(r, [doing[r] EXCEPT !.at = x, !.tab = p])
      PROVE  \E v : Turn(r, v) /\ v.at \notin {"ordered", "reorder"}
  <2>1. /\ [doing[r] EXCEPT !.at = x].at = x
        /\ [doing[r] EXCEPT !.at = x, !.term = p].at = x
        /\ [doing[r] EXCEPT !.at = x, !.prev = p].at = x
        /\ [doing[r] EXCEPT !.at = x, !.tab = p].at = x
    BY <1>2 DEF TermWork
  <2>2. x \notin {"ordered", "reorder"}
    OBVIOUS
  <2> QED BY <1>4, <2>1, <2>2
<1>5. Turn(r, Idle) => \E v : Turn(r, v) /\ v.at \notin {"ordered", "reorder"}
  <2>1. Idle.at \notin {"ordered", "reorder"}
    BY DEF Idle
  <2> QED BY <2>1
<1>6. \E v : Turn(r, v) /\ v.at \notin {"ordered", "reorder"}
  <2>1. CASE TerminalCreated(r)
    BY <1>4, <1>5, <2>1 DEF TerminalCreated, GoesOn
  <2>2. CASE Refused(r) \/ ForgetTab(r)
    BY <1>5, <2>2 DEF Refused, ForgetTab
  <2>3. CASE SetInMemory(r)
    BY <1>4, <1>5, <2>3 DEF SetInMemory
  <2>4. CASE AssignInDb(r)
    BY <1>4, <1>5, <2>4 DEF AssignInDb
  <2>5. CASE ClearRows(r) \/ DeleteTab(r)
    BY <1>4, <2>5 DEF ClearRows, DeleteTab
  <2>6. CASE GiveUp(r)
    BY <1>4, <1>5, <2>6 DEF GiveUp
  <2> QED BY <2>1, <2>2, <2>3, <2>4, <2>5, <2>6
<1> QED BY <1>0, <1>1, <1>3, <1>6, TurnStrip

LEMMA PruneStrip ==
  ASSUME Shapes, Strip, NEW a \in Actors, CountPanes(a) \/ DropIfAuto(a) \/ DropLayout(a)
  PROVE  Strip'
<1>1. doing[a].at \in {"count", "empty", "unlaid", "layout"} /\ UNCHANGED mixed
  BY DEF CountPanes, DropIfAuto, DropLayout, At
<1>2. doing[a] \in TermWork
  BY <1>1, KindOfWork DEF TermSteps, Steps
<1>3. \A g \in Tabs : Exists(g)' => Exists(g) /\ tabs'[g].order = tabs[g].order
  <2>1. tabs' \in {tabs, Without(doing[a].tab)}
    BY DEF CountPanes, DropIfAuto, DropLayout, places
  <2> QED BY <2>1 DEF Without, Exists, Shapes, PlaceTypes
<1>4. ASSUME NEW x \in {"empty", "unlaid", "delete"}, Turn(a, [doing[a] EXCEPT !.at = x])
      PROVE  \E v : Turn(a, v) /\ v.at \notin {"ordered", "reorder"}
  <2>1. [doing[a] EXCEPT !.at = x].at = x /\ x \notin {"ordered", "reorder"}
    BY <1>2 DEF TermWork
  <2> QED BY <1>4, <2>1
<1>5. Turn(a, Idle) => \E v : Turn(a, v) /\ v.at \notin {"ordered", "reorder"}
  <2>1. Idle.at \notin {"ordered", "reorder"}
    BY DEF Idle
  <2> QED BY <2>1
<1>6. \E v : Turn(a, v) /\ v.at \notin {"ordered", "reorder"}
  BY <1>4, <1>5 DEF CountPanes, DropIfAuto, DropLayout
<1> QED BY <1>1, <1>3, <1>6, TurnStrip

LEMMA MachineStrip ==
  ASSUME Shapes, Strip, (\E t \in Terminals : TerminalDestroyed(t)) \/ MarkDestroyed
  PROVE  Strip'
<1>1. /\ UNCHANGED <<tabs, mixed>> /\ \E v : Turn(Machine, v)
  BY DEF TerminalDestroyed, MarkDestroyed
<1>2. \A r \in Requests : doing'[r] = doing[r]
  BY <1>1, Turned, ActorsAssumption DEF Actors
<1> QED BY <1>1, <1>2, UnnumberedStrip DEF Numbers, Exists

LEMMA NextStrip == Shapes /\ Strip /\ [Next]_vars => Strip'
<1> SUFFICES ASSUME Shapes, Strip, [Next]_vars PROVE Strip'
  OBVIOUS
<1>1. ASSUME NEW r \in Requests, RequestStep(r) PROVE Strip'
  <2>1. ASSUME NEW kind, NEW step \in {"asked", "opening", "placed", "clear"}, NEW t, NEW g,
               Start(r, Job(kind, step, t, g)), UNCHANGED mixed
        PROVE  Strip'
    BY <2>1, TurnStrip DEF Start, Job, places, Exists, Idle, Actors
  <2>2. CASE \E g \in Tabs \union {NoTab} : AskCreate(r, g)
    BY <2>1, <2>2 DEF AskCreate
  <2>3. CASE \E t \in Terminals, g \in Tabs \union {NoTab} : AskMove(r, t, g)
    BY <2>1, <2>3 DEF AskMove
  <2>4. CASE AskTab(r)
    BY <2>1, <2>4 DEF AskTab
  <2>5. CASE \E g \in Tabs : AskDelete(r, g)
    BY <2>1, <2>5 DEF AskDelete
  <2> QED BY <1>1, <2>2, <2>3, <2>4, <2>5, ReorderStrip, NumberStrip, ReadStrip, InsertStrip,
             RequestStrip DEF RequestStep
<1>2. ASSUME NEW g \in Tabs, Rename(g) PROVE Strip'
  BY <1>2, UnnumberedStrip DEF Rename, Exists, Shapes, PlaceTypes, Numbers
<1>3. CASE \E a \in Actors : CountPanes(a) \/ DropIfAuto(a) \/ DropLayout(a)
  BY <1>3, PruneStrip
<1>4. CASE (\E t \in Terminals : TerminalDestroyed(t)) \/ MarkDestroyed
  BY <1>4, MachineStrip
<1>5. ASSUME NEW e \in Editors, EditStep(e) PROVE Strip'
  BY <1>5, UnnumberedStrip DEF EditStep, Look, CheckLayout, SaveLayout, places, Exists, Numbers
<1>6. CASE RestartHub
  BY <1>6, RestartStrip
<1>7. CASE UNCHANGED vars
  BY <1>7, UnnumberedStrip DEF vars, Exists, Numbers
<1> QED BY <1>1, <1>2, <1>3, <1>4, <1>5, <1>6, <1>7 DEF Next

-----------------------------------------------------------------------------
TabsInv == Shapes /\ Settled /\ Minded /\ Strip

LEMMA InitTabsInv == Init => TabsInv
<1> SUFFICES ASSUME Init PROVE TabsInv
  OBVIOUS
<1>1. \A g \in Tabs : ~Exists(g)
  BY DEF Init, Exists
<1>2. Minded
  BY <1>1 DEF Minded, EmptyOf
<1>3. \A r \in Requests : doing[r].at = "idle"
  BY DEF Init, Idle, Actors
<1>4. Strip
  BY <1>1, <1>3 DEF Strip, Numbers, At, Distinct
<1> QED BY <1>2, <1>4, InitShapes, InitSettled DEF TabsInv

(* The invariant the theorems below rest on: between any two steps, a      *)
(* terminal's row, memory and the request moving it fit together, an empty *)
(* tab of the hub's own has its keeper, and the strip its order.           *)
THEOREM TabsInvHolds == Spec => []TabsInv
<1>1. TabsInv /\ [Next]_vars => TabsInv'
  BY NextShapes, NextSettled, NextMinded, NextStrip DEF TabsInv
<1> QED BY <1>1, InitTabsInv, PTL DEF Spec

(* Inserting, reordering and deleting tabs leave no two with one number,   *)
(* unless two requests numbered tabs at once or the hub stopped in one.    *)
THEOREM StripNumbered == Spec => []StripIsOrdered
<1>1. TabsInv => StripIsOrdered
  BY DEF TabsInv, Strip, StripIsOrdered, Distinct
<1> QED BY <1>1, TabsInvHolds, PTL

(* delete_if_empty_and_auto_created loses no tab: whatever order moves,    *)
(* deaths and deletions come in, an empty tab of the hub's own has a       *)
(* handler that will count its panes or is deleting it.                    *)
THEOREM EmptyTabsMinded == Spec => []EmptyTabGoes
<1>1. TabsInv => EmptyTabGoes
  <2> SUFFICES ASSUME TabsInv, NEW g \in Tabs, Exists(g), tabs[g].auto, ActiveIn(g) = {}, g \notin odd
               PROVE  Attended(g)
    BY DEF EmptyTabGoes
  <2>1. PICK a \in Actors : Kept(a, g)
    BY DEF TabsInv, Minded, EmptyOf
  <2> QED BY <2>1 DEF Kept, Attended, At
<1> QED BY <1>1, TabsInvHolds, PTL

(* The memory and the database, written one after the other and without a  *)
(* transaction, agree about every terminal no handler has in hand.         *)
THEOREM MemoryMatchesRows == Spec => []PlacesAgree
<1>1. TabsInv => PlacesAgree
  <2> SUFFICES ASSUME TabsInv, NEW t \in Terminals, t \notin odd, ~Moving(t)
               PROVE  IF live[t] = Gone THEN rows[t].state # "active"
                      ELSE rows[t] = [state |-> "active", tab |-> live[t]]
    BY DEF PlacesAgree
  <2>1. PlaceOf(t)
    BY DEF TabsInv, Settled
  <2>2. \A r \in Requests : ~Setter(r, t)
    BY DEF Moving, Setter, At, Actors
  <2>3. ~Dying(t)
    BY DEF Moving, Dying, At, Actors
  <2>4. ~Deleting(live[t])
    BY DEF Moving, Deleting, Actors
  <2> QED BY <2>1, <2>2, <2>3, <2>4 DEF PlaceOf, Active, TabsInv, Shapes, PlaceTypes
<1> QED BY <1>1, TabsInvHolds, PTL

LEMMA WhoDropsTabs ==
  ASSUME Shapes, [Next]_vars, NEW g \in Tabs, Exists(g), ~tabs[g].auto, tabs'[g] = NoRow
  PROVE  \E r \in Requests : At(r, "delete") /\ doing[r].tab = g
<1>1. tabs' # tabs
  BY DEF Exists
<1>2. ASSUME NEW r \in Requests, RequestStep(r)
      PROVE  At(r, "delete") /\ doing[r].tab = g
  <2>1. CASE NumberTab(r)
    <3>1. Exists(g)'
      <4>1. r \in Actors /\ doing[r] \in ListWork /\ doing[r].order \in Nat
        BY <2>1, KindOfWork DEF NumberTab, At, Actors, ListWork
      <4>2. tabs[g] \in [auto : BOOLEAN, order : Nat]
        BY TabRows
      <4>3. tabs'[g] \in [auto : BOOLEAN, order : Nat]
        BY <2>1, <4>1, <4>2 DEF NumberTab, Shapes, PlaceTypes
      <4> QED BY <4>3 DEF Exists, NoRow
    <3> QED BY <3>1 DEF Exists
  <2>2. CASE InsertTab(r)
    BY <2>2 DEF InsertTab, Shapes, PlaceTypes, Exists
  <2>3. CASE DeleteTab(r)
    BY <2>3 DEF DeleteTab, Without, Exists, Shapes, PlaceTypes
  <2> QED BY <1>1, <1>2, <2>1, <2>2, <2>3 DEF RequestStep, AskCreate, AskMove, AskTab, AskDelete,
             AskReorder, Start, TerminalCreated, Refused, ReadOrder, SetInMemory, AssignInDb,
             ClearRows, ForgetTab, GiveUp, places
<1>3. ASSUME NEW h \in Tabs, Rename(h) PROVE FALSE
  <2>1. Exists(g)'
    <3>1. tabs[h] \in [auto : BOOLEAN, order : Nat] /\ tabs[g] \in [auto : BOOLEAN, order : Nat]
      BY <1>3, TabRows DEF Rename
    <3>2. tabs'[g] \in [auto : BOOLEAN, order : Nat]
      BY <1>3, <3>1 DEF Rename, Shapes, PlaceTypes
    <3> QED BY <3>2 DEF Exists, NoRow
  <2> QED BY <2>1 DEF Exists
<1>4. ASSUME NEW a \in Actors, CountPanes(a) \/ DropIfAuto(a) \/ DropLayout(a), ~UNCHANGED tabs PROVE FALSE
  <2>1. Prunable(doing[a].tab) /\ tabs' = Without(doing[a].tab)
    BY <1>4 DEF CountPanes, DropIfAuto, DropLayout, places
  <2> QED BY <2>1 DEF Prunable, Without, Exists, Shapes, PlaceTypes
<1>5. CASE RestartHub
  BY <1>5, RestartResettles DEF Resettled, Exists
<1>6. CASE (\E t \in Terminals : TerminalDestroyed(t)) \/ MarkDestroyed \/ (\E e \in Editors : EditStep(e))
  BY <1>1, <1>6 DEF TerminalDestroyed, MarkDestroyed, EditStep, Look, CheckLayout, SaveLayout, places
<1> QED BY <1>1, <1>2, <1>3, <1>4, <1>5, <1>6 DEF Next, vars

(* Only a user's own deletion takes away a tab a user opened or renamed.   *)
THEOREM UserTabsStay == Spec => AdoptedStays
<1>1. Shapes /\ [Next]_vars =>
        [\A g \in Tabs : Exists(g) /\ ~tabs[g].auto /\ tabs'[g] = NoRow =>
           \E r \in Requests : At(r, "delete") /\ doing[r].tab = g]_vars
  BY WhoDropsTabs
<1> QED BY <1>1, ShapesHold, PTL DEF Spec, AdoptedStays

-----------------------------------------------------------------------------
(* Layouts.                                                                *)

Revision == {r \in Int : r >= -1}

LayoutType ==
  /\ layouts \in [Tabs -> [saved : BOOLEAN, doc : 0..MaxSaves, rev : Revision, reused : BOOLEAN]]
  /\ editor \in [Editors -> [tab : Tabs, base : Revision, doc : 0..MaxSaves, checked : BOOLEAN]]
  /\ count \in [start : Nat, save : 0..MaxSaves, restart : Nat]

Row(g) ==
  /\ layouts[g].saved => layouts[g].rev >= 0
  /\ ~layouts[g].saved => layouts[g].doc = 0

Base(e) ==
  LET g == editor[e].tab
  IN  /\ editor[e].base = -1 => editor[e].doc = 0
      /\ ~layouts[g].reused =>
           /\ editor[e].base <= layouts[g].rev
           /\ layouts[g].saved /\ layouts[g].rev <= editor[e].base =>
                editor[e].doc = layouts[g].doc

LayoutInv ==
  LayoutType /\ (\A g \in Tabs : Row(g)) /\ (\A e \in Editors : Base(e))

\* What LayoutRegister sees.
Docs == [g \in Tabs |-> layouts[g].doc]
Reused == {g \in Tabs : layouts[g].reused}
Seen == [e \in Editors |-> [tab |-> editor[e].tab, doc |-> editor[e].doc]]

-----------------------------------------------------------------------------
(* The larger of two numbers.                                              *)
LEMMA MaxOfTwo ==
  ASSUME NEW a \in Int, NEW b \in Int
  PROVE  Max({a, b}) \in {a, b} /\ Max({a, b}) >= a /\ Max({a, b}) >= b
<1> DEFINE IsMax(x) == x \in {a, b} /\ \A y \in {a, b} : x >= y
<1>1. \E x : IsMax(x)
  <2>1. CASE a >= b
    <3>1. IsMax(a) BY <2>1
    <3> QED BY <3>1
  <2>2. CASE b >= a
    <3>1. IsMax(b) BY <2>2
    <3> QED BY <3>1
  <2> QED BY <2>1, <2>2
<1>2. Max({a, b}) = CHOOSE x : IsMax(x)
  BY DEF Max
<1> QED BY <1>1, <1>2

(* The revision of a save is past the one of the row it replaces.          *)
LEMMA StampIsLater ==
  ASSUME NEW row, row.rev \in Revision, row.saved => row.rev >= 0, NEW rev \in Stamps(row)
  PROVE  rev \in Nat /\ (row.saved => rev > row.rev)
<1>1. MaxClock \in Nat
  BY BoundsAssumption
<1>2. CASE row.saved
  <2>1. PICK now \in 0..MaxClock : rev = Max({row.rev + 1, now})
    BY <1>2 DEF Stamps
  <2>2. row.rev + 1 \in Int /\ now \in Int
    BY <1>1, <2>1 DEF Revision
  <2>3. rev \in {row.rev + 1, now} /\ rev >= row.rev + 1
    BY <2>1, <2>2, MaxOfTwo
  <2> QED BY <1>2, <2>2, <2>3 DEF Revision
<1>3. CASE ~row.saved
  BY <1>1, <1>3 DEF Stamps
<1> QED BY <1>2, <1>3

(* A save that finds no conflict replaces the layout its editor has seen.  *)
LEMMA NoConflictMeansSeen ==
  ASSUME LayoutInv, NEW e \in Editors,
         ~Conflicts(layouts[editor[e].tab], editor[e].base)
  PROVE  editor[e].doc = layouts[editor[e].tab].doc \/ layouts[editor[e].tab].reused
BY DEF LayoutInv, LayoutType, Row, Base, Conflicts, Revision

-----------------------------------------------------------------------------
LEMMA InitLayoutInv == Init => LayoutInv
<1> SUFFICES ASSUME Init PROVE LayoutInv
  OBVIOUS
<1>1. MaxSaves \in Nat
  BY BoundsAssumption
<1>2. LayoutType
  <2>1. layouts \in [Tabs -> [saved : BOOLEAN, doc : 0..MaxSaves, rev : Revision, reused : BOOLEAN]]
    <3>1. NoLayout \in [saved : BOOLEAN, doc : 0..MaxSaves, rev : Revision, reused : BOOLEAN]
      BY <1>1 DEF NoLayout, Revision
    <3> QED BY <3>1 DEF Init
  <2>2. editor \in [Editors -> [tab : Tabs, base : Revision, doc : 0..MaxSaves, checked : BOOLEAN]]
    <3>1. [tab : Tabs, base : {-1}, doc : {0}, checked : {FALSE}]
            \subseteq [tab : Tabs, base : Revision, doc : 0..MaxSaves, checked : BOOLEAN]
      <4> SUFFICES ASSUME NEW x \in [tab : Tabs, base : {-1}, doc : {0}, checked : {FALSE}]
                   PROVE  x \in [tab : Tabs, base : Revision, doc : 0..MaxSaves,
                                 checked : BOOLEAN]
        OBVIOUS
      <4>1. 0 \in 0..MaxSaves /\ -1 \in Revision
        BY <1>1 DEF Revision
      <4> QED BY <4>1
    <3> QED BY <3>1 DEF Init
  <2> QED BY <1>1, <2>1, <2>2 DEF Init, LayoutType
<1>3. ASSUME NEW g \in Tabs PROVE Row(g)
  BY DEF Init, Row, NoLayout
<1>4. ASSUME NEW e \in Editors PROVE Base(e)
  <2>1. editor[e] \in [tab : Tabs, base : {-1}, doc : {0}, checked : {FALSE}]
    BY DEF Init
  <2> QED BY <2>1 DEF Init, Base, NoLayout
<1> QED BY <1>2, <1>3, <1>4 DEF LayoutInv

(* What a step does to layouts, editors and the count of saves.            *)
Elsewhere == UNCHANGED edits /\ count' \in [start : Nat, save : {count.save}, restart : Nat]

LEMMA StepsOnLayouts ==
  ASSUME LayoutInv, [Next]_vars
  PROVE  \/ Elsewhere
         \/ \E a \in Actors : DropLayout(a)
         \/ \E e \in Editors : EditStep(e)
         \/ RestartHub
<1> USE DEF LayoutInv, LayoutType
<1>1. CASE UNCHANGED vars
  BY <1>1 DEF vars, edits, Elsewhere
<1>2. ASSUME NEW r \in Requests, RequestStep(r) PROVE Elsewhere
  <2>1. ASSUME NEW work, Start(r, work) PROVE Elsewhere
    BY <2>1 DEF Start, Bump, Elsewhere
  <2>2. CASE \E g \in Tabs \union {NoTab} : AskCreate(r, g)
    BY <2>1, <2>2 DEF AskCreate
  <2>3. CASE \E t \in Terminals, g \in Tabs \union {NoTab} : AskMove(r, t, g)
    BY <2>1, <2>3 DEF AskMove
  <2>4. CASE AskTab(r)
    BY <2>1, <2>4 DEF AskTab
  <2>5. CASE \E g \in Tabs : AskDelete(r, g)
    BY <2>1, <2>5 DEF AskDelete
  <2>6. CASE \E list \in Lists \ {<<>>} : AskReorder(r, list)
    BY <2>1, <2>6 DEF AskReorder
  <2>7. CASE UNCHANGED <<edits, count>>
    BY <2>7 DEF Elsewhere
  <2> QED
    BY <1>2, <2>2, <2>3, <2>4, <2>5, <2>6, <2>7 DEF RequestStep, NumberTab,
       TerminalCreated, Refused, ReadOrder, InsertTab, SetInMemory, AssignInDb,
       ClearRows, DeleteTab, ForgetTab, GiveUp, edits
<1>3. CASE \E g \in Tabs : Rename(g)
  BY <1>3 DEF Rename, Elsewhere
<1>4. ASSUME NEW a \in Actors, CountPanes(a) \/ DropIfAuto(a) PROVE Elsewhere
  BY <1>4 DEF CountPanes, DropIfAuto, Elsewhere
<1>5. CASE (\E t \in Terminals : TerminalDestroyed(t)) \/ MarkDestroyed
  BY <1>5 DEF TerminalDestroyed, MarkDestroyed, Elsewhere
<1> QED BY <1>1, <1>2, <1>3, <1>4, <1>5 DEF Next

(* What a save that finds no conflict does.                                *)
Saved(e, rev) ==
  LET g == editor[e].tab
  IN  /\ rev \in Revision /\ rev >= 0 /\ (layouts[g].saved => rev > layouts[g].rev)
      /\ editor[e].doc = layouts[g].doc \/ layouts[g].reused
      /\ count.save + 1 \in 1..MaxSaves
      /\ count' = [count EXCEPT !.save = @ + 1]
      /\ layouts' = [layouts EXCEPT ![g] =
                       [saved |-> TRUE, doc |-> count.save + 1, rev |-> rev,
                        reused |-> layouts[g].reused \/ rev <= layouts[g].rev]]
      /\ editor' \in {[editor EXCEPT ![e].checked = FALSE],
                      [editor EXCEPT ![e].checked = FALSE, ![e].base = rev,
                                     ![e].doc = count.save + 1]}

LEMMA SaveOrConflict ==
  ASSUME LayoutInv, NEW e \in Editors, SaveLayout(e)
  PROVE  \/ \E rev \in Revision : Saved(e, rev)
         \/ UNCHANGED <<layouts, count>> /\ editor' = [editor EXCEPT ![e].checked = FALSE]
<1> DEFINE g == editor[e].tab
<1>1. CASE Conflicts(layouts[g], editor[e].base)
  BY <1>1 DEF SaveLayout
<1>2. CASE ~Conflicts(layouts[g], editor[e].base)
  <2>1. PICK rev \in Stamps(layouts[g]) :
          /\ layouts' = [layouts EXCEPT ![g] =
                           [saved |-> TRUE, doc |-> count.save + 1, rev |-> rev,
                            reused |-> layouts[g].reused \/ rev <= layouts[g].rev]]
          /\ \/ editor' = [editor EXCEPT ![e].checked = FALSE]
             \/ editor' = [[editor EXCEPT ![e].checked = FALSE]
                             EXCEPT ![e].base = rev, ![e].doc = count.save + 1]
    BY <1>2 DEF SaveLayout
  <2>2. layouts[g].rev \in Revision /\ editor \in [Editors -> [tab : Tabs, base : Revision, doc : 0..MaxSaves, checked : BOOLEAN]]
    BY DEF LayoutInv, LayoutType
  <2>3. rev \in Revision /\ rev >= 0 /\ (layouts[g].saved => rev > layouts[g].rev)
    <3>1. layouts[g].saved => layouts[g].rev >= 0
      BY DEF LayoutInv, LayoutType, Row
    <3>2. rev \in Nat /\ (layouts[g].saved => rev > layouts[g].rev)
      BY <2>2, <3>1, StampIsLater
    <3> QED BY <3>2 DEF Revision
  <2>4. count.save + 1 \in 1..MaxSaves
    <3>1. count.save < MaxSaves
      BY <1>2 DEF SaveLayout
    <3> QED BY <3>1, BoundsAssumption DEF LayoutInv, LayoutType
  <2>5. count' = [count EXCEPT !.save = @ + 1]
    BY <1>2 DEF SaveLayout, Bump, LayoutInv, LayoutType
  <2>6. editor[e].doc = layouts[g].doc \/ layouts[g].reused
    BY <1>2, NoConflictMeansSeen
  <2>7. [[editor EXCEPT ![e].checked = FALSE] EXCEPT ![e].base = rev, ![e].doc = count.save + 1]
        = [editor EXCEPT ![e].checked = FALSE, ![e].base = rev, ![e].doc = count.save + 1]
    BY <2>2
  <2> QED BY <2>1, <2>3, <2>4, <2>5, <2>6, <2>7 DEF Saved
<1> QED BY <1>1, <1>2

LEMMA NextLayoutInv == LayoutInv /\ [Next]_vars => LayoutInv'
<1> SUFFICES ASSUME LayoutInv, [Next]_vars PROVE LayoutInv'
  OBVIOUS
<1> USE DEF LayoutInv
<1>1. CASE Elsewhere
  BY <1>1 DEF Elsewhere, edits, LayoutType, Row, Base
<1>2. ASSUME NEW a \in Actors, DropLayout(a) PROVE LayoutInv'
  <2> DEFINE g == doing[a].tab
  <2>1. /\ layouts' = [layouts EXCEPT ![g] = Dropped(layouts[g])]
        /\ UNCHANGED <<editor, count>>
    BY <1>2 DEF DropLayout
  <2>2. LayoutType'
    <3>1. ASSUME NEW h \in Tabs
          PROVE  Dropped(layouts[h])
                   \in [saved : BOOLEAN, doc : 0..MaxSaves, rev : Revision, reused : BOOLEAN]
      <4>1. layouts[h] \in [saved : BOOLEAN, doc : 0..MaxSaves, rev : Revision, reused : BOOLEAN]
        BY DEF LayoutType
      <4>2. 0 \in 0..MaxSaves
        BY BoundsAssumption
      <4> QED BY <4>1, <4>2 DEF Dropped
    <3> QED BY <2>1, <3>1 DEF LayoutType
  <2>3. ASSUME NEW h \in Tabs PROVE Row(h)'
    BY <2>1 DEF LayoutType, Row, Dropped
  <2>4. ASSUME NEW e \in Editors PROVE Base(e)'
    BY <2>1 DEF LayoutType, Base, Dropped
  <2> QED BY <2>2, <2>3, <2>4
<1>3. ASSUME NEW e \in Editors, NEW g \in Tabs, Look(e, g) PROVE LayoutInv'
  <2>1. /\ UNCHANGED <<layouts, count>>
        /\ editor' = [editor EXCEPT ![e] =
                        [tab |-> g, doc |-> layouts[g].doc, checked |-> FALSE,
                         base |-> IF layouts[g].saved THEN layouts[g].rev ELSE -1]]
    BY <1>3, <1>1 DEF Look
  <2>2. -1 \in Revision
    BY DEF Revision
  <2>3. LayoutType'
    BY <2>1, <2>2 DEF LayoutType
  <2>4. ASSUME NEW d \in Editors PROVE Base(d)'
    BY <2>1 DEF LayoutType, Base, Row, Revision
  <2> QED BY <2>1, <2>3, <2>4 DEF Row
<1>4. ASSUME NEW e \in Editors,
             UNCHANGED <<layouts, count>>,
             editor' \in {[editor EXCEPT ![e].checked = c] : c \in BOOLEAN}
      PROVE  LayoutInv'
  <2>1. LayoutType' /\ \A g \in Tabs : Row(g)'
    BY <1>4 DEF LayoutType, Row
  <2>2. ASSUME NEW d \in Editors PROVE Base(d)'
    <3>1. /\ editor'[d].tab = editor[d].tab /\ editor'[d].base = editor[d].base
          /\ editor'[d].doc = editor[d].doc
      BY <1>4 DEF LayoutType
    <3> QED BY <1>4, <3>1 DEF Base
  <2> QED BY <2>1, <2>2
<1>5. ASSUME NEW e \in Editors, NEW rev \in Revision, Saved(e, rev) PROVE LayoutInv'
  <2>1. LayoutType'
    <3>1. count.save + 1 \in 0..MaxSaves
      BY <1>5, BoundsAssumption DEF Saved
    <3>2. count' \in [start : Nat, save : 0..MaxSaves, restart : Nat]
      BY <1>5, <3>1 DEF LayoutType, Saved
    <3>3. layouts' \in [Tabs -> [saved : BOOLEAN, doc : 0..MaxSaves, rev : Revision, reused : BOOLEAN]]
      BY <1>5, <3>1 DEF LayoutType, Saved
    <3>4. editor' \in [Editors -> [tab : Tabs, base : Revision, doc : 0..MaxSaves,
                                  checked : BOOLEAN]]
      <4>1. CASE editor' = [editor EXCEPT ![e].checked = FALSE]
        BY <4>1 DEF LayoutType
      <4>2. CASE editor' = [editor EXCEPT ![e].checked = FALSE, ![e].base = rev,
                                          ![e].doc = count.save + 1]
        BY <3>1, <4>2 DEF LayoutType
      <4> QED BY <1>5, <4>1, <4>2 DEF Saved
    <3> QED BY <3>2, <3>3, <3>4 DEF LayoutType
  <2>2. ASSUME NEW g \in Tabs PROVE Row(g)'
    BY <1>5 DEF LayoutType, Row, Saved, Revision
  <2>3. ASSUME NEW d \in Editors PROVE Base(d)'
    <3>1. \/ editor'[d].tab = editor[d].tab /\ editor'[d].base = editor[d].base
             /\ editor'[d].doc = editor[d].doc
          \/ d = e /\ editor'[d].tab = editor[d].tab /\ editor'[d].base = rev
             /\ editor'[d].doc = count.save + 1
      BY <1>5 DEF LayoutType, Saved
    <3>2. \A h \in Tabs :
            layouts'[h] = IF h = editor[e].tab
                          THEN [saved |-> TRUE, doc |-> count.save + 1, rev |-> rev,
                                reused |-> layouts[h].reused \/ rev <= layouts[h].rev]
                          ELSE layouts[h]
      BY <1>5 DEF LayoutType, Saved
    <3>3. /\ layouts[editor[e].tab].saved => rev > layouts[editor[e].tab].rev
          /\ rev # -1
      BY <1>5 DEF LayoutType, Saved, Revision
    <3>4. /\ editor[d].base \in Revision /\ layouts[editor[d].tab].rev \in Revision
          /\ editor[e].tab \in Tabs /\ editor[d].tab \in Tabs
      BY DEF LayoutType
    <3>5. CASE editor[d].tab # editor[e].tab
      <4>1. layouts'[editor[d].tab] = layouts[editor[d].tab]
        BY <3>2, <3>4, <3>5
      <4>2. /\ editor'[d].tab = editor[d].tab /\ editor'[d].base = editor[d].base
            /\ editor'[d].doc = editor[d].doc
        BY <3>1, <3>5
      <4> QED BY <4>1, <4>2 DEF Base
    <3>6. CASE editor[d].tab = editor[e].tab
      <4> DEFINE h == editor[d].tab
      <4>1. /\ layouts'[h].saved /\ layouts'[h].doc = count.save + 1 /\ layouts'[h].rev = rev
            /\ ~layouts'[h].reused => ~layouts[h].reused /\ rev > layouts[h].rev
        <5>1. layouts'[h] = [saved |-> TRUE, doc |-> count.save + 1, rev |-> rev,
                             reused |-> layouts[h].reused \/ rev <= layouts[h].rev]
          BY <3>2, <3>4, <3>6
        <5>2. layouts[h].rev \in Int /\ rev \in Int
          BY <3>4 DEF Revision
        <5>3. layouts'[h].reused = (layouts[h].reused \/ rev <= layouts[h].rev)
          <6> DEFINE again == layouts[h].reused \/ rev <= layouts[h].rev
          <6>1. layouts'[h] = [saved |-> TRUE, doc |-> count.save + 1, rev |-> rev,
                               reused |-> again]
            BY <5>1
          <6> HIDE DEF again
          <6>2. layouts'[h].reused = again
            BY <6>1
          <6> QED BY <6>2 DEF again
        <5>4. ~layouts'[h].reused => ~layouts[h].reused /\ ~(rev <= layouts[h].rev)
          BY <5>3, Zenon
        <5> QED BY <5>1, <5>2, <5>4
      <4>2. CASE editor'[d].base = editor[d].base /\ editor'[d].doc = editor[d].doc
        BY <3>1, <3>3, <3>4, <3>6, <4>1, <4>2 DEF Base, Revision
      <4>3. CASE editor'[d].base = rev /\ editor'[d].doc = count.save + 1
        BY <3>1, <3>3, <3>4, <3>6, <4>1, <4>3 DEF Base, Revision
      <4> QED BY <3>1, <4>2, <4>3
    <3> QED BY <3>5, <3>6
  <2> QED BY <2>1, <2>2, <2>3
<1>6. CASE RestartHub
  <2>1. /\ UNCHANGED layouts
        /\ editor' = [e \in Editors |-> [editor[e] EXCEPT !.checked = FALSE]]
        /\ count' = [count EXCEPT !.restart = @ + 1]
    BY <1>6 DEF RestartHub, Bump
  <2>2. editor' \in [Editors -> [tab : Tabs, base : Revision, doc : 0..MaxSaves,
                                checked : BOOLEAN]]
    BY <2>1 DEF LayoutType
  <2>3. count' \in [start : Nat, save : 0..MaxSaves, restart : Nat]
    BY <2>1 DEF LayoutType
  <2>4. ASSUME NEW e \in Editors PROVE Base(e)'
    BY <2>1 DEF LayoutType, Base
  <2> QED BY <2>1, <2>2, <2>3, <2>4 DEF LayoutType, Row
<1>7. ASSUME NEW e \in Editors, EditStep(e) PROVE LayoutInv'
  <2>1. CASE CheckLayout(e)
    BY <2>1, <1>4 DEF CheckLayout
  <2>2. CASE SaveLayout(e)
    BY <2>2, <1>4, <1>5, SaveOrConflict
  <2> QED BY <1>3, <1>7, <2>1, <2>2 DEF EditStep
<1> QED BY <1>1, <1>2, <1>6, <1>7, StepsOnLayouts

-----------------------------------------------------------------------------
(* The abstract register's steps.                                          *)
LEMMA RegisterSteps ==
  ASSUME LayoutInv, [Next]_vars
  PROVE  [Register!Next]_<<Docs, Reused, Seen>>
<1> USE DEF LayoutInv, Docs, Reused, Seen
<1>1. CASE Elsewhere
  BY <1>1 DEF Elsewhere, edits
<1>2. ASSUME NEW a \in Actors, DropLayout(a) PROVE [Register!Next]_<<Docs, Reused, Seen>>
  <2> DEFINE g == doing[a].tab
  <2>1. layouts' = [layouts EXCEPT ![g] = Dropped(layouts[g])] /\ UNCHANGED editor
    BY <1>2 DEF DropLayout
  <2>2. CASE g \in Tabs
    <3>1. Docs' = [Docs EXCEPT ![g] = 0]
      BY <2>1, <2>2 DEF LayoutType, Dropped
    <3>2. Reused' = Reused
      BY <2>1, <2>2 DEF LayoutType, Dropped
    <3>3. Register!Drop(g)
      BY <2>1, <3>1, <3>2 DEF Register!Drop
    <3> QED BY <2>2, <3>3 DEF Register!Next, Register!Drop
  <2>3. CASE g \notin Tabs
    BY <2>1, <2>3 DEF LayoutType
  <2> QED BY <2>2, <2>3
<1>3. ASSUME NEW e \in Editors, NEW g \in Tabs, Look(e, g)
      PROVE  Register!Look(e, g)
  BY <1>3 DEF Look, LayoutType, Register!Look
<1>4. ASSUME NEW e \in Editors,
             UNCHANGED layouts,
             editor' \in {[editor EXCEPT ![e].checked = c] : c \in BOOLEAN}
      PROVE  UNCHANGED <<Docs, Reused, Seen>>
  BY <1>4 DEF LayoutType
<1>5. ASSUME NEW e \in Editors, NEW rev \in Revision, Saved(e, rev)
      PROVE  Register!Save(e, count.save + 1)
  <2> DEFINE g == editor[e].tab
  <2>1. Docs' = [Docs EXCEPT ![g] = count.save + 1]
    BY <1>5 DEF LayoutType, Saved
  <2>2. Seen' \in {Seen, [Seen EXCEPT ![e].doc = count.save + 1]}
    <3>1. CASE editor' = [editor EXCEPT ![e].checked = FALSE]
      BY <3>1 DEF LayoutType
    <3>2. CASE editor' = [editor EXCEPT ![e].checked = FALSE, ![e].base = rev,
                                        ![e].doc = count.save + 1]
      <4>1. ASSUME NEW d \in Editors
            PROVE  Seen'[d] = [Seen EXCEPT ![e].doc = count.save + 1][d]
        BY <3>2 DEF LayoutType
      <4> QED BY <4>1
    <3> QED BY <1>5, <3>1, <3>2 DEF Saved
  <2>3. Seen[e].tab = g /\ (Seen[e].doc = Docs[g] \/ g \in Reused)
    BY <1>5 DEF Saved, LayoutType
  <2>4. Reused' = Reused \/ (Docs[g] = 0 /\ Reused' = Reused \union {g})
    <3>1. g \in Tabs /\ (~layouts[g].saved => layouts[g].doc = 0)
      BY DEF LayoutType, Row
    <3>2. CASE layouts[g].saved
      BY <1>5, <3>1, <3>2 DEF Saved, LayoutType, Revision
    <3>3. CASE ~layouts[g].saved
      BY <1>5, <3>1, <3>3 DEF Saved, LayoutType
    <3> QED BY <3>2, <3>3
  <2> QED BY <2>1, <2>2, <2>3, <2>4 DEF Register!Save
<1>6. CASE RestartHub
  BY <1>6 DEF RestartHub, LayoutType
<1>7. ASSUME NEW e \in Editors, EditStep(e) PROVE [Register!Next]_<<Docs, Reused, Seen>>
  <2>1. CASE \E g \in Tabs : Look(e, g)
    BY <1>3, <2>1 DEF Register!Next
  <2>2. CASE CheckLayout(e)
    BY <1>4, <2>2 DEF CheckLayout
  <2>3. CASE SaveLayout(e)
    <3>1. CASE \E rev \in Revision : Saved(e, rev)
      <4>1. PICK rev \in Revision : Saved(e, rev)
        BY <3>1
      <4>2. Register!Save(e, count.save + 1) /\ count.save + 1 \in 1..MaxSaves
        BY <1>5, <4>1 DEF Saved
      <4> QED BY <4>2 DEF Register!Next, Register!Save
    <3> QED BY <1>4, <2>3, <3>1, SaveOrConflict
  <2> QED BY <1>7, <2>1, <2>2, <2>3 DEF EditStep
<1> QED BY <1>1, <1>2, <1>6, <1>7, StepsOnLayouts

(* Revisions tell layouts apart in a tab whose layouts never came back     *)
(* under an old one: an editor whose base is not older than the tab's      *)
(* revision shows that layout, after saves, tabs that go and a clock set   *)
(* back.                                                                   *)
THEOREM RevisionsTellApart == Spec => []LayoutInv
  BY InitLayoutInv, NextLayoutInv, PTL DEF Spec

(* No save overwrites a layout its editor has not seen, for any number of  *)
(* browsers, tabs and saves, except where a layout was dropped and made    *)
(* again under a revision not past the dropped one's.                      *)
THEOREM SavesBuildOnSeen == Spec => EditsBuildOn
<1>1. Init => Register!Init
  <2> SUFFICES ASSUME Init PROVE Register!Init
    OBVIOUS
  <2>1. ASSUME NEW e \in Editors PROVE Seen[e] \in [tab : Tabs, doc : {0}]
    <3>1. editor[e] \in [tab : Tabs, base : {-1}, doc : {0}, checked : {FALSE}]
      BY DEF Init
    <3> QED BY <3>1 DEF Seen
  <2>2. Docs = [g \in Tabs |-> 0] /\ Reused = {}
    BY DEF Init, NoLayout, Docs, Reused
  <2> QED BY <2>1, <2>2 DEF Register!Init, Docs, Reused, Seen
<1>2. LayoutInv /\ [Next]_vars => [Register!Next]_<<Docs, Reused, Seen>>
  BY RegisterSteps
<1> QED BY <1>1, <1>2, RevisionsTellApart, PTL
        DEF Spec, EditsBuildOn, Register!Spec, Docs, Reused, Seen

-----------------------------------------------------------------------------
(* The rest of the types.                                                  *)

Tallies ==
  /\ odd \subseteq Tabs \union Terminals
  /\ mixed \in BOOLEAN
  /\ count \in [start : 0..MaxStarts, save : 0..MaxSaves, restart : 0..MaxRestarts]

LEMMA OddTyped ==
  ASSUME Shapes, Tallies, [Next]_vars
  PROVE  odd' \subseteq Tabs \union Terminals
<1>1. ASSUME NEW r \in Requests, SetInMemory(r) PROVE odd' \subseteq Tabs \union Terminals
  <2>1. /\ r \in Actors /\ doing[r] \in TermWork /\ doing[r].at = "placed"
        /\ doing[r].term \in Terminals
    BY <1>1, KindOfWork DEF SetInMemory, At, TermSteps, Steps, Actors, Shapes, Shape, Spawned
  <2>2. doing[r].kind = "fresh" => doing[r].tab \in Tabs
    BY <2>1 DEF Shapes, Shape
  <2>3. CASE live[doing[r].term] = Gone
    BY <1>1, <2>2, <2>3 DEF SetInMemory, Tallies
  <2>4. CASE live[doing[r].term] # Gone
    <3>1. live[doing[r].term] \in Names /\ doing[r].tab \in Names /\ rows[doing[r].term].tab \in Names
      BY <2>1, <2>4 DEF Shapes, PlaceTypes, TermWork
    <3>2. \A q \in Rivals(r) : doing[q].tab \in Names /\ doing[q].prev \in Names
      <4>1. \A q \in Rivals(r) : doing[q] \in TermWork
        BY KindOfWork DEF Rivals, At, TermSteps, Steps, Actors
      <4> QED BY <4>1 DEF TermWork
    <3>3. Spoilt(r) \subseteq Names \union Terminals
      BY <2>1, <3>1, <3>2 DEF Spoilt
    <3>4. odd' = odd \union (Spoilt(r) \ {NoTab})
      BY <1>1, <2>4 DEF SetInMemory
    <3> QED BY <3>3, <3>4 DEF Tallies, Names
  <2> QED BY <2>3, <2>4
<1>2. ASSUME NEW r \in Requests, AssignInDb(r) PROVE odd' \subseteq Tabs \union Terminals
  <2>1. doing[r].term \in Terminals
    BY <1>2 DEF AssignInDb, At, Actors, Shapes, Shape, Spawned
  <2>2. rows[doing[r].term].tab \in Names
    BY <2>1 DEF Shapes, PlaceTypes
  <2> QED BY <1>2, <2>1, <2>2 DEF AssignInDb, Tallies, Names
<1>3. ASSUME NEW r \in Requests, GiveUp(r) PROVE odd' \subseteq Tabs \union Terminals
  <2>1. At(r, "placed") /\ doing[r].kind = "fresh" => doing[r].tab \in Tabs
    BY DEF Shapes, Shape, At, Actors
  <2> QED BY <1>3, <2>1 DEF GiveUp, Panes, Tallies
<1>4. CASE odd' = odd
  BY <1>4 DEF Tallies
<1>5. ASSUME NEW r \in Requests, RequestStep(r) PROVE odd' \subseteq Tabs \union Terminals
  BY <1>1, <1>2, <1>3, <1>4, <1>5 DEF RequestStep, AskCreate, AskMove, AskTab, AskDelete,
     AskReorder, Start, NumberTab, TerminalCreated, Refused, ReadOrder, InsertTab, ClearRows,
     DeleteTab, ForgetTab
<1>6. ASSUME NEW a \in Actors, CountPanes(a) \/ DropIfAuto(a) \/ DropLayout(a)
      PROVE  odd' \subseteq Tabs \union Terminals
  BY <1>6 DEF CountPanes, DropIfAuto, DropLayout, ActiveIn, Tallies
<1>7. ASSUME NEW e \in Editors, EditStep(e) PROVE odd' = odd
  BY <1>7 DEF EditStep, Look, CheckLayout, SaveLayout
<1> QED BY <1>4, <1>5, <1>6, <1>7 DEF Next, vars, Rename, TerminalDestroyed, MarkDestroyed, RestartHub

LEMMA CountTyped ==
  ASSUME Tallies, [Next]_vars
  PROVE  /\ mixed' \in BOOLEAN
         /\ count' \in [start : 0..MaxStarts, save : 0..MaxSaves, restart : 0..MaxRestarts]
<1> USE DEF Tallies
<1>1. ASSUME NEW r \in Requests, NEW work, Start(r, work)
      PROVE  count' \in [start : 0..MaxStarts, save : 0..MaxSaves, restart : 0..MaxRestarts]
  BY <1>1, BoundsAssumption DEF Start, Bump
<1>2. ASSUME NEW r \in Requests, RequestStep(r)
      PROVE  /\ mixed' \in BOOLEAN
             /\ count' \in [start : 0..MaxStarts, save : 0..MaxSaves, restart : 0..MaxRestarts]
  <2>1. CASE \E g \in Tabs \union {NoTab} : AskCreate(r, g)
    BY <1>1, <2>1 DEF AskCreate
  <2>2. CASE \E t \in Terminals, g \in Tabs \union {NoTab} : AskMove(r, t, g)
    BY <1>1, <2>2 DEF AskMove
  <2>3. CASE AskTab(r)
    BY <1>1, <2>3 DEF AskTab
  <2>4. CASE \E g \in Tabs : AskDelete(r, g)
    BY <1>1, <2>4 DEF AskDelete
  <2>5. CASE \E list \in Lists \ {<<>>} : AskReorder(r, list)
    <3>1. PICK list \in Lists \ {<<>>} : AskReorder(r, list)
      BY <2>5
    <3>2. mixed' \in BOOLEAN
      BY <3>1, Zenon DEF AskReorder
    <3> QED BY <1>1, <3>1, <3>2 DEF AskReorder
  <2>6. CASE ReadOrder(r)
    <3>1. mixed' \in BOOLEAN
      BY <2>6, Zenon DEF ReadOrder
    <3> QED BY <2>6, <3>1 DEF ReadOrder
  <2> QED BY <1>2, <2>1, <2>2, <2>3, <2>4, <2>5, <2>6 DEF RequestStep, NumberTab, TerminalCreated,
         Refused, InsertTab, SetInMemory, AssignInDb, ClearRows, DeleteTab, ForgetTab, GiveUp
<1>3. CASE \E a \in Actors : CountPanes(a) \/ DropIfAuto(a) \/ DropLayout(a)
  BY <1>3 DEF CountPanes, DropIfAuto, DropLayout
<1>4. ASSUME NEW e \in Editors, EditStep(e)
      PROVE  /\ mixed' \in BOOLEAN
             /\ count' \in [start : 0..MaxStarts, save : 0..MaxSaves, restart : 0..MaxRestarts]
  <2>1. CASE UNCHANGED <<mixed, count>>
    BY <2>1
  <2>2. CASE UNCHANGED mixed /\ count.save < MaxSaves /\ Bump("save")
    BY <2>2, BoundsAssumption DEF Bump
  <2> QED BY <1>4, <2>1, <2>2 DEF EditStep, Look, CheckLayout, SaveLayout
<1>5. CASE RestartHub
  <2>1. mixed' \in BOOLEAN
    BY <1>5, Zenon DEF RestartHub
  <2>2. count' \in [start : 0..MaxStarts, save : 0..MaxSaves, restart : 0..MaxRestarts]
    <3>1. count.restart < MaxRestarts /\ Bump("restart")
      BY <1>5 DEF RestartHub
    <3> QED BY <3>1, BoundsAssumption DEF Bump
  <2> QED BY <2>1, <2>2
<1> QED BY <1>2, <1>3, <1>4, <1>5 DEF Next, vars, Rename, TerminalDestroyed, MarkDestroyed

(* Every variable stays in its type.                                       *)
THEOREM TypeCorrect == Spec => []TypeOK
<1>1. Init => Tallies
  <2> SUFFICES ASSUME Init PROVE Tallies
    OBVIOUS
  <2>1. odd \subseteq Tabs \union Terminals
    BY DEF Init
  <2>2. mixed \in BOOLEAN
    BY DEF Init
  <2>3. count \in [start : 0..MaxStarts, save : 0..MaxSaves, restart : 0..MaxRestarts]
    BY BoundsAssumption DEF Init
  <2> QED BY <2>1, <2>2, <2>3 DEF Tallies
<1>2. Shapes /\ Tallies /\ [Next]_vars => Tallies'
  BY OddTyped, CountTyped DEF Tallies
<1>3. Shapes /\ LayoutInv /\ Tallies => TypeOK
  <2> SUFFICES ASSUME Shapes, LayoutInv, Tallies PROVE TypeOK
    OBVIOUS
  <2>1. doing \in [Actors -> Work]
    <3>1. Doings \subseteq Work
      BY DEF Doings, Work, TermWork, OrderWork, ListWork, TermSteps, Names
    <3> QED BY <3>1 DEF Shapes
  <2>2. rows \in [Terminals -> [state : {"none", "active", "destroyed"},
                                tab : {NoTab} \union {g \in Tabs : Exists(g)}]]
    BY DEF Shapes, PlaceTypes, Exists
  <2>3. live \in [Terminals -> Tabs \union {NoTab, Gone}]
    <3>1. Names \union {Gone} = Tabs \union {NoTab, Gone}
      BY DEF Names
    <3> QED BY <3>1 DEF Shapes, PlaceTypes
  <2>4. Revision \subseteq Int
    BY DEF Revision
  <2>5. /\ layouts \in [Tabs -> [saved : BOOLEAN, doc : 0..MaxSaves, rev : Int, reused : BOOLEAN]]
        /\ editor \in [Editors -> [tab : Tabs, base : Int, doc : 0..MaxSaves, checked : BOOLEAN]]
    BY <2>4 DEF LayoutInv, LayoutType
  <2>6. tabs \in [Tabs -> {NoRow} \union [auto : BOOLEAN, order : Nat]]
        /\ born \subseteq Tabs /\ {g \in Tabs : Exists(g)} \subseteq born
    BY DEF Shapes, PlaceTypes
  <2> QED BY <2>1, <2>2, <2>3, <2>5, <2>6 DEF TypeOK, Tallies
<1> QED BY <1>1, <1>2, <1>3, ShapesHold, RevisionsTellApart, PTL DEF Spec
=============================================================================
