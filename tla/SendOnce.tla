------------------------------- MODULE SendOnce -------------------------------
(***************************************************************************)
(* What the local editor promises about one draft: it is typed into the    *)
(* terminal at most once, whatever ids it is sent and checked under, and   *)
(* it is cleared as delivered only after that                              *)
(* (packages/app/components/LocalTerminalComposer.tsx).                    *)
(***************************************************************************)
EXTENDS Naturals

CONSTANT Ids

VARIABLES typed, draft

Nowhere == \A m \in Ids : typed[m] = 0

Type(m) ==
  /\ Nowhere
  /\ typed' = [typed EXCEPT ![m] = 1]
  /\ UNCHANGED draft

Clear == draft = "open" /\ ~Nowhere /\ draft' = "delivered" /\ UNCHANGED typed
Discard == draft = "open" /\ draft' = "discarded" /\ UNCHANGED typed

Init == typed = [m \in Ids |-> 0] /\ draft = "open"
Next == (\E m \in Ids : Type(m)) \/ Clear \/ Discard
Spec == Init /\ [][Next]_<<typed, draft>>
=============================================================================
