----------------------------- MODULE DesiredFlows -----------------------------
(***************************************************************************)
(* The desired flow table as ofctrl_put() reads it: each desired flow has  *)
(* a key and a list of actions, and nothing else.  Its steps are the ones  *)
(* Ofctrl's environment takes on the table: a new flow with one action     *)
(* (AddFlow), one action appended to a flow (AppendFlow), and flows that   *)
(* disappear (RemoveFlow, one at a time there; a flood or a clear drops    *)
(* several in one call, and ofctrl_put() runs only between calls).         *)
(* DesiredFlowTable implements it, which is what lets Ofctrl use the       *)
(* projection instead of the table.                                        *)
(***************************************************************************)
EXTENDS Sequences

CONSTANTS
    Flows,      \* desired flow identities
    Keys,       \* flow keys
    Acts,       \* action atoms
    Nil

VARIABLE
    flows       \* Flows -> [key, acts] or Nil

Init == flows \in [Flows -> [key : Keys, acts : Seq(Acts)] \cup {Nil}]

\* A flow is created with the actions of one add.
New(f, k, a) ==
    /\ flows[f] = Nil
    /\ flows' = [flows EXCEPT ![f] = [key |-> k, acts |-> <<a>>]]

\* The actions of one add are appended after the flow's own; its key stays.
Extend(f, a) ==
    /\ flows[f] # Nil
    /\ flows' = [flows EXCEPT ![f].acts = Append(@, a)]

\* Some flows disappear; the others are untouched.
Drop(S) ==
    /\ S # {} /\ \A f \in S : flows[f] # Nil
    /\ flows' = [f \in Flows |-> IF f \in S THEN Nil ELSE flows[f]]

Next ==
    \/ \E f \in Flows, k \in Keys, a \in Acts : New(f, k, a) \/ Extend(f, a)
    \/ \E S \in SUBSET Flows : Drop(S)

Spec == Init /\ [][Next]_flows

====
