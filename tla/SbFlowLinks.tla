----------------------------- MODULE SbFlowLinks -----------------------------
(***************************************************************************)
(* What the desired flow table promises its caller, without the tables   *)
(* that implement it: every desired flow has a set of SB rows (sources)  *)
(* that produced it, a flow exists exactly while that set is not empty,  *)
(* removing a source takes it out of every set (spec P2), and a flood     *)
(* removes every flow touched by the sources that share a flow with the  *)
(* seeds, transitively, and hands that set of sources back to the caller *)
(* for recomputation (spec P3).  DesiredFlowTable implements it.           *)
(***************************************************************************)
EXTENDS FiniteSets

CONSTANTS
    Uuids,      \* SB row uuids
    Flows       \* desired flow identities

VARIABLES
    src,        \* Flows -> SUBSET Uuids; {} means the flow does not exist
    nodes       \* the sources the last flood asked the caller to recompute

vars == <<src, nodes>>

Live == {f \in Flows : src[f] # {}}

\* The sources that share a flow with one of S, transitively.
RECURSIVE Closure(_)
Closure(S) ==
    LET T == S \cup UNION {src[f] : f \in {g \in Live : src[g] \cap S # {}}}
    IN IF T = S THEN S ELSE Closure(T)

Init ==
    /\ src \in [Flows -> SUBSET Uuids]
    /\ nodes = {}

\* A source adds a new flow, or joins an existing one.
Link(u, f) ==
    /\ src' = [src EXCEPT ![f] = @ \cup {u}]
    /\ UNCHANGED nodes

\* A source is removed: flows it alone produced disappear.
Unlink(u) ==
    /\ src' = [f \in Flows |-> src[f] \ {u}]
    /\ UNCHANGED nodes

\* A flood from the seeds S.
Flood(S) ==
    LET C == Closure(S)
    IN /\ src' = [f \in Flows |-> IF src[f] \cap C = {} THEN src[f] ELSE {}]
       /\ nodes' = C

Clear ==
    /\ src' = [f \in Flows |-> {}]
    /\ UNCHANGED nodes

Next ==
    \/ \E u \in Uuids, f \in Flows : Link(u, f)
    \/ \E u \in Uuids : Unlink(u)
    \/ \E S \in SUBSET Uuids : S # {} /\ Flood(S)
    \/ Clear

Spec == Init /\ [][Next]_vars

====
