------------------------- MODULE MCDesiredFlowTable -------------------------
(* Model-checking instances of DesiredFlowTable.                          *)
EXTENDS DesiredFlowTable, TLC

CONSTANTS u1, u2, u3, u4, u5, u6, u7, u8, d1, d2, d3, k1, k2, a1

\* Three rows, three flows, two keys: enough for a flow shared by two
\* rows, a row owning two flows, and a chain u1 - u2 - u3 for the flood.
MCUuids == {u1, u2, u3}
MCDIds == {d1, d2, d3}
MCKeys == {k1, k2}
MCActs == {a1}
\* Distinct buckets once the flood hmap has four.
MCHash == [u \in MCUuids |-> CASE u = u1 -> 0 [] u = u2 -> 1 [] u = u3 -> 2]
NoFlows == [d \in MCDIds |-> Nil]

(* A table the calls can build: flow d1 of key k1, added by u1 and then   *)
(* appended to by u3 .. u8 (ofctrl_add_or_append_flow()), and flow d2 of  *)
(* key k2, added by u2.  Flooding {u1, u2}: the first iteration inserts   *)
(* six uuids, the eighth insertion grows the mask from 3 to 7, and u2's   *)
(* bucket (1) now lies before u1's (4).                                    *)
ChainUuids == {u1, u2, u3, u4, u5, u6, u7, u8}
ChainDIds == {d1, d2}
ChainKeys == {k1, k2}
ChainHash == [u \in ChainUuids |->
                 CASE u = u1 -> 4 [] u = u2 -> 1 [] u = u3 -> 2 [] u = u4 -> 3
                   [] u = u5 -> 5 [] u = u6 -> 6 [] u = u7 -> 7 [] u = u8 -> 0]
ChainFlows ==
    [d \in ChainDIds |->
        IF d = d1
        THEN [key |-> k1, acts |-> <<a1, a1, a1, a1, a1, a1, a1>>,
              refs |-> <<u1, u3, u4, u5, u6, u7, u8>>]
        ELSE [key |-> k2, acts |-> <<a1>>, refs |-> <<u2>>]]
====
