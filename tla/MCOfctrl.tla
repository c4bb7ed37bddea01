------------------------------ MODULE MCOfctrl ------------------------------
(* Model-checking instance of Ofctrl: the sets of keys, desired-flow ids,  *)
(* actions, cookies, zones, groups and meters are model values given in   *)
(* the .cfg files.                                                         *)
EXTENDS Ofctrl, TLC

CONSTANTS k1, k2, d1, d2, a1, a2, c1, c2, z1, g1, m1

\* Two flows with one key, so duplicates and primaries occur.
MCKeys == {k1}
MCDIds == {d1, d2}
MCActs == {a1}
MCCookies == {c1, c2}
MCZones == {z1}

\* One group and one SB-named meter, both used by the action a1, so a flow
\* with actions <<a1>> needs them and a flow with no actions does not.
MCGroups == {g1}
MCMeters == {m1}
MCUses == [a \in MCActs |-> {g1, m1}]
\* The group alone, for the larger safety run, and the meter alone.
MCGroupUses == [a \in MCActs |-> {g1}]
MCMeterUses == [a \in MCActs |-> {m1}]

\* Keys and zones for the negotiation runs, where flows play no part, and
\* the empty extend tables of the runs about flows alone.
NoKeys == {}
NoZones == {}
NoExt == {}
NoUses == [a \in MCActs |-> {}]

\* At most one message outside the negotiation per behaviour: an echo
\* request from the switch or a packet injected by the caller.
OneProbe == budget.echoes + budget.injects <= 1
====
