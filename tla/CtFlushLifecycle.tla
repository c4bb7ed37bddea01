--------------------------- MODULE CtFlushLifecycle ---------------------------
(***************************************************************************)
(* What ovn-controller's conntrack-zone flushes promise, without messages, *)
(* xids or barriers (spec 4.7).  The caller asks for a zone to be flushed; *)
(* the switch flushes it; only then may the zone be reported done, and     *)
(* the caller then commits it and may ask again.  Ofctrl implements it:   *)
(* OF_QUEUED and OF_SENT are both "asked", and a reconnect that rewinds    *)
(* OF_SENT to OF_QUEUED is invisible here.                                 *)
(***************************************************************************)
CONSTANT Zones

VARIABLES
    zone,       \* Zones -> "idle", "asked" or "done"
    flushed     \* Zones -> BOOLEAN: the switch flushed it since it was asked

vars == <<zone, flushed>>

Init ==
    /\ zone = [z \in Zones |-> "idle"]
    /\ flushed \in [Zones -> BOOLEAN]

\* The caller queues a flush of an idle zone.
Ask(z) ==
    /\ zone[z] = "idle"
    /\ zone' = [zone EXCEPT ![z] = "asked"]
    /\ flushed' = [flushed EXCEPT ![z] = FALSE]

\* The switch flushes a zone that was asked for.
Flush(z) ==
    /\ zone[z] = "asked"
    /\ flushed' = [flushed EXCEPT ![z] = TRUE]
    /\ UNCHANGED zone

\* A flush is reported done only once the switch did it.
Confirm(z) ==
    /\ zone[z] = "asked" /\ flushed[z]
    /\ zone' = [zone EXCEPT ![z] = "done"]
    /\ UNCHANGED flushed

\* The caller commits a done zone.
Commit(z) ==
    /\ zone[z] = "done"
    /\ zone' = [zone EXCEPT ![z] = "idle"]
    /\ UNCHANGED flushed

Next == \E z \in Zones : Ask(z) \/ Flush(z) \/ Confirm(z) \/ Commit(z)

Spec == Init /\ [][Next]_vars

====
