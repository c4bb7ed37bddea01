-------------------------- MODULE DesiredFlowTable --------------------------
(***************************************************************************)
(* The desired flow table of ovn-controller (src/controller/ofctrl.c): the *)
(* desired flows, indexed by key (match_flow_table), and the M:N links     *)
(* between them and the SB rows that produced them (uuid_flow_table of     *)
(* struct sb_to_flow, each desired flow's list of struct sb_flow_ref).     *)
(* The operations are the flow-table interface of ofctrl.c: add, add or    *)
(* append, remove by sb_uuid, flood remove and clear.  Each runs to        *)
(* completion in the single ovn-controller thread, so each is one action.  *)
(*                                                                         *)
(* Flood remove iterates over the caller's flood_remove_nodes hmap while   *)
(* its recursion inserts into it.  The hmap is modelled as OVS lib/hmap.c  *)
(* lays it out (that library is not part of this repository): buckets      *)
(* indexed by hash & mask, insertion at the head of a bucket, expansion    *)
(* when n / 2 > mask, rehash bucket by bucket, and iteration that resumes  *)
(* from the current node's bucket under the current mask.                  *)
(***************************************************************************)
EXTENDS Integers, Sequences, SequencesExt, FiniteSets

CONSTANTS
    Uuids,      \* SB row uuids (sb_uuid)
    DIds,       \* identities of struct desired_flow records
    Keys,       \* flow keys (table_id, priority, match)
    Acts,       \* action atoms; a flow's ofpacts is a sequence of them
    Nil,        \* model value: no flow, no sb_to_flow, no node
    Hash,       \* uuid_hash() of each uuid, as far as the hmap reads it
    InitFlows,  \* the desired flows the run starts from
    MaxActsLen, \* bound on the length of a flow's action list
    MaxAdds,    \* bound on add calls
    AppendMayRepeatSource \* add_or_append may be called again for a
                          \* (key, sb_uuid) pair it already linked

ASSUME /\ Hash \in [Uuids -> Nat]
       /\ {MaxActsLen, MaxAdds} \subseteq Nat
       /\ AppendMayRepeatSource \in BOOLEAN

VARIABLES
    flows,      \* DIds -> [key, acts, refs] \cup {Nil}; refs is the list of
                \* sb_flow_refs of the flow (desired_flow.references)
    stf,        \* Uuids -> Seq(DIds) \cup {Nil}: the flows list of each
                \* sb_to_flow, Nil when the uuid has no sb_to_flow
    floodNodes, \* the caller's flood_remove_nodes after the last flood
    aborted,    \* an ovs_assert() failed and the process aborted
    adds        \* add calls made so far

vars == <<flows, stf, floodNodes, aborted, adds>>

Count(s, e) == Cardinality({i \in 1 .. Len(s) : s[i] = e})

\* The sb_to_flow lists of a table built by adding each flow in turn.
StfOf(fl) ==
    [u \in Uuids |->
        LET ds == {d \in DIds : fl[d] # Nil /\ Contains(fl[d].refs, u)}
        IN IF ds = {} THEN Nil ELSE SetToSeq(ds)]

Init ==
    /\ flows = InitFlows
    /\ stf = StfOf(InitFlows)
    /\ floodNodes = {}
    /\ aborted = FALSE
    /\ adds = 0

Table == [flows |-> flows, stf |-> stf]
FreeDIds == {d \in DIds : flows[d] = Nil}
WithKey(k) == {d \in DIds : flows[d] # Nil /\ flows[d].key = k}

-----------------------------------------------------------------------------
(* Table operations                                                        *)

\* Mutant: the list insert is done only for a new sb_to_flow.
LinkFlowToSbNewOnly(t, d, u) ==
    [t EXCEPT !.flows[d].refs = Append(@, u),
              !.stf[u] = IF @ = Nil THEN <<d>> ELSE @]

\* Mutant: the flow is recorded in its own references.
LinkFlowToSbSwapped(t, d, u) ==
    [t EXCEPT !.flows[d].refs = Append(@, d),
              !.stf[u] = IF @ = Nil THEN <<d>> ELSE Append(@, d)]

\* link_flow_to_sb(): a new sb_flow_ref at the tail of the flow's
\* references and of the uuid's sb_to_flow, created if missing.
LinkFlowToSb(t, d, u) ==
    [t EXCEPT !.flows[d].refs = Append(@, u),
              !.stf[u] = IF @ = Nil THEN <<d>> ELSE Append(@, d)]

\* desired_flow_alloc() and hmap_insert() into match_flow_table.
NewFlow(t, d, k, a) ==
    [t EXCEPT !.flows[d] = [key |-> k, acts |-> <<a>>, refs |-> <<>>]]

SetTable(t) == flows' = t.flows /\ stf' = t.stf

\* remove_flows_from_sb_to_flow(): drop each of the uuid's references; a
\* flow left without references is destroyed; the sb_to_flow goes.
RemoveFromSbToFlow(t, u) ==
    LET Unref(acc, d) ==
          LET refs == RemoveFirst(acc.flows[d].refs, u)
          IN IF refs = <<>> THEN [acc EXCEPT !.flows[d] = Nil]
             ELSE [acc EXCEPT !.flows[d].refs = refs]
    IN [FoldLeft(Unref, t, t.stf[u]) EXCEPT !.stf[u] = Nil]

\* ofctrl_check_and_add_flow(): dropped if a flow with the key already
\* lists the uuid; otherwise a new desired flow, even if another uuid's
\* flow has the same key.
CheckAndAddFlow(u, k, a) ==
    /\ ~aborted /\ adds < MaxAdds
    /\ \/ /\ \E d \in WithKey(k) : Contains(flows[d].refs, u)
          /\ UNCHANGED <<flows, stf>>
       \/ /\ \A d \in WithKey(k) : ~Contains(flows[d].refs, u)
          /\ FreeDIds # {}
          /\ LET d == CHOOSE x \in FreeDIds : TRUE
             IN SetTable(LinkFlowToSb(NewFlow(Table, d, k, a), d, u))
    /\ adds' = adds + 1
    /\ UNCHANGED <<floodNodes, aborted>>

\* Mutant: `f = existing` is lost after the append, so the new flow record,
\* not the existing one, is linked to the uuid (and kept).
AddOrAppendFlowKeepsNew(u, k, a) ==
    /\ ~aborted /\ adds < MaxAdds
    /\ \/ /\ WithKey(k) = {} /\ FreeDIds # {}
          /\ LET d == CHOOSE x \in FreeDIds : TRUE
             IN SetTable(LinkFlowToSb(NewFlow(Table, d, k, a), d, u))
       \/ \E e \in WithKey(k) :
          /\ Len(flows[e].acts) < MaxActsLen /\ FreeDIds # {}
          /\ AppendMayRepeatSource \/ ~Contains(flows[e].refs, u)
          /\ LET d == CHOOSE x \in FreeDIds : TRUE
             IN SetTable(LinkFlowToSb(
                   NewFlow([Table EXCEPT !.flows[e].acts = Append(@, a)], d, k, a),
                   d, u))
    /\ adds' = adds + 1
    /\ UNCHANGED <<floodNodes, aborted>>

\* ofctrl_add_or_append_flow(): the actions are appended to the flow that
\* desired_flow_lookup() finds (the head of the key's bucket chain, so any
\* flow with the key), which is linked to the uuid once more.
AddOrAppendFlow(u, k, a) ==
    /\ ~aborted /\ adds < MaxAdds
    /\ \/ /\ WithKey(k) = {} /\ FreeDIds # {}
          /\ LET d == CHOOSE x \in FreeDIds : TRUE
             IN SetTable(LinkFlowToSb(NewFlow(Table, d, k, a), d, u))
       \/ \E e \in WithKey(k) :
          /\ Len(flows[e].acts) < MaxActsLen
          /\ AppendMayRepeatSource \/ ~Contains(flows[e].refs, u)
          /\ SetTable(LinkFlowToSb([Table EXCEPT !.flows[e].acts = Append(@, a)],
                                   e, u))
    /\ adds' = adds + 1
    /\ UNCHANGED <<floodNodes, aborted>>

\* ofctrl_remove_flows(): nothing to do for a uuid without sb_to_flow.
RemoveFlows(u) ==
    /\ ~aborted /\ stf[u] # Nil
    /\ SetTable(RemoveFromSbToFlow(Table, u))
    /\ UNCHANGED <<floodNodes, aborted, adds>>

\* ovn_desired_flow_table_clear(): every sb_to_flow, in hmap order.
ClearTable ==
    /\ ~aborted /\ \E u \in Uuids : stf[u] # Nil
    /\ \E order \in SetToSeqs({u \in Uuids : stf[u] # Nil}) :
          SetTable(FoldLeft(RemoveFromSbToFlow, Table, order))
    /\ UNCHANGED <<floodNodes, aborted, adds>>

-----------------------------------------------------------------------------
(* The flood_remove_nodes hmap (lib/hmap.c)                                *)

EmptyHmap == [mask |-> 0, n |-> 0, bk |-> [b \in {0} |-> <<>>]]
HmapNodes(h) == UNION {ToSet(h.bk[b]) : b \in DOMAIN h.bk}
Bucket(h, u) == Hash[u] % (h.mask + 1)

\* hmap_insert_fast(): at the head of the node's bucket.
HeadInsert(h, u) == [h EXCEPT !.bk[Bucket(h, u)] = <<u>> \o @]

\* calc_mask(): the least 2^i - 1 covering n / 2, and at least 3 once
\* buckets are allocated.
CalcMask(n) ==
    LET m == Min({x \in {2^i - 1 : i \in 0 .. 8} : x >= n \div 2})
    IN IF m = 1 THEN 3 ELSE m

\* resize(): the nodes are reinserted bucket by bucket, each chain from
\* its head.
Resize(h, m) ==
    FoldLeft(HeadInsert, [mask |-> m, n |-> h.n, bk |-> [b \in 0 .. m |-> <<>>]],
             FlattenSeq([b \in 1 .. h.mask + 1 |-> h.bk[b - 1]]))

\* hmap_insert(), expanding when n / 2 > mask.
HmapInsert(h, u) ==
    LET h1 == [HeadInsert(h, u) EXCEPT !.n = @ + 1]
    IN IF h1.n \div 2 > h1.mask /\ CalcMask(h1.n) > h1.mask
       THEN Resize(h1, CalcMask(h1.n)) ELSE h1

\* The first node in buckets b .. mask.
HmapFirstFrom(h, b) ==
    LET bs == {i \in b .. h.mask : h.bk[i] # <<>>}
    IN IF bs = {} THEN Nil ELSE Head(h.bk[Min(bs)])

\* hmap_next(): the node after u in its chain, else the first node of a
\* later bucket, under the hmap's mask at the time of the call.
HmapNext(h, u) ==
    LET c == h.bk[Bucket(h, u)]
        i == SelectInSeq(c, LAMBDA x : x = u)
    IN IF i < Len(c) THEN c[i + 1] ELSE HmapFirstFrom(h, Bucket(h, u) + 1)

-----------------------------------------------------------------------------
(* Flood remove.  The state threaded through the recursion is the table,   *)
(* the hmap, ok (no assertion failed) and tbr, the to_be_removed list of   *)
(* the call in progress.                                                   *)

RECURSIVE FloodRemoveForSbUuid(_, _)

\* The first loop of flood_remove_flows_for_sb_uuid(): each flow loses
\* the uuid's reference; flows left without one are destroyed, the others
\* go to to_be_removed, which a flow must not already be on.
UnrefForFlood(s, u) ==
    LET Step(acc, d) ==
          LET refs == RemoveFirst(acc.flows[d].refs, u)
          IN IF ~acc.ok THEN acc
             ELSE IF Contains(acc.tbr, d) THEN [acc EXCEPT !.ok = FALSE]
             ELSE IF refs = <<>> THEN [acc EXCEPT !.flows[d] = Nil]
             ELSE [acc EXCEPT !.flows[d].refs = refs, !.tbr = Append(@, d)]
    IN FoldLeft(Step, [s EXCEPT !.tbr = <<>>], s.stf[u])

\* The flows of to_be_removed are detached from the sb_to_flow lists of
\* their other uuids, so that the recursion does not meet them.
DetachForFlood(s) ==
    FoldLeft(LAMBDA acc, f :
               FoldLeft(LAMBDA a, v : [a EXCEPT !.stf[v] = RemoveFirst(@, f)],
                        acc, acc.flows[f].refs),
             s, s.tbr)

\* Mutant: the other uuids are recorded but not flooded.
FloodOtherUuidsNoRecurse(s) ==
    FoldLeft(LAMBDA acc, f :
               [FoldLeft(LAMBDA a, v :
                           IF v \in HmapNodes(a.hm) THEN a
                           ELSE [a EXCEPT !.hm = HmapInsert(@, v)],
                         acc, acc.flows[f].refs)
                  EXCEPT !.flows[f] = Nil],
             s, s.tbr)

\* The second loop: each other uuid of a to_be_removed flow that is not yet
\* in flood_remove_nodes is added to it and flooded; then the flow goes.
FloodOtherUuids(s) ==
    FoldLeft(LAMBDA acc, f :
               [FoldLeft(LAMBDA a, v :
                           IF v \in HmapNodes(a.hm) THEN a
                           ELSE FloodRemoveForSbUuid(
                                    [a EXCEPT !.hm = HmapInsert(@, v)], v),
                         acc, acc.flows[f].refs)
                  EXCEPT !.flows[f] = Nil],
             s, s.tbr)

\* flood_remove_flows_for_sb_uuid()
FloodRemoveForSbUuid(s, u) ==
    IF s.stf[u] = Nil THEN s
    ELSE LET s1 == UnrefForFlood(s, u)
         IN IF ~s1.ok THEN s1
            ELSE [FloodOtherUuids(DetachForFlood([s1 EXCEPT !.stf[u] = Nil]))
                    EXCEPT !.tbr = s.tbr]

\* The HMAP_FOR_EACH of ofctrl_flood_remove_flows(), taking each next node
\* after the body has run.
RECURSIVE FloodLoop(_, _)
FloodLoop(s, u) ==
    IF u = Nil \/ ~s.ok THEN s
    ELSE LET s1 == FloodRemoveForSbUuid(s, u)
         IN FloodLoop(s1, HmapNext(s1.hm, u))

\* The caller fills a fresh hmap with ofctrl_flood_remove_add_node() in the
\* given order, then calls ofctrl_flood_remove_flows().
FloodRemove(t, seeds) ==
    LET h0 == FoldLeft(HmapInsert, EmptyHmap, seeds)
    IN FloodLoop([flows |-> t.flows, stf |-> t.stf, hm |-> h0, ok |-> TRUE,
                  tbr |-> <<>>],
                 HmapFirstFrom(h0, 0))

FloodRemoveFlows(S) ==
    /\ ~aborted /\ S # {}
    /\ \E order \in SetToSeqs(S) :
          LET r == FloodRemove(Table, order)
          IN /\ SetTable(r)
             /\ floodNodes' = HmapNodes(r.hm)
             /\ aborted' = ~r.ok
    /\ UNCHANGED adds

-----------------------------------------------------------------------------
Next ==
    \/ \E u \in Uuids, k \in Keys, a \in Acts :
          CheckAndAddFlow(u, k, a) \/ AddOrAppendFlow(u, k, a)
    \/ \E u \in Uuids : RemoveFlows(u)
    \/ \E S \in SUBSET Uuids : FloodRemoveFlows(S)
    \/ ClearTable

Spec == Init /\ [][Next]_vars

-----------------------------------------------------------------------------
(* Properties                                                              *)

FlowRec == [key : Keys, acts : Seq(Acts), refs : Seq(Uuids)]

TypeOK ==
    /\ flows \in [DIds -> FlowRec \cup {Nil}]
    /\ stf \in [Uuids -> Seq(DIds) \cup {Nil}]
    /\ floodNodes \subseteq Uuids
    /\ aborted \in BOOLEAN
    /\ adds \in 0 .. MaxAdds

\* The two indices agree (spec P1): every live flow has a reference, and
\* each (flow, uuid) pair occurs as often in the flow's references as in
\* the uuid's sb_to_flow list, whatever adds, removes, clears and floods
\* came before.
LinksConsistent ==
    /\ \A d \in DIds : flows[d] # Nil => flows[d].refs # <<>>
    /\ \A d \in DIds, u \in Uuids :
          (IF flows[d] = Nil THEN 0 ELSE Count(flows[d].refs, u))
          = (IF stf[u] = Nil THEN 0 ELSE Count(stf[u], d))

\* No ovs_assert() of flood_remove_flows_for_sb_uuid() fails.
FloodNoAbort == ~aborted

\* The table implements SbFlowLinks: the sources of a desired flow are the
\* uuids of its sb_flow_refs, and a flood hands back flood_remove_nodes.
\* Whatever sequence of adds, appends, removes, clears and floods the
\* caller makes, ofctrl_remove_flows() takes the uuid out of exactly its
\* flows (spec P2), and ofctrl_flood_remove_flows() removes exactly the
\* flows of the closure of the seeds under "shares a flow" and leaves that
\* closure in flood_remove_nodes (spec P3).
Links == INSTANCE SbFlowLinks
            WITH Flows <- DIds,
                 src <- [d \in DIds |-> IF flows[d] = Nil THEN {}
                                        ELSE ToSet(flows[d].refs)],
                 nodes <- floodNodes
SbFlowLinksSpec == Links!Spec

\* The table as ofctrl_put() reads it, keys and actions only.
View == INSTANCE DesiredFlows
           WITH Flows <- DIds,
                flows <- [d \in DIds |-> IF flows[d] = Nil THEN Nil
                                         ELSE [key |-> flows[d].key,
                                               acts |-> flows[d].acts]]
\* Every table operation, seen by ofctrl_put(), creates a flow with the
\* actions of one add, appends one add's actions after a flow's own (spec
\* P6) without touching its key, or makes flows disappear.  These are the
\* steps Ofctrl's AddFlow, AppendFlow and RemoveFlow take on its projection
\* of the table, so ofctrl_put() is checked against what the table can do.
DesiredFlowsSpec == View!Spec
====
