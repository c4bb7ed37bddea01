------------------------------- MODULE Ofctrl -------------------------------
(***************************************************************************)
(* The OpenFlow side of ovn-controller (src/controller/ofctrl.c): the      *)
(* connection state machine that negotiates the Geneve tunnel-metadata     *)
(* option, clears the switch and then keeps it in sync; ofctrl_put(), which *)
(* diffs the desired flow table against the installed one and sends a      *)
(* batch of flow_mods closed by a barrier; the flow_updates queue that     *)
(* turns barrier replies into cur_cfg; and the conntrack-zone flushes that *)
(* ride on the same barriers.                                              *)
(*                                                                         *)
(* The switch is modelled too: an rconn send queue (counted by tx_counter),*)
(* an in-order socket, the switch's flow and TLV tables, and its replies.  *)
(* The desired flow table is reduced to what ofctrl_put() reads: desired   *)
(* flows with a key, a value and a link to an installed flow.  Who owns    *)
(* them (the sb_uuid references) is the business of DesiredFlowTable.      *)
(***************************************************************************)
EXTENDS Integers, Sequences, SequencesExt, FiniteSets

CONSTANTS
    Keys,               \* flow keys (table_id, priority, match)
    DIds,               \* identities of struct desired_flow records
    Acts,               \* action atoms; a flow's ofpacts is a sequence of them
    Cookies,            \* OpenFlow cookies
    Zones,              \* conntrack zones that may be queued for a flush
    Groups,             \* group ids of the groups extend table
    Meters,             \* meter ids of the meters extend table
    StringMeters,       \* meters named "__string: ...", built from the name
    SbMeters,           \* meters with a row of that name in SB Meter
    Uses,               \* Acts -> the groups and meters an action refers to
    Nil,                \* model value: no flow / no link
    NumTlvSlots,        \* TUN_METADATA_NUM_OPTS (64 in the code)
    MaxActsLen,         \* bound on the length of a flow's action list
    MaxCfg,             \* bound on the SB nb_cfg
    MaxChanges,         \* bound on upstream changes to the desired state
    MaxDisconnects,     \* bound on connection drops
    MaxRaces,           \* bound on TLV mappings added by other controllers
    MaxEchoes,          \* bound on echo requests from the switch
    MaxInjects,         \* bound on packets injected by the caller
    SwitchRejectsFlows, \* the switch may refuse a flow_mod with an error
    TlvMayFail,         \* the switch may refuse a TLV request or mod
    NbCfgMayRegress     \* the SB nb_cfg may go backwards

ASSUME /\ NumTlvSlots \in Nat \ {0}
       /\ StringMeters \cup SbMeters \subseteq Meters
       /\ Uses \in [Acts -> SUBSET (Groups \cup Meters)]
       /\ {MaxActsLen, MaxCfg, MaxChanges, MaxDisconnects, MaxRaces,
           MaxEchoes, MaxInjects} \subseteq Nat
       /\ {SwitchRejectsFlows, TlvMayFail, NbCfgMayRegress} \subseteq BOOLEAN

Slots == 0 .. NumTlvSlots - 1
Vals == [acts : SeqOf(Acts, MaxActsLen), cookie : Cookies]
States == {"S_NEW", "S_TLV_TABLE_REQUESTED", "S_TLV_TABLE_MOD_SENT",
           "S_CLEAR_FLOWS", "S_UPDATE_FLOWS"}
\* enum ct_zone_pending_state, "IDLE" standing for "no entry in the shash".
CtStates == {"IDLE", "OF_QUEUED", "OF_SENT", "DB_QUEUED"}
\* NXTTMFC_ALREADY_MAPPED and NXTTMFC_DUP_ENTRY: another controller won.
RaceErrors == {"ALREADY_MAPPED", "DUP_ENTRY"}
ErrorCodes == RaceErrors \cup {"OTHER"}

\* The entries of both extend tables, and those a flow value refers to.
Ext == Groups \cup Meters
UsesOf(v) == UNION {Uses[v.acts[i]] : i \in DOMAIN v.acts}

\* MFF_TUN_METADATA0 + index; 0 means Geneve is disabled.
TunMetadata(i) == i + 1

VARIABLES
    connected,      \* rconn_is_connected(swconn)
    txq,            \* rconn send queue, what tx_counter counts
    net,            \* messages written to the socket, not yet processed
    rxq,            \* replies from the switch, not yet received
    swFlows,        \* the switch's flow table: Keys -> Vals \cup {Nil}
    swTlv,          \* the switch's TLV table: Slots -> "free"/"ovn"/"other"
    swExt,          \* the groups and meters on the switch
    state,          \* enum ofctrl_state
    xid, xid2,      \* xids of the outstanding TLV request / mod and barrier
    mffOvnGeneve,   \* mff_ovn_geneve
    installed,      \* installed_flows: Keys -> [val, refs, primary] \cup {Nil}
    extExisting,    \* groups->existing and meters->existing
    flowUpdates,    \* flow_updates: sequence of [xid, cfg]
    curCfg,         \* cur_cfg
    needReinstall,  \* need_reinstall_flows
    skipped,        \* ofctrl_put()'s static skipped_last_time
    oldNbCfg,       \* ofctrl_put()'s static old_nb_cfg
    desired,        \* desired flows: DIds -> [key, val, inst] \cup {Nil}
    extDesired,     \* groups->desired and meters->desired
    flowChanged,    \* the flow_changed argument of the next ofctrl_put()
    nbCfg,          \* the nb_cfg argument of the next ofctrl_put()
    ctZones,        \* pending_ct_zones: Zones -> [st, xid]
    nextXid,        \* next OpenFlow transaction id to be allocated
    budget,         \* environment events used so far
    ctFlushed       \* history: the switch flushed the zone since it was queued

connVars == <<connected, txq, net, rxq>>
swVars == <<swFlows, swTlv, swExt>>
tlvVars == <<xid, xid2, mffOvnGeneve>>
putVars == <<installed, flowUpdates, curCfg, needReinstall, skipped, oldNbCfg,
            extExisting>>
envVars == <<desired, flowChanged, nbCfg, ctZones, extDesired>>
vars == <<connVars, swVars, state, tlvVars, putVars, envVars,
          nextXid, budget, ctFlushed>>

-----------------------------------------------------------------------------
(* Messages.  Flow messages carry the nb_cfg of the ofctrl_put() that sent *)
(* them (cfg 0 for the delete-all of S_CLEAR_FLOWS), which only the        *)
(* properties read.                                                        *)

TlvRequestMsg(x) == [type |-> "tlv_req", xid |-> x]
TlvModMsg(x, i) == [type |-> "tlv_mod", xid |-> x, slot |-> i]
BarrierMsg(x) == [type |-> "barrier", xid |-> x]
\* The flow_mod, group_mod and meter_mod that delete every flow, group and
\* meter.  run_S_CLEAR_FLOWS() queues them back to back and nothing answers
\* them, so the controller cannot tell them apart: one message here.
ClearMsg == [type |-> "clear", cfg |-> 0]
FlowMsg(t, k, v, c) == [type |-> t, key |-> k, val |-> v, cfg |-> c]
CtFlushMsg(z, c) == [type |-> "ct_flush", zone |-> z, cfg |-> c]
\* group_mod ADD/DELETE and meter_mod ADD/DELETE of one entry.
ExtMsg(t, e, c) == [type |-> t, ext |-> e, cfg |-> c]
ExtMsgTypes == {"group_add", "meter_add", "group_del", "meter_del"}
FlowMsgTypes == {"clear", "flow_add", "flow_modify", "flow_del", "ct_flush"}
                \cup ExtMsgTypes

TlvReply(x, map) == [type |-> "tlv_reply", xid |-> x, map |-> map]
ErrorReply(x, code) == [type |-> "error", xid |-> x, code |-> code]
BarrierReply(x) == [type |-> "barrier_reply", xid |-> x]
\* The switch's echo request carries an xid of its own, never one of ours.
EchoRequest == [type |-> "echo_request", xid |-> 0]
EchoReplyMsg == [type |-> "echo_reply"]
\* The packet-out of ofctrl_inject_pkt(): resubmit to table 0.
PacketOutMsg == [type |-> "packet_out"]

-----------------------------------------------------------------------------
Init ==
    /\ connected = FALSE
    /\ txq = <<>> /\ net = <<>> /\ rxq = <<>>
    \* flows left on the switch by an earlier run of the agent
    /\ swExt \in SUBSET Ext
    /\ swFlows \in [Keys -> {Nil} \cup {v \in [acts : {<<a>> : a \in Acts},
                                              cookie : Cookies] :
                                         UsesOf(v) \subseteq swExt}]
    /\ swTlv = [i \in Slots |-> "free"]
    /\ state = "S_NEW"
    /\ xid = 0 /\ xid2 = 0 /\ mffOvnGeneve = 0
    /\ installed = [k \in Keys |-> Nil]
    /\ extExisting = {} /\ extDesired = {}
    /\ flowUpdates = <<>>
    /\ curCfg = 0 /\ needReinstall = FALSE /\ skipped = FALSE /\ oldNbCfg = 0
    /\ desired = [d \in DIds |-> Nil]
    /\ flowChanged = FALSE
    /\ nbCfg = 0
    /\ ctZones = [z \in Zones |-> [st |-> "IDLE", xid |-> 0]]
    /\ nextXid = 1
    /\ budget = [changes |-> 0, disconnects |-> 0, races |-> 0, echoes |-> 0,
                  injects |-> 0]
    /\ ctFlushed = [z \in Zones |-> FALSE]

-----------------------------------------------------------------------------
(* ofctrl_run(): reconnect detection and the per-state run_* hooks.  Every *)
(* hook and every receive happens only while connected; a receive never    *)
(* happens in S_NEW or S_CLEAR_FLOWS because the hook of those states runs *)
(* first in each loop iteration and leaves them.                           *)

\* Mutant: the reset of outstanding ct flushes is missing.
RewindCtFlushesNone == ctZones

\* The flushes whose barrier was lost with the connection are resent.
RewindCtFlushes ==
    [z \in Zones |-> IF ctZones[z].st = "OF_SENT"
                     THEN [ctZones[z] EXCEPT !.st = "OF_QUEUED"]
                     ELSE ctZones[z]]

\* rconn_run() (re)connects; a new connection seqno forces S_NEW.
RunConnect ==
    /\ ~connected
    /\ connected' = TRUE
    /\ state' = "S_NEW"
    /\ ctZones' = RewindCtFlushes
    /\ UNCHANGED <<txq, net, rxq, swVars, tlvVars, putVars, desired,
                   flowChanged, nbCfg, extDesired, nextXid, budget, ctFlushed>>

\* Mutant: the xid of the request is not recorded.
RunNewStaleXid ==
    /\ connected /\ state = "S_NEW"
    /\ nextXid' = nextXid + 1
    /\ txq' = Append(txq, TlvRequestMsg(nextXid))
    /\ state' = "S_TLV_TABLE_REQUESTED"
    /\ UNCHANGED <<connected, net, rxq, swVars, tlvVars, putVars,
                   envVars, budget, ctFlushed>>

\* run_S_NEW(): request the switch's TLV table.
RunNew ==
    /\ connected /\ state = "S_NEW"
    /\ xid' = nextXid
    /\ nextXid' = nextXid + 1
    /\ txq' = Append(txq, TlvRequestMsg(nextXid))
    /\ state' = "S_TLV_TABLE_REQUESTED"
    /\ UNCHANGED <<connected, net, rxq, swVars, xid2, mffOvnGeneve, putVars,
                   envVars, budget, ctFlushed>>

\* ovn_installed_flow_table_clear(): every installed flow is removed, after
\* unlink_all_refs_for_installed_flow() has unlinked its desired flows.
InstalledFlowTableClear ==
    /\ installed' = [k \in Keys |-> Nil]
    /\ desired' = [d \in DIds |->
                     IF desired[d] = Nil THEN Nil
                     ELSE [desired[d] EXCEPT !.inst = Nil]]

\* run_S_CLEAR_FLOWS(): delete every flow, group and meter on the switch,
\* forget the installed flows (unlinking their desired flows), the existing
\* groups and meters and the in-flight flow updates, and ask the next
\* ofctrl_put() to reinstall everything.
RunClearFlows ==
    /\ connected /\ state = "S_CLEAR_FLOWS"
    /\ needReinstall' = TRUE
    /\ txq' = Append(txq, ClearMsg)
    /\ InstalledFlowTableClear
    /\ extExisting' = {}
    /\ flowUpdates' = <<>>
    /\ state' = "S_UPDATE_FLOWS"
    /\ UNCHANGED <<connected, net, rxq, swVars, tlvVars, curCfg, skipped,
                   oldNbCfg, flowChanged, nbCfg, ctZones, extDesired, nextXid,
                   budget, ctFlushed>>

\* process_tlv_table_reply() and the error path of its caller.
ProcessTlvTableReply(map) ==
    LET ours == {i \in Slots : map[i] = "ovn"}
        free == {i \in Slots : map[i] = "free"}
    IN \/ /\ ours # {}
          /\ mffOvnGeneve' = TunMetadata(CHOOSE i \in ours : TRUE)
          /\ state' = "S_CLEAR_FLOWS"
          /\ UNCHANGED <<txq, xid, xid2, nextXid>>
       \/ /\ ours = {} /\ free = {}
          /\ mffOvnGeneve' = 0
          /\ state' = "S_CLEAR_FLOWS"
          /\ UNCHANGED <<txq, xid, xid2, nextXid>>
       \/ /\ ours = {} /\ free # {}
          /\ mffOvnGeneve' = TunMetadata(Min(free))
          /\ xid' = nextXid
          /\ xid2' = nextXid + 1
          /\ nextXid' = nextXid + 2
          /\ txq' = txq \o <<TlvModMsg(nextXid, Min(free)),
                             BarrierMsg(nextXid + 1)>>
          /\ state' = "S_TLV_TABLE_MOD_SENT"

\* ofctrl_recv(): an echo request is answered through queue_msg(), so the
\* reply counts in tx_counter; errors and anything else are only logged.
OfctrlRecv(m) ==
    txq' = IF m.type = "echo_request" THEN Append(txq, EchoReplyMsg) ELSE txq

\* Mutant: any message is taken as the answer to the request; whatever is
\* not a TLV table reply goes down the error path.
RecvTlvTableRequestedAnyXid ==
    /\ connected /\ state = "S_TLV_TABLE_REQUESTED" /\ rxq # <<>>
    /\ LET m == Head(rxq) IN
       \/ /\ m.type = "tlv_reply"
          /\ ProcessTlvTableReply(m.map)
       \/ /\ m.type # "tlv_reply"
          /\ mffOvnGeneve' = 0
          /\ state' = "S_CLEAR_FLOWS"
          /\ UNCHANGED <<txq, xid, xid2, nextXid>>
    /\ rxq' = Tail(rxq)
    /\ UNCHANGED <<connected, net, swVars, putVars, envVars, budget, ctFlushed>>

\* recv_S_TLV_TABLE_REQUESTED()
RecvTlvTableRequested ==
    /\ connected /\ state = "S_TLV_TABLE_REQUESTED" /\ rxq # <<>>
    /\ LET m == Head(rxq) IN
       \/ /\ m.xid # xid
          /\ OfctrlRecv(m)
          /\ UNCHANGED <<state, tlvVars, nextXid>>
       \/ /\ m.xid = xid /\ m.type = "tlv_reply"
          /\ ProcessTlvTableReply(m.map)
       \/ /\ m.xid = xid /\ m.type = "error"
          /\ mffOvnGeneve' = 0
          /\ state' = "S_CLEAR_FLOWS"
          /\ UNCHANGED <<txq, xid, xid2, nextXid>>
    /\ rxq' = Tail(rxq)
    /\ UNCHANGED <<connected, net, swVars, putVars, envVars, budget,
                   ctFlushed>>

\* Mutant: a race error is taken like any other error.
RecvTlvTableModSentNoRetry ==
    /\ connected /\ state = "S_TLV_TABLE_MOD_SENT" /\ rxq # <<>>
    /\ LET m == Head(rxq) IN
       \/ /\ m.xid \notin {xid, xid2}
          /\ OfctrlRecv(m)
          /\ UNCHANGED state
       \/ /\ m.xid = xid2 /\ m.type = "barrier_reply"
          /\ state' = "S_CLEAR_FLOWS"
          /\ UNCHANGED txq
       \/ /\ m.xid = xid /\ m.type = "error"
          /\ state' = "S_CLEAR_FLOWS"
          /\ UNCHANGED txq
    /\ rxq' = Tail(rxq)
    /\ UNCHANGED <<connected, net, swVars, tlvVars, putVars, envVars,
                   nextXid, budget, ctFlushed>>

\* recv_S_TLV_TABLE_MOD_SENT(): note that the "error:" label only sets the
\* state; mff_ovn_geneve keeps the index that was requested.
RecvTlvTableModSent ==
    /\ connected /\ state = "S_TLV_TABLE_MOD_SENT" /\ rxq # <<>>
    /\ LET m == Head(rxq) IN
       \/ /\ m.xid \notin {xid, xid2}
          /\ OfctrlRecv(m)
          /\ UNCHANGED state
       \/ /\ m.xid = xid2 /\ m.type = "barrier_reply"
          /\ state' = "S_CLEAR_FLOWS"
          /\ UNCHANGED txq
       \/ /\ m.xid = xid /\ m.type = "error" /\ m.code \in RaceErrors
          /\ state' = "S_NEW"
          /\ UNCHANGED txq
       \/ /\ m.xid = xid /\ m.type = "error" /\ m.code \notin RaceErrors
          /\ state' = "S_CLEAR_FLOWS"
          /\ UNCHANGED txq
    /\ rxq' = Tail(rxq)
    /\ UNCHANGED <<connected, net, swVars, tlvVars, putVars, envVars,
                   nextXid, budget, ctFlushed>>

\* Mutant: every sent flush is taken as done, whatever barrier answered.
CompleteCtFlushesAny(x) ==
    [z \in Zones |-> IF ctZones[z].st = "OF_SENT"
                     THEN [ctZones[z] EXCEPT !.st = "DB_QUEUED"]
                     ELSE ctZones[z]]

\* The flushes sent with barrier x are done.
CompleteCtFlushes(x) ==
    [z \in Zones |-> IF ctZones[z].st = "OF_SENT" /\ ctZones[z].xid = x
                     THEN [ctZones[z] EXCEPT !.st = "DB_QUEUED"]
                     ELSE ctZones[z]]

\* recv_S_UPDATE_FLOWS(): a barrier reply retires the oldest flow update if
\* it carries that update's xid, and completes the conntrack flushes sent
\* with that barrier.  Anything else goes to ofctrl_recv(), which logs it.
RecvUpdateFlows ==
    /\ connected /\ state = "S_UPDATE_FLOWS" /\ rxq # <<>>
    /\ LET m == Head(rxq) IN
       \/ /\ m.type = "barrier_reply" /\ flowUpdates # <<>>
          /\ LET fup == Head(flowUpdates) IN
             /\ flowUpdates' = IF fup.xid = m.xid THEN Tail(flowUpdates)
                               ELSE flowUpdates
             /\ curCfg' = IF fup.xid = m.xid /\ fup.cfg >= curCfg
                          THEN fup.cfg ELSE curCfg
          /\ ctZones' = CompleteCtFlushes(m.xid)
          /\ UNCHANGED txq
       \/ /\ ~(m.type = "barrier_reply" /\ flowUpdates # <<>>)
          /\ OfctrlRecv(m)
          /\ UNCHANGED <<flowUpdates, curCfg, ctZones>>
    /\ rxq' = Tail(rxq)
    /\ UNCHANGED <<connected, net, swVars, state, tlvVars, installed,
                   needReinstall, skipped, oldNbCfg, extExisting, desired,
                   flowChanged, nbCfg, extDesired, nextXid, budget, ctFlushed>>

-----------------------------------------------------------------------------
(* ofctrl_put()                                                            *)

DesiredWithKey(k) == {d \in DIds : desired[d] # Nil /\ desired[d].key = k}
InstalledKeys == {k \in Keys : installed[k] # Nil}

\* ofctrl_can_put(): S_UPDATE_FLOWS, nothing counted by tx_counter, and a
\* negotiated version (which rconn only has while connected).
CanPut == state = "S_UPDATE_FLOWS" /\ txq = <<>> /\ connected

\* The hmap bucket chain of each key in the desired table.  Flows with one
\* key share a hash, so desired_flow_lookup() returns the head of the chain
\* and HMAP_FOR_EACH visits the chain in the same order; the order itself
\* depends on insertion and resize history, so every order is possible.
Chains == {c \in [Keys -> UNION {SetToSeqs(DesiredWithKey(k)) : k \in Keys}] :
             \A k \in Keys : c[k] \in SetToSeqs(DesiredWithKey(k))}

\* installed_flow_add() and installed_flow_del(): ADD with the desired
\* flow's actions and cookie, DELETE_STRICT by match.
AddMsg(k, v, c) == FlowMsg("flow_add", k, v, c)
DelMsg(k, v, c) == FlowMsg("flow_del", k, v, c)

\* Mutant: the cookie change is not noticed, MODIFY_STRICT is always used.
ModifyMsgStrict(k, iv, dv, c) == FlowMsg("flow_modify", k, dv, c)

\* installed_flow_mod(): MODIFY_STRICT, or ADD when the cookie changed.
ModifyMsg(k, iv, dv, c) ==
    IF iv.cookie = dv.cookie THEN FlowMsg("flow_modify", k, dv, c)
    ELSE AddMsg(k, dv, c)

\* The flow_mods of both passes over installed_flows and the desired table.
FlowPassMsgs(chain, c) ==
    {DelMsg(k, installed[k].val, c) :
        k \in {j \in InstalledKeys : chain[j] = <<>>}}
    \cup {ModifyMsg(k, installed[k].val, desired[Head(chain[k])].val, c) :
            k \in {j \in InstalledKeys :
                      chain[j] # <<>>
                      /\ installed[j].val # desired[Head(chain[j])].val}}
    \cup {AddMsg(k, desired[Head(chain[k])].val, c) :
            k \in {j \in Keys \ InstalledKeys : chain[j] # <<>>}}

\* The reverse walk over flow_updates after a batch closed by barrier x.
RECURSIVE TrackFlowUpdate(_, _, _)
\* Mutant: a repeated nb_cfg keeps the xid of its first batch.
TrackFlowUpdateNoOverwrite(fus, cfg, x) ==
    IF fus = <<>> THEN <<[xid |-> x, cfg |-> cfg]>>
    ELSE IF cfg < Last(fus).cfg
         THEN TrackFlowUpdate(Front(fus), cfg, x)
    ELSE IF cfg = Last(fus).cfg THEN fus
    ELSE Append(fus, [xid |-> x, cfg |-> cfg])
\* Mutant: the new entry's xid and nb_cfg are swapped.
TrackFlowUpdateSwapped(fus, cfg, x) ==
    IF fus = <<>> THEN <<[xid |-> cfg, cfg |-> x]>>
    ELSE IF cfg < Last(fus).cfg
         THEN TrackFlowUpdate(Front(fus), cfg, x)
    ELSE IF cfg = Last(fus).cfg
         THEN Append(Front(fus), [Last(fus) EXCEPT !.xid = x])
    ELSE Append(fus, [xid |-> cfg, cfg |-> x])
TrackFlowUpdate(fus, cfg, x) ==
    IF fus = <<>> THEN <<[xid |-> x, cfg |-> cfg]>>
    ELSE IF cfg < Last(fus).cfg
         THEN TrackFlowUpdate(Front(fus), cfg, x)
    ELSE IF cfg = Last(fus).cfg
         THEN Append(Front(fus), [Last(fus) EXCEPT !.xid = x])
    ELSE Append(fus, [xid |-> x, cfg |-> cfg])

PutInputChanged == flowChanged \/ skipped \/ needReinstall
NeedPut == PutInputChanged \/ (nbCfg # oldNbCfg /\ curCfg # oldNbCfg)

\* Early return: nothing changed; cur_cfg follows nb_cfg if it was caught up.
PutNotNeeded ==
    /\ ~NeedPut
    /\ curCfg' = IF nbCfg # oldNbCfg /\ curCfg = oldNbCfg THEN nbCfg ELSE curCfg
    /\ oldNbCfg' = nbCfg
    /\ flowChanged' = FALSE
    /\ UNCHANGED <<connVars, swVars, state, tlvVars, installed, flowUpdates,
                   needReinstall, skipped, extExisting, desired, nbCfg, ctZones,
                   extDesired, nextXid, budget, ctFlushed>>

\* Mutant: skipped_last_time is not set.
PutSkippedForgets ==
    /\ NeedPut /\ ~CanPut
    /\ oldNbCfg' = nbCfg
    /\ flowChanged' = FALSE
    /\ UNCHANGED <<connVars, swVars, state, tlvVars, installed, flowUpdates,
                   curCfg, needReinstall, skipped, extExisting, desired, nbCfg,
                   ctZones, extDesired, nextXid, budget, ctFlushed>>

\* Early return: the switch cannot take a batch now; retry next time.
PutSkipped ==
    /\ NeedPut /\ ~CanPut
    /\ skipped' = TRUE
    /\ oldNbCfg' = nbCfg
    /\ flowChanged' = FALSE
    /\ UNCHANGED <<connVars, swVars, state, tlvVars, installed, flowUpdates,
                   curCfg, needReinstall, extExisting, desired, nbCfg, ctZones,
                   extDesired, nextXid, budget, ctFlushed>>

\* add_meter(): a meter that is neither a "__string: " meter nor named by
\* an SB Meter row is logged and gets no meter_mod.
MeterSendable(m) == m \in StringMeters \cup SbMeters

\* EXTEND_TABLE_FOR_EACH_UNINSTALLED and EXTEND_TABLE_FOR_EACH_INSTALLED:
\* the desired entries not yet existing, the existing ones no longer desired.
ExtAddMsgs(t, E, c) == {ExtMsg(t, e, c) : e \in (extDesired \cap E) \ extExisting}
ExtDelMsgs(t, E, c) == {ExtMsg(t, e, c) : e \in (extExisting \cap E) \ extDesired}

\* Mutant: the flow_mods go out before the new groups and meters.
PutBatchFlowsFirst(zs, chain, c) ==
    SetToSeq({CtFlushMsg(z, c) : z \in zs})
    \o SetToSeq(FlowPassMsgs(chain, c))
    \o SetToSeq(ExtAddMsgs("group_add", Groups, c))
    \o SetToSeq({m \in ExtAddMsgs("meter_add", Meters, c) : MeterSendable(m.ext)})
    \o SetToSeq(ExtDelMsgs("group_del", Groups, c))
    \o SetToSeq(ExtDelMsgs("meter_del", Meters, c))

\* The messages of one ofctrl_put() in the order it queues them: ct
\* flushes, new groups, new meters, the flow passes, then the deletion of
\* groups and meters no longer desired.
PutBatch(zs, chain, c) ==
    SetToSeq({CtFlushMsg(z, c) : z \in zs})
    \o SetToSeq(ExtAddMsgs("group_add", Groups, c))
    \o SetToSeq({m \in ExtAddMsgs("meter_add", Meters, c) : MeterSendable(m.ext)})
    \o SetToSeq(FlowPassMsgs(chain, c))
    \o SetToSeq(ExtDelMsgs("group_del", Groups, c))
    \o SetToSeq(ExtDelMsgs("meter_del", Meters, c))

\* The links both passes leave: each installed flow is unlinked, then
\* link_installed_to_desired() makes the head of its key's chain the
\* primary desired flow and appends the rest of the chain in order (the
\* head's second link returns early); every desired flow points at the
\* installed flow of its key.
LinkChain(chain) ==
    /\ installed' = [k \in Keys |->
                       IF chain[k] = <<>> THEN Nil
                       ELSE [val |-> desired[Head(chain[k])].val,
                             refs |-> chain[k],
                             primary |-> Head(chain[k])]]
    /\ desired' = [d \in DIds |->
                     IF desired[d] = Nil THEN Nil
                     ELSE [desired[d] EXCEPT !.inst = desired[d].key]]

\* After the barrier is queued, every ct zone sent in this batch, and any
\* still OF_SENT with no xid, takes the barrier's xid.
StampCtXid(queuedZones, x) ==
    [z \in Zones |->
        IF z \in queuedZones \/ (ctZones[z].st = "OF_SENT" /\ ctZones[z].xid = 0)
        THEN [st |-> "OF_SENT", xid |-> x]
        ELSE ctZones[z]]

\* Nothing was sent: the newest flow update takes nb_cfg, or, with none in
\* flight, cur_cfg does.
NothingSent ==
    \/ /\ flowUpdates # <<>>
       /\ flowUpdates' = [flowUpdates EXCEPT ![Len(flowUpdates)].cfg = nbCfg]
       /\ UNCHANGED curCfg
    \/ /\ flowUpdates = <<>>
       /\ curCfg' = nbCfg
       /\ UNCHANGED flowUpdates

\* The reconciliation proper: ct flushes, groups and meters, flow
\* deletes/modifies/adds, a barrier if anything was sent, and the
\* flow_updates book-keeping.  ovn_extend_table_remove_existing() and
\* ovn_extend_table_sync() leave the existing entries equal to the desired.
PutRun ==
    /\ NeedPut /\ CanPut
    /\ \E chain \in Chains :
       LET queuedZones == {z \in Zones : ctZones[z].st = "OF_QUEUED"}
           batch == PutBatch(queuedZones, chain, nbCfg)
           x == nextXid
       IN
       /\ LinkChain(chain)
       /\ \/ /\ batch # <<>>
             /\ txq' = txq \o Append(batch, BarrierMsg(x))
             /\ nextXid' = nextXid + 1
             /\ ctZones' = StampCtXid(queuedZones, x)
             /\ flowUpdates' = TrackFlowUpdate(flowUpdates, nbCfg, x)
             /\ UNCHANGED curCfg
          \/ /\ batch = <<>>
             /\ NothingSent
             /\ UNCHANGED <<txq, nextXid, ctZones>>
    /\ extExisting' = extDesired
    /\ skipped' = FALSE
    /\ needReinstall' = FALSE
    /\ oldNbCfg' = nbCfg
    /\ flowChanged' = FALSE
    /\ UNCHANGED <<connected, net, rxq, swVars, state, tlvVars, nbCfg,
                   extDesired, budget, ctFlushed>>

Put == PutNotNeeded \/ PutSkipped \/ PutRun

-----------------------------------------------------------------------------
(* The connection and the switch.                                          *)

\* rconn_run() hands the oldest queued message to the socket; tx_counter
\* drops.
Transmit ==
    /\ connected /\ txq # <<>>
    /\ net' = Append(net, Head(txq))
    /\ txq' = Tail(txq)
    /\ UNCHANGED <<connected, rxq, swVars, state, tlvVars, putVars, envVars,
                   nextXid, budget, ctFlushed>>

\* ovs-vswitchd processes the oldest message on the socket.
SwitchTlvAdd(m) ==
    \/ /\ swTlv[m.slot] # "free"
       /\ rxq' = Append(rxq, ErrorReply(m.xid, "ALREADY_MAPPED"))
       /\ UNCHANGED swTlv
    \/ /\ swTlv[m.slot] = "free" /\ \E i \in Slots : swTlv[i] = "ovn"
       /\ rxq' = Append(rxq, ErrorReply(m.xid, "DUP_ENTRY"))
       /\ UNCHANGED swTlv
    \/ /\ swTlv[m.slot] = "free" /\ \A i \in Slots : swTlv[i] # "ovn"
       /\ swTlv' = [swTlv EXCEPT ![m.slot] = "ovn"]
       /\ UNCHANGED rxq
    \/ /\ TlvMayFail
       /\ rxq' = Append(rxq, ErrorReply(m.xid, "OTHER"))
       /\ UNCHANGED swTlv

\* A flow_mod whose actions name a group or meter the switch lacks is
\* refused (OFPBAC_BAD_OUT_GROUP, OFPMMFC_UNKNOWN_METER).
FlowModValid(m) ==
    m.type \in {"flow_add", "flow_modify"} => UsesOf(m.val) \subseteq swExt

SwitchFlowMod(m) ==
    \/ /\ m.type = "flow_add"
       /\ swFlows' = [swFlows EXCEPT ![m.key] = m.val]
    \/ /\ m.type = "flow_modify"
       \* OpenFlow 1.3 MODIFY_STRICT changes the actions of an existing
       \* flow, keeps its cookie, and adds nothing.
       /\ swFlows' = IF swFlows[m.key] = Nil THEN swFlows
                     ELSE [swFlows EXCEPT ![m.key].acts = m.val.acts]
    \/ /\ m.type = "flow_del"
       /\ swFlows' = [swFlows EXCEPT ![m.key] = Nil]

\* Deleting a group or a meter also deletes the flows that use it.
DropUsers(E) ==
    [k \in Keys |-> IF swFlows[k] # Nil /\ UsesOf(swFlows[k]) \cap E # {}
                    THEN Nil ELSE swFlows[k]]

SwitchExtMod(m) ==
    \/ /\ m.type \in {"group_add", "meter_add"}
       \* An add of an entry that exists is refused (GROUP_EXISTS,
       \* METER_EXISTS).
       /\ swExt' = swExt \cup {m.ext}
       /\ rxq' = IF m.ext \in swExt THEN Append(rxq, ErrorReply(0, "OTHER"))
                 ELSE rxq
       /\ UNCHANGED swFlows
    \/ /\ m.type \in {"group_del", "meter_del"}
       /\ swExt' = swExt \ {m.ext}
       /\ swFlows' = DropUsers({m.ext})
       /\ UNCHANGED rxq

SwitchProcess ==
    /\ net # <<>>
    /\ LET m == Head(net) IN
       \/ /\ m.type = "tlv_req"
          /\ \/ rxq' = Append(rxq, TlvReply(m.xid, swTlv))
             \/ TlvMayFail /\ rxq' = Append(rxq, ErrorReply(m.xid, "OTHER"))
          /\ UNCHANGED <<swVars, ctFlushed>>
       \/ /\ m.type = "tlv_mod"
          /\ SwitchTlvAdd(m)
          /\ UNCHANGED <<swFlows, swExt, ctFlushed>>
       \/ /\ m.type = "barrier"
          /\ rxq' = Append(rxq, BarrierReply(m.xid))
          /\ UNCHANGED <<swVars, ctFlushed>>
       \/ /\ m.type = "clear"
          /\ swFlows' = [k \in Keys |-> Nil]
          /\ swExt' = {}
          /\ UNCHANGED <<swTlv, rxq, ctFlushed>>
       \/ /\ m.type \in {"flow_add", "flow_modify", "flow_del"}
          /\ FlowModValid(m)
          /\ SwitchFlowMod(m)
          /\ UNCHANGED <<swTlv, swExt, rxq, ctFlushed>>
       \/ /\ m.type \in {"flow_add", "flow_modify"}
          /\ SwitchRejectsFlows \/ ~FlowModValid(m)
          /\ rxq' = Append(rxq, ErrorReply(0, "OTHER"))
          /\ UNCHANGED <<swVars, ctFlushed>>
       \/ /\ m.type \in ExtMsgTypes
          /\ SwitchExtMod(m)
          /\ UNCHANGED <<swTlv, ctFlushed>>
       \/ /\ m.type = "ct_flush"
          /\ ctFlushed' = [ctFlushed EXCEPT ![m.zone] = TRUE]
          /\ UNCHANGED <<swVars, rxq>>
       \/ /\ m.type \in {"packet_out", "echo_reply"}
          /\ UNCHANGED <<swVars, rxq, ctFlushed>>
    /\ net' = Tail(net)
    /\ UNCHANGED <<connected, txq, state, tlvVars, putVars, envVars, nextXid,
                   budget>>

\* The connection drops; queued and in-flight messages are lost.  The
\* switch may have restarted, losing its flows and TLV mappings.
Disconnect ==
    /\ connected /\ budget.disconnects < MaxDisconnects
    /\ connected' = FALSE
    /\ txq' = <<>> /\ net' = <<>> /\ rxq' = <<>>
    /\ \/ UNCHANGED swVars
       \/ /\ swFlows' = [k \in Keys |-> Nil]
          /\ swTlv' = [i \in Slots |-> "free"]
          /\ swExt' = {}
    /\ budget' = [budget EXCEPT !.disconnects = @ + 1]
    /\ UNCHANGED <<state, tlvVars, putVars, envVars, nextXid, ctFlushed>>

\* The switch's inactivity probe sends an echo request.
SwitchEcho ==
    /\ connected /\ budget.echoes < MaxEchoes
    /\ rxq' = Append(rxq, EchoRequest)
    /\ budget' = [budget EXCEPT !.echoes = @ + 1]
    /\ UNCHANGED <<connected, txq, net, swVars, state, tlvVars, putVars,
                   envVars, nextXid, ctFlushed>>

\* Another controller maps a TLV option (possibly OVN's own) on the switch.
OtherControllerMaps ==
    /\ budget.races < MaxRaces
    /\ \E i \in Slots, opt \in {"ovn", "other"} :
          /\ swTlv[i] = "free"
          /\ opt = "ovn" => \A j \in Slots : swTlv[j] # "ovn"
          /\ swTlv' = [swTlv EXCEPT ![i] = opt]
    /\ budget' = [budget EXCEPT !.races = @ + 1]
    /\ UNCHANGED <<connVars, swFlows, swExt, state, tlvVars, putVars, envVars,
                   nextXid, ctFlushed>>

-----------------------------------------------------------------------------
(* The caller: the incremental-processing engine that builds the desired   *)
(* flow table, the SB nb_cfg, and the conntrack-zone bookkeeping.          *)

\* Mutant: the primary is not moved off the removed flow.
UnlinkKeepPrimary(i, d) == [i EXCEPT !.refs = Remove(i.refs, d)]

\* unlink_installed_to_desired()
Unlink(i, d) ==
    LET refs == Remove(i.refs, d)
    IN [i EXCEPT !.refs = refs,
                 !.primary = IF i.primary # d THEN i.primary
                             ELSE IF refs = <<>> THEN Nil ELSE Head(refs)]

\* A new desired flow (ofctrl_check_and_add_flow() or
\* ofctrl_add_or_append_flow() creating one).  A second sb_uuid adding the
\* same key through ofctrl_add_flow() creates a second desired flow with it.
\* The groups and meters its actions name are made desired with it.
AddFlow(d, k, v) ==
    /\ budget.changes < MaxChanges
    /\ desired[d] = Nil
    /\ desired' = [desired EXCEPT ![d] = [key |-> k, val |-> v, inst |-> Nil]]
    /\ extDesired' = extDesired \cup UsesOf(v)
    /\ flowChanged' = TRUE
    /\ budget' = [budget EXCEPT !.changes = @ + 1]
    /\ UNCHANGED <<connVars, swVars, state, tlvVars, putVars, nbCfg, ctZones,
                   nextXid, ctFlushed>>

\* ofctrl_add_or_append_flow() on an existing key: the actions are
\* appended, the existing cookie is kept.
AppendFlow(d, a) ==
    /\ budget.changes < MaxChanges
    /\ desired[d] # Nil /\ Len(desired[d].val.acts) < MaxActsLen
    /\ desired' = [desired EXCEPT ![d].val.acts = Append(@, a)]
    /\ extDesired' = extDesired \cup Uses[a]
    /\ flowChanged' = TRUE
    /\ budget' = [budget EXCEPT !.changes = @ + 1]
    /\ UNCHANGED <<connVars, swVars, state, tlvVars, putVars, nbCfg, ctZones,
                   nextXid, ctFlushed>>

\* remove_flows_from_sb_to_flow() for a flow losing its last reference: it
\* is unlinked from its installed flow and destroyed.  The groups and
\* meters no other desired flow names stop being desired with it
\* (ovn_extend_table_remove_desired()).
RemoveFlow(d) ==
    /\ budget.changes < MaxChanges
    /\ desired[d] # Nil
    /\ installed' = IF desired[d].inst = Nil THEN installed
                    ELSE [installed EXCEPT ![desired[d].inst] =
                                              Unlink(@, d)]
    /\ desired' = [desired EXCEPT ![d] = Nil]
    /\ extDesired' = UNION {UsesOf(desired'[e].val) :
                              e \in {x \in DIds : desired'[x] # Nil}}
    /\ flowChanged' = TRUE
    /\ budget' = [budget EXCEPT !.changes = @ + 1]
    /\ UNCHANGED <<connVars, swVars, state, tlvVars, flowUpdates, curCfg,
                   needReinstall, skipped, oldNbCfg, extExisting, nbCfg,
                   ctZones, nextXid, ctFlushed>>

\* The SB_Global nb_cfg moves on (or, where allowed, back).
SetNbCfg ==
    /\ budget.changes < MaxChanges
    /\ \/ nbCfg < MaxCfg /\ nbCfg' = nbCfg + 1
       \/ NbCfgMayRegress /\ nbCfg' \in 0 .. nbCfg - 1
    /\ budget' = [budget EXCEPT !.changes = @ + 1]
    /\ UNCHANGED <<connVars, swVars, state, tlvVars, putVars, desired,
                   flowChanged, ctZones, extDesired, nextXid, ctFlushed>>

\* A zone is queued for a flush (CT_ZONE_OF_QUEUED).  The ct_zones engine
\* node is an input of flow output, so the next ofctrl_put() sees
\* flow_changed.
QueueCtFlush(z) ==
    /\ budget.changes < MaxChanges
    /\ ctZones[z].st = "IDLE"
    /\ ctZones' = [ctZones EXCEPT ![z] = [st |-> "OF_QUEUED", xid |-> 0]]
    /\ ctFlushed' = [ctFlushed EXCEPT ![z] = FALSE]
    /\ flowChanged' = TRUE
    /\ budget' = [budget EXCEPT !.changes = @ + 1]
    /\ UNCHANGED <<connVars, swVars, state, tlvVars, putVars, desired, nbCfg,
                   extDesired, nextXid>>

\* ofctrl_inject_pkt(): refused while rconn has no negotiated version.  An
\* expression that does not parse or names no local port
\* (ofctrl_lookup_port() finds no interface with that iface-id and a valid
\* ofport) returns an error and changes nothing, a stutter.  Otherwise the
\* packet-out is queued and counts in tx_counter, whatever state the
\* negotiation is in.
InjectPkt ==
    /\ budget.injects < MaxInjects
    /\ connected
    /\ txq' = Append(txq, PacketOutMsg)
    /\ budget' = [budget EXCEPT !.injects = @ + 1]
    /\ UNCHANGED <<connected, net, rxq, swVars, state, tlvVars, putVars,
                   envVars, nextXid, ctFlushed>>

\* The caller commits a flushed zone to the database and drops the entry.
CommitCtZone(z) ==
    /\ ctZones[z].st = "DB_QUEUED"
    /\ ctZones' = [ctZones EXCEPT ![z] = [st |-> "IDLE", xid |-> 0]]
    /\ UNCHANGED <<connVars, swVars, state, tlvVars, putVars, desired,
                   flowChanged, nbCfg, extDesired, nextXid, budget, ctFlushed>>

-----------------------------------------------------------------------------
\* One pass of ofctrl_run()'s loop: the run_* hook of the current state,
\* then the recv_* handler of the state it left behind.  run_S_NEW and
\* run_S_CLEAR_FLOWS always change state, so recv_S_NEW (NOT_REACHED) and
\* recv_S_CLEAR_FLOWS are never called and no receive is enabled there.
Controller ==
    \/ RunConnect \/ RunNew \/ RunClearFlows
    \/ RecvTlvTableRequested \/ RecvTlvTableModSent \/ RecvUpdateFlows
    \/ Put

Environment ==
    \/ \E d \in DIds, k \in Keys, a \in Acts, c \in Cookies :
          AddFlow(d, k, [acts |-> <<a>>, cookie |-> c])
    \/ \E d \in DIds, a \in Acts : AppendFlow(d, a)
    \/ \E d \in DIds : RemoveFlow(d)
    \/ SetNbCfg
    \/ \E z \in Zones : QueueCtFlush(z) \/ CommitCtZone(z)
    \/ InjectPkt
    \/ Disconnect
    \/ SwitchEcho
    \/ OtherControllerMaps

Next == Controller \/ Transmit \/ SwitchProcess \/ Environment

Spec == Init /\ [][Next]_vars

\* ovn-controller's main loop calls ofctrl_run() and ofctrl_put() on every
\* iteration and wakes when the socket is readable; rconn keeps
\* reconnecting; the switch keeps reading its socket.  The caller, the SB
\* database, the connection and other controllers owe nothing.
Fairness ==
    /\ WF_vars(RunConnect) /\ WF_vars(RunNew) /\ WF_vars(RunClearFlows)
    /\ WF_vars(RecvTlvTableRequested) /\ WF_vars(RecvTlvTableModSent)
    /\ WF_vars(RecvUpdateFlows) /\ WF_vars(Put)
    /\ WF_vars(Transmit) /\ WF_vars(SwitchProcess)

FairSpec == Spec /\ Fairness

-----------------------------------------------------------------------------
(* Properties                                                              *)

InstalledRec == [val : Vals, refs : Seq(DIds), primary : DIds \cup {Nil}]
DesiredRec == [key : Keys, val : Vals, inst : Keys \cup {Nil}]

TypeOK ==
    /\ connected \in BOOLEAN
    /\ swFlows \in [Keys -> Vals \cup {Nil}]
    /\ swTlv \in [Slots -> {"free", "ovn", "other"}]
    /\ state \in States
    /\ mffOvnGeneve \in {0} \cup {TunMetadata(i) : i \in Slots}
    /\ installed \in [Keys -> InstalledRec \cup {Nil}]
    /\ flowUpdates \in Seq([xid : Nat, cfg : 0 .. MaxCfg])
    /\ {curCfg, oldNbCfg, nbCfg} \subseteq 0 .. MaxCfg
    /\ {needReinstall, skipped, flowChanged} \subseteq BOOLEAN
    /\ desired \in [DIds -> DesiredRec \cup {Nil}]
    /\ ctZones \in [Zones -> [st : CtStates, xid : Nat]]
    /\ ctFlushed \in [Zones -> BOOLEAN]
    /\ {swExt, extExisting, extDesired} \subseteq SUBSET Ext

\* The links between installed and desired flows that the ovs_assert()s of
\* unlink_installed_to_desired() and *_flow_destroy() rely on (I5, I6): an
\* installed flow's primary is one of its desired refs, every ref points
\* back to it, and a desired flow's link is matched by a ref.
InstalledLinks ==
    /\ \A k \in InstalledKeys :
          LET i == installed[k] IN
          /\ (i.refs = <<>>) = (i.primary = Nil)
          /\ i.primary # Nil => Contains(i.refs, i.primary)
          /\ Len(i.refs) = Cardinality(ToSet(i.refs))
          /\ \A j \in 1 .. Len(i.refs) :
                desired[i.refs[j]] # Nil /\ desired[i.refs[j]].inst = k
    /\ \A d \in DIds :
          desired[d] # Nil /\ desired[d].inst # Nil =>
             /\ desired[d].inst = desired[d].key
             /\ installed[desired[d].inst] # Nil
             /\ Contains(installed[desired[d].inst].refs, d)

\* Once every sent message has been processed in S_UPDATE_FLOWS, the switch
\* holds exactly the flows (actions and cookies) that installed_flows says
\* it holds, and exactly the groups and meters the extend tables mark
\* existing, whatever reconnects, restarts and cookie changes came before.
\* A flow whose group or meter was not yet added is refused by the switch,
\* so this also says ofctrl_put() orders group/meter adds before the flows
\* and deletions after them.
InstalledMirrorsSwitch ==
    (state = "S_UPDATE_FLOWS" /\ connected /\ txq = <<>> /\ net = <<>>)
       => /\ \A k \in Keys :
                swFlows[k] = IF installed[k] = Nil THEN Nil ELSE installed[k].val
          /\ swExt = extExisting

PendingFlowMsgs ==
    {m \in ToSet(txq) \cup ToSet(net) : m.type \in FlowMsgTypes}
ConfirmedUpTo(c) == \A m \in PendingFlowMsgs : m.cfg > c

\* When a barrier reply moves cur_cfg to c, the switch has processed every
\* flow_mod and ct flush that ofctrl_put() sent for a configuration up to c
\* (the xid overwrite for a repeated nb_cfg is what makes this hold).
BarrierAdvancesCfg ==
    /\ rxq # <<>> /\ Head(rxq).type = "barrier_reply" /\ rxq' = Tail(rxq)
    /\ curCfg' # curCfg
BarrierCertifiesCfg ==
    [][BarrierAdvancesCfg => ConfirmedUpTo(curCfg')]_vars

\* Whatever moves cur_cfg forward, it is published only once the switch has
\* processed what was sent for that configuration (spec 5: cur_cfg
\* "advances ... only after the switch confirms").
CfgAdvanceConfirmed ==
    [][curCfg' > curCfg => ConfirmedUpTo(curCfg')]_vars

\* cur_cfg never goes backwards (spec P5, and 7: "never lower cur_cfg").
CurCfgMonotonic == [][curCfg' >= curCfg]_curCfg

\* ofctrl_get_mf_field_id()
GetMfFieldId ==
    IF connected /\ state \in {"S_CLEAR_FLOWS", "S_UPDATE_FLOWS"}
    THEN mffOvnGeneve ELSE 0

\* Negotiation gives up on Geneve (mff_ovn_geneve = 0 on the way to
\* S_CLEAR_FLOWS) only when the switch refused our own TLV table request, or
\* its table holds neither OVN's option nor a free slot.  After a race sends
\* us back to S_NEW, the barrier reply of the abandoned mod still arrives
\* during the retry; only the xid checks of the receive handlers keep it
\* from being taken as the answer.
GeneveDisabledOnlyWhenRefusedOrFull ==
    [][/\ state \in {"S_TLV_TABLE_REQUESTED", "S_TLV_TABLE_MOD_SENT"}
       /\ state' = "S_CLEAR_FLOWS" /\ mffOvnGeneve' = 0
       => \/ \A i \in Slots : swTlv[i] = "other"
          \/ rxq # <<>> /\ Head(rxq).type = "error" /\ Head(rxq).xid = xid]_vars

\* The field id handed to flow generation is a slot that the switch has
\* really mapped to OVN's Geneve option.
FieldIdMapped ==
    GetMfFieldId # 0 => swTlv[GetMfFieldId - 1] = "ovn"

\* Once connected, negotiation always ends in S_UPDATE_FLOWS, whatever
\* races and refusals the switch comes up with.
NegotiationCompletes == connected ~> state = "S_UPDATE_FLOWS"

FlowsMatchDesired ==
    /\ \A k \in Keys :
          IF DesiredWithKey(k) = {} THEN swFlows[k] = Nil
          ELSE swFlows[k] \in {desired[d].val : d \in DesiredWithKey(k)}
    /\ swExt = extDesired

\* After the last change, the switch ends up holding the desired flows, and
\* exactly the groups and meters they use, and cur_cfg reaches nb_cfg
\* (spec P4).
EventuallyConverged ==
    <>[](/\ connected /\ state = "S_UPDATE_FLOWS" /\ FlowsMatchDesired
         /\ curCfg = nbCfg)

\* Every queued conntrack flush is eventually confirmed by a barrier.
CtFlushCompletes ==
    \A z \in Zones : ctZones[z].st = "OF_QUEUED" ~> ctZones[z].st = "DB_QUEUED"

\* The ct_zone_pending_state of a zone seen as CtFlushLifecycle's state.
CtAbstractState(st) ==
    IF st = "IDLE" THEN "idle" ELSE IF st = "DB_QUEUED" THEN "done" ELSE "asked"
CtLifecycle == INSTANCE CtFlushLifecycle
                 WITH zone <- [z \in Zones |-> CtAbstractState(ctZones[z].st)],
                      flushed <- ctFlushed
\* The conntrack-zone flushes implement CtFlushLifecycle: a zone is
\* reported flushed (DB_QUEUED) only after the switch flushed it since the
\* caller queued it, the switch flushes only zones that were asked for, and
\* no step takes a zone back from done or skips the flush.  OF_QUEUED and
\* OF_SENT both map to "asked", so the rewind of ofctrl_run() on a
\* reconnect is a stutter.
CtFlushLifecycleSpec == CtLifecycle!Spec

====
