# TLA+ models of ovn-controller's OpenFlow control (`src/controller/ofctrl.c`)

This directory holds TLA+ specifications of `src/controller/ofctrl.c`, the part of
ovn-controller that owns the OpenFlow connection to the local Open vSwitch bridge.
Alongside them are the TLC configurations that check the specifications and
`PROJECT.json`, which maps every definition to the source lines it models and lists
the runs, mutants, findings and hazards.

## 1. The system

`ofctrl.c` has these parts. They interact as follows.

| Part | State in the code | Operations |
|---|---|---|
| Connection and TLV state machine | `swconn`, `seqno`, `state`, `xid`, `xid2`, `mff_ovn_geneve` | `ofctrl_run` (reconnect detection, `run_S_*`, `ofctrl_recv`/`recv_S_*`), `process_tlv_table_reply`, `ofctrl_get_mf_field_id` |
| Desired flow table | `match_flow_table`, `uuid_flow_table`, `sb_flow_ref` lists | `ofctrl_check_and_add_flow`, `ofctrl_add_or_append_flow`, `ofctrl_remove_flows`, `ofctrl_flood_remove_flows`, `ovn_desired_flow_table_clear` |
| Installed flow table | `installed_flows`, `desired_refs`, `installed_flow` links | `link_installed_to_desired`, `unlink_installed_to_desired`, `installed_flow_add`/`_mod`/`_del` |
| Reconciler | static `skipped_last_time`, `old_nb_cfg`, `need_reinstall_flows` | `ofctrl_put` (with `ofctrl_can_put`) |
| Flow-update tracking | `flow_updates` (xid, nb_cfg), `cur_cfg` | tail of `ofctrl_put`, `recv_S_UPDATE_FLOWS` |
| Conntrack flushes | the caller's `pending_ct_zones` (OF_QUEUED → OF_SENT → DB_QUEUED) | `add_ct_flush_zone` in `ofctrl_put`, the rewind in `ofctrl_run`, the barrier reply |
| Group/meter tables | `groups`, `meters`: `ovn_extend_table` desired and existing sets (the table itself is defined outside this repository) | the add and delete passes of `ofctrl_put`, `remove_desired` in `ofctrl_remove_flows`, `clear` in `run_S_CLEAR_FLOWS`, `add_meter`/`add_meter_string` |
| Packet injection | none of its own; it queues into `tx_counter` | `ofctrl_inject_pkt`, `ofctrl_lookup_port` |

The parts interact in this cycle:

1. The caller fills the desired table and then calls `ofctrl_put`.
2. `ofctrl_put` compares the desired table with `installed_flows`. It queues group and meter adds, then flow_mods, which update the installed table immediately, then group and meter deletes, and ends the batch with a barrier. The extend tables' existing sets are synced to the desired ones at once.
3. `ofctrl_put` records the barrier's xid with the batch's nb_cfg in `flow_updates`. It also stamps the xid on the ct flushes it sent.
4. When the barrier reply arrives, `recv_S_UPDATE_FLOWS` pops `flow_updates` up to that xid and sets `cur_cfg`. It also moves the ct zones that carry that xid to DB_QUEUED.
5. Outside this cycle, an echo request from the switch is answered by `ofctrl_recv` in every state, and the caller may inject a packet at any time. Both queue a message that `tx_counter` counts, and `ofctrl_can_put` waits for that counter.
6. When the connection drops, the switch may have restarted. The state machine renegotiates the Geneve TLV, deletes every flow, group and meter, empties the existing sets, and sets `need_reinstall_flows`. Ct flushes in OF_SENT go back to OF_QUEUED.

## 2. Modules

### `Ofctrl.tla`: connection, reconciler, flow updates, ct zones

**State.** The module's VARIABLES correspond to the code's statics:
- `state`, `xid`, `xid2` and `mffOvnGeneve` model the state machine.
- `installed` models `installed_flows` as key → value, desired refs and primary.
- `flowUpdates`, `curCfg`, `needReinstall`, `skipped` and `oldNbCfg` model the reconciler.
- `ctZones` models `pending_ct_zones`.
- `extExisting` and `extDesired` model the existing and desired sets of the `groups` and `meters` extend tables; the constants `Groups` and `Meters` name their entries, and `Uses` says which of them an action refers to.

The rest of the system is modelled as the code's environment:
- **rconn and the socket:** `txq` is what `tx_counter` counts. `net` holds messages in order, lost on disconnect. `rxq` holds the replies.
- **The switch:** `swFlows` is its flow table, `swExt` its groups and meters, and `swTlv` its TLV slots. `SwitchProcess` applies OpenFlow 1.3 semantics:
  - MODIFY_STRICT does not add a flow and keeps the cookie.
  - Barriers are answered in order.
  - A TLV add fails with ALREADY_MAPPED or DUP_ENTRY.
  - A flow_mod that names an absent group or meter is refused; deleting a group or meter deletes the flows that use it.
  - The three delete-all mods of `run_S_CLEAR_FLOWS` are one `ClearMsg`: they are queued back to back and nothing answers them, so nothing can observe the switch between them.
- **The caller:**
  - `desired` is a projection of the desired table: key, value, link.
  - `flowChanged` and `nbCfg` are the arguments of `ofctrl_put`.
  - The caller also queues and commits ct zones.

**Actions.** Each action models a whole hook or handler:
- `RunConnect`: the reconnect branch of `ofctrl_run`, including the ct rewind.
- `RunNew`, and `RunClearFlows` with `InstalledFlowTableClear`.
- `Controller` is one pass of `ofctrl_run`'s loop: a run hook, then the receive handler of the state it leaves. `recv_S_NEW` and `recv_S_CLEAR_FLOWS` are never reached, because their run hooks always change state.
- `RecvTlvTableRequested`, with `ProcessTlvTableReply`.
- `RecvTlvTableModSent`.
- `RecvUpdateFlows`.
- `OfctrlRecv`: `ofctrl_recv`, the fallback of every receive handler. An echo request is answered with an echo reply through `queue_msg`; anything else is only logged.
- `InjectPkt`: `ofctrl_inject_pkt`. It is refused when rconn has no version. An expression that does not parse, or whose port `ofctrl_lookup_port` cannot find, returns an error and changes nothing, which is a stutter. Otherwise a packet-out is queued, in whatever state the negotiation is in.
- `Put`, which is the disjunction of:
  - `PutNotNeeded`: the early return, including the `cur_cfg = nb_cfg` catch-up.
  - `PutSkipped`: `!ofctrl_can_put`.
  - `PutRun`: the whole body. `PutBatch` is its batch in queue order: ct flushes, group adds, meter adds (`MeterSendable`: `add_meter` sends nothing without a SB Meter row), the installed and desired passes, group deletes, meter deletes. `PutRun` adds the extend-table sync, the links the passes leave (`LinkChain`), the barrier, the xid stamp on the ct zones just sent (`StampCtXid`), the `flow_updates` walk, and `NothingSent`, the `cur_cfg` tail of a put that sent nothing. `AddMsg`, `DelMsg` and `ModifyMsg` are `installed_flow_add`, `_del` and `_mod`.

**Environment.** The environment's steps are:
- `Transmit` (rconn sending the next queued message; `queue_msg` only queues it, so this step is modelled from rconn's behaviour, not from `ofctrl.c`), `SwitchProcess`, `Disconnect` and `OtherControllerMaps`.
- `SwitchEcho`: the switch's keepalive echo request.
- The desired-table edits `AddFlow`, `AppendFlow` and `RemoveFlow`, projected from DesiredFlowTable.
- `SetNbCfg`, `QueueCtFlush` and `CommitCtZone`.

**Not code.** The switch and caller definitions are marked `spec_modelled` in the map because they are not code of this file.

### `DesiredFlowTable.tla`: the desired flow table and flood remove

**State.**
- `flows` models `match_flow_table`, one record per `desired_flow` with its ordered `references`.
- `stf` models `uuid_flow_table` as the ordered `flows` list of each `sb_to_flow`.

**Actions.**
- Each public operation is one action: `CheckAndAddFlow`, `AddOrAppendFlow`, `RemoveFlows`, `FloodRemoveFlows` and `ClearTable`.
- `ClearTable` and `FloodRemoveFlows` choose, with `\E`, the order in which the code's hash tables are walked. Several orders can lead to different states, so the model keeps every order.

**Flood remove.** Flood remove is modelled as the code runs it:
- `FloodRemove` builds the `flood_remove_nodes` hmap from the seeds.
- `FloodLoop` is the `HMAP_FOR_EACH`.
- `FloodRemoveForSbUuid` is the recursive function, split into `UnrefForFlood`, `DetachForFlood` and `FloodOtherUuids`. The last of these inserts into the hmap being iterated.
- The hmap itself is modelled from OVS `lib/hmap.c`, which is not in this repository and so is `spec_modelled`. That covers head insertion, `calc_mask`, the expansion in `hmap_insert` and `hmap_next`. The interaction between iteration and expansion is the point of `flood_rehash`.

### `SbFlowLinks.tla`: what the desired flow table promises

An abstract specification with no tables: each desired flow has the set of SB rows that produced it, and a flow exists exactly while that set is non-empty. `Link`, `Unlink` (spec P2), `Flood` (the closure of the seeds over shared flows, spec P3, handed back as `nodes`) and `Clear` are its actions.

`DesiredFlowTable` implements it. The refinement mapping sends a flow's `src` to the set of its `references` and `nodes` to `floodNodes`: `Links == INSTANCE SbFlowLinks WITH ...`, and the run `table` checks `SbFlowLinksSpec == Links!Spec` as a PROPERTY. Every step of the table is a step of the abstract spec or a stutter.

### `CtFlushLifecycle.tla`: what the conntrack flushes promise

An abstract specification with no messages, xids or barriers. Each zone is idle, asked or done, and `flushed` records whether the switch flushed it since it was asked. `Ask`, `Flush`, `Confirm` (allowed only once flushed) and `Commit` are its actions.

`Ofctrl` implements it. The mapping `CtAbstractState` sends IDLE to idle, OF_QUEUED and OF_SENT to asked, and DB_QUEUED to done. `flushed` is the switch's `ctFlushed`. The reconnect that rewinds OF_SENT to OF_QUEUED is a stutter of the abstract spec. `reconcile` checks `CtFlushLifecycleSpec == CtLifecycle!Spec` as a PROPERTY. A barrier reply that moved a zone to DB_QUEUED before its flush was processed would be a `Confirm` without a `Flush`.

### `DesiredFlows.tla`: the table as `ofctrl_put` reads it

This module joins the two components. `Ofctrl` does not contain the desired table; it uses a projection of it (key, actions, cookie, installed link), changed by the environment actions `AddFlow` (a new flow with one action), `AppendFlow` (one action appended) and `RemoveFlow` (a flow disappears). `DesiredFlows` states those steps over keys and actions alone: `New`, `Extend` and `Drop`. `Drop` takes a set of flows, because a flood or a clear drops several flows in one call, and `ofctrl_put` runs only between calls.

`DesiredFlowTable` implements it. The mapping `View == INSTANCE DesiredFlows WITH flows <- ...` keeps each flow's key and actions. The `table` run checks `DesiredFlowsSpec == View!Spec`, so every sequence of real table operations is one that `Ofctrl`'s environment can produce. The exception is a multi-flow drop, which `Ofctrl` splits into single removals: a superset of behaviours, so safety results carry over. Cookies are not in `DesiredFlowTable` (every operation takes them as given), so they are outside this check.

### MC modules

`MCOfctrl.tla` and `MCDesiredFlowTable.tla` declare the model values and the small sets, hash functions and initial tables that the .cfg files substitute.

## 3. Runs

| Run | Expect | Bounds | What it shows |
|---|---|---|---|
| `reconcile` | pass | 1 key, 2 desired flows, 2 cookies, 1 zone, actions ≤ 2, nb_cfg ≤ 2, 4 changes, 1 disconnect | `TypeOK`. `InstalledLinks`: the unlink and primary invariants the asserts rely on. `InstalledMirrorsSwitch`: with nothing in flight, installed = switch, across clears, restarts and cookie changes. `CtFlushLifecycleSpec`: the ct flushes refine `CtFlushLifecycle`. `BarrierCertifiesCfg`: a barrier reply that moves cur_cfg comes after every flow_mod of that config. |
| `converge` | pass | as above with actions ≤ 1, nb_cfg ≤ 1, 3 changes, one group and one meter used by the action `a1` | `InstalledMirrorsSwitch` with groups and meters: group and meter adds go before the flows that use them, and the clear empties the existing sets. Whether the deletes come after the flows cannot be told apart under these bounds: the modelled switch checks groups and meters only when a flow is added or modified, and a group or meter delete leaves the installed flows alone, so a delete sent before the flow's delete reaches the same final state. Under `FairSpec`: `EventuallyConverged` (spec P4, now including the groups and meters) and `CtFlushCompletes`, even with a reconnect and a skipped put. |
| `negotiate_errors` | pass | no flows, 2 TLV slots, 2 disconnects, 2 races by other controllers, TLV requests and mods may be refused; one echo request or one injected packet per behaviour (`CONSTRAINT OneProbe`) | `NegotiationCompletes`, also when an echo reply or a packet-out sits in `tx_counter` among the negotiation messages. `GeneveDisabledOnlyWhenRefusedOrFull`: Geneve is given up only when the switch refused our request or has neither our option nor a free slot. After a race sends us back to S_NEW, the barrier reply of the abandoned mod arrives during the retry; only the xid check at line 404 keeps it from being taken as the answer. |
| `faults` | pass | 1 key, nb_cfg ≤ 2, 2 TLV slots, 1 race, rejected flow_mods, nb_cfg regressions | `BarrierCertifiesCfg` survives the faults: with flow_mods refused and nb_cfg regressing, a barrier reply that moves cur_cfg still comes after every flow_mod of that config. (The link invariants are checked in `reconcile`; the faults do not touch them or the ct flush path.) `FieldIdMapped`: the field id handed out is a slot mapped to OVN, even when another controller takes the slot we chose. |
| `table` | pass | 3 uuids, 3 desired flows, 2 keys, actions ≤ 2, 4 adds, `AppendMayRepeatSource = FALSE` (a caller never appends the same (key, uuid) twice; when it does, that is the `append_repeat` finding) | `TypeOK`, `LinksConsistent` (spec P1), and `SbFlowLinksSpec`: the table refines `SbFlowLinks`, so remove and flood remove take away exactly the flows P2 and P3 say. `DesiredFlowsSpec`: the table refines `DesiredFlows`, so an append extends exactly the flow it found (spec P6) and no operation changes two flows in other ways. With one action atom the order of concatenation is not visible; a second atom would multiply this run's time. |
| `tlv_error_field` | violation | 1 slot | Finding: `mff_ovn_geneve` is not reset after a non-race mod error (line 487). |
| `cfg_regress` | violation | nb_cfg ≤ 2 | Finding: `cur_cfg` goes down (line 1522). |
| `switch_reject` | violation | 1 key, one meter with no SB Meter row, used by the only action | Findings: `add_meter` sends nothing for the meter yet the sync marks it existing (line 1380); the switch then refuses the flow_mod, which stays recorded as installed and is never retried (lines 744 and 1626). The switch itself is faultless here; arbitrary refusals are the `faults` run's fault model. |
| `cfg_unconfirmed` | violation | nb_cfg ≤ 2 | Finding: `cur_cfg` advances while the clear or a same-cfg batch is unconfirmed (lines 1746 and 1522). |
| `append_repeat` | violation | 2 adds | Finding: a duplicate `sb_flow_ref` reaches the `ovs_assert` at line 1015. |
| `flood_rehash` | violation | 8 uuids sharing one flow, with fixed hashes | Finding: HMAP_FOR_EACH skips a seed after an expansion (line 1072), so the table no longer refines `SbFlowLinks`. |

**Why the bounds are enough.**
- **One key** is enough for the reconciler, because `ofctrl_put` treats keys independently. Two desired flows on that key exercise the shared-key path, the primary hand-over and the cookie-change ADD.
- **nb_cfg ≤ 2 and 4 changes** allow a same-cfg repeat (the xid overwrite), a cfg bump, and a put that is skipped while a batch is in flight.
- **One disconnect** covers loss of the clear, of a batch and of a ct flush that is OF_SENT.
- **Two TLV slots and two races** let another controller take the slot we chose, so we must pick the other one.
- **One group and one meter**, used by the only action, make every non-empty flow depend on both; removing the flow makes them undesired, so adds, deletes and the clear all happen. Groups and meters are only in `converge`: the larger `reconcile` and `faults` runs would exceed their time with them. For the same reason `faults` does not recheck `CtFlushLifecycleSpec`.
- **One echo or one injection** is enough: each only adds a message to the queue. One message placed anywhere in the negotiation covers every interleaving that one message can have. `OneProbe` excludes only behaviours with both; allowing both triples the state space. Echo and injection run only in `negotiate_errors`, the one run where they can disturb anything before `S_UPDATE_FLOWS`. In `converge` the extra messages would push the liveness check past its time.
- **The rehash chain** needs the eighth node of `flood_remove_nodes`. That is the first expansion (mask 3 → 7), so no smaller scenario shows it.

**Fairness.** `FairSpec` puts weak fairness on every hook of `ofctrl_run` and on `Put`, because the main loop calls them on every iteration. It also puts weak fairness on `Transmit` and `SwitchProcess`, because rconn and the switch drain their queues. `ofctrl_run` stops after 50 iterations (line 648), but then it calls `poll_immediate_wake`, and otherwise `ofctrl_wait` waits on the socket. Either way a hook or receive that stays enabled is taken in a later wakeup, which is what weak fairness assumes. The environment has no fairness: changes, disconnects and races may stop at any time, and the bounds end them.

**Deadlock.** Deadlock is checked in every run. The main loop never stops calling `ofctrl_run` and `ofctrl_put`, so the model never stops either: once every budget is spent, `Put` remains enabled (as `PutNotNeeded`).

## 4. Not modelled

- **The extend tables' own code:** `ovn_extend_table` is not in this repository. Its id allocation and its per-lflow ownership are left out: a desired flow of `Ofctrl` stands for its own lflow, so removing it drops the entries no other desired flow uses.
- **Formatting and logging:** `ovn_flow_to_string`, `ovn_flow_log` and the VLOG calls produce text only.
- **Packet contents:** `expr_parse_microflow` and `flow_compose` are reduced to whether the injection succeeds; only the queued packet-out matters to `ofctrl.c`.
- **Message encoding:** it is reduced to message records.
- **`ofctrl_run`'s 50-iteration cap:** it is not a state. Each hook is a step, and the cap only defers steps to the next wakeup.
- **Lifecycle:** `ofctrl_init`, `ofctrl_destroy` and `ofctrl_wait` are not modelled. Neither is `ofctrl_set_probe_interval`, which only sets an rconn timer; the echo requests it triggers are `SwitchEcho`. `Init` is the state right after `ofctrl_init`.

## 5. Plan for further work

1. An abstract `CfgTracking` specification of `cur_cfg`. The promise the spec states, that `cur_cfg` moves only after the switch confirms, is what the `cfg_unconfirmed` and `cfg_regress` findings show the code breaks. The guarantee the code does keep is `BarrierCertifiesCfg`, which applies at barrier replies. A refinement would only restate these until the code is fixed.
2. Two action atoms in the `table` run, so that the order of concatenation in spec P6 becomes visible. That needs a faster flood model, or a run of its own with fewer adds.
3. Echo requests and injected packets in `converge`, to check that a queued echo reply or packet-out never blocks a put for good. Today that run would take more than ten minutes.
