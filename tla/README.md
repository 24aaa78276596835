# TLA+ models of sv2-apps

This directory holds TLA+ models of the Stratum V2 applications under `src/`:
the Job Declarator Client (JDC), the translator proxy (tProxy), the pool and
the monitoring library they share. Each model is checked with TLC. This file
covers three things:

- what the system is made of;
- which module models which part, and how the model's state and actions
  map to the code;
- what each TLC run checks, and what it found.

## 1. Inventory of the system

### Parts and how they interact

| Part | Source | State | Operations |
|------|--------|-------|------------|
| JDC channel manager, Template Provider side | `miner-apps/jd-client/src/lib/channel_manager/template_message_handler.rs` | `ChannelManagerData`: `template_store`, `last_future_template`, `last_new_prev_hash`, `last_declare_job_store` (request id → `DeclaredJob`), `request_id_factory`, `allocate_tokens`, `job_factory`, `upstream_channel`, the downstream map with its group/extended/standard channels | `handle_new_template`, `handle_set_new_prev_hash`, `handle_request_tx_data_success`, `handle_request_tx_data_error` |
| JDC channel manager, Pool side | `.../channel_manager/upstream_message_handler.rs` | same data, plus `template_id_to_upstream_job_id`, `pending_downstream_requests`, `upstream_state` | open-channel success/error, `CloseChannel`, `SetExtranoncePrefix`, `SetCustomMiningJob.Success/Error`, `SetTarget`, `SetGroupChannel` |
| JDC supervisor | `miner-apps/jd-client/src/lib/mod.rs` | the upstream list with its "tried" flags, the global `JdMode`, the status channel, `shutdown_complete` channel | `start` (first `initialize_jd`, then the status loop), the fallback branch, `initialize_jd` / `try_initialize_single` (3 retries per entry) |
| JDC downstream `SetupConnection` | `miner-apps/jd-client/src/lib/downstream/common_message_handler.rs` | the negotiated extensions of one downstream | `handle_setup_connection` |
| Translator supervisor | `miner-apps/translator/src/lib/mod.rs` | the upstream list, status loop | `start`, `initialize_upstream`, fallback |
| Translator Sv1 server | `miner-apps/translator/src/lib/sv1/sv1_server/sv1_server.rs` | the downstream map, `request_id_to_downstream_id`, pending channel opens, the job keepalive state, the sequence counters | Sv1 message handling, `handle_open_channel_request`, `handle_upstream_message`, `handle_downstream_disconnect`, `SetTarget` propagation, `spawn_job_keepalive_loop` |
| Pool supervisor | `pool-apps/pool/src/lib/mod.rs` | task wiring | `start`, shutdown |
| Monitoring cache | `stratum-apps/src/monitoring/snapshot_cache.rs` | one `MonitoringSnapshot` behind an `RwLock` | `refresh` (background), `get_snapshot` (HTTP handlers) |
| Monitoring HTTP server | `stratum-apps/src/monitoring/http_server.rs` | Prometheus gauges, `start_time` | JSON handlers, `paginate`, `handle_prometheus_metrics` |
| Monitoring adapters, configuration, data types, integration tests | the remaining files | none that changes | conversions and parsing |

The JDC sits between downstream miners, a Template Provider (TP), a Pool and
a Job Declarator Server (JDS). The TP sends `NewTemplate` and
`SetNewPrevHash`. In FullTemplate mode the JDC asks the TP for each
template's transactions and declares the job to the JDS with a
`DeclareMiningJob`. In CoinbaseOnly mode it sends the job to the Pool
directly with a `SetCustomMiningJob`. Both modes need a mining-job token from
the JDS (`allocate_tokens`) and an extended channel with the Pool, and that
channel opens lazily, when the first downstream asks for one. A fallback-tagged
error from any handler reaches the supervisor, which tears the upstream down
and moves to the next entry of the upstream list. When the list is exhausted
it switches to solo mining.

### What makes it hard

- All channel-manager handlers run in one task. Each one is atomic with
  respect to the others, because it takes `super_safe_lock`. The three peers
  (TP, Pool, JDS) still answer in any interleaving, and a handler's decision
  depends on which answers came first. Examples: whether a declared job is
  sent now or cached for a later `SetNewPrevHash`; whether a template is still
  stored when the Pool channel opens.
- Future templates. A template can arrive before the prev-hash that activates
  it, and state is keyed by "the last future template".
- Fallback tears down one upstream while messages of the old one are in
  flight. The upstream list is consumed once.
- In the translator, a Sv1 downstream can disconnect while its channel open
  is on the wire.
- In the monitoring code, a background refresh and concurrent HTTP requests
  share a cache and a registry of gauges.

## 2. Plan

The modules, in the order they are built:

1. **`JdcTemplateFlow`** (built): the channel manager as seen by TP, Pool,
   JDS and supervisor. This is the core: job/prev-hash pairing, the
   declared-job cache, custom jobs, opening the channel, fallback.
2. The JDC supervisor (built into `JdcTemplateFlow`): the start outcome,
   the `shutdown_complete` channel's senders, the fallback wait and
   `initialize_jd`'s walk of the upstream list. Still open: a real status
   queue, so that duplicated fallback statuses are possible.
3. **`TproxySv1Channels`, `TproxySv1Jobs`** (built): downstream channel
   opens, aggregated and non-aggregated mode, disconnects racing the open,
   and the `request_id_to_downstream_id` map; the job store and the
   keepalive loop.
4. **`MonitoringCache`** (built): `refresh` against concurrent
   business-logic updates (snapshot consistency), `handle_prometheus_metrics`
   with two concurrent requests, and `paginate` walked page by page over
   the cached lists.
5. The JDC's `SetExtranoncePrefix` / `SetTarget` fan-out, and
   `SetupConnection` negotiation as a pure operator.
6. The translator supervisor (built, composed into `TproxySv1Channels`).
   An abstract per-miner delivery specification refined by the Sv1Server
   was built and then dropped. It followed from `HandshakeInOrder` and
   said nothing more about the code.
7. An abstract "job pairing" specification (each job handed out is on its
   template's prev-hash, nothing is declared twice), refined by
   `JdcTemplateFlow` through a mapping of `jds_log` and `custom_log`.

## 3. Modules

### `JdcTemplateFlow`

| Model | Code |
|-------|------|
| `template_store`, `last_future_template`, `last_new_prev_hash`, `last_declare_job_store`, `template_id_to_upstream_job_id`, `request_id_factory`, `pending_downstream_requests`, `upstream_state` | fields of `ChannelManagerData` of the same names (`upstream_state` is `ChannelManager::upstream_state`) |
| `upstream_channel`, `job_factory`, `allocate_tokens` | the `Option` fields, as "is `Some`" |
| `jd_mode` | the process-wide `get_jd_mode()` |
| `tp_tip`, `tp_futures`, `builds_on` | the TP: its current prev-hash, its outstanding future templates, and for every template the prev-hash it builds on |
| `rtd_requests`, `open_requested`, `pool_requests`, `token_requested` | requests on the wire: `RequestTransactionData` (FIFO), `OpenExtendedMiningChannel`, `SetCustomMiningJob`, `AllocateMiningJobToken` |
| `fallback_status`, `supervisor`, `upstreams_left` | the supervisor loop of `mod.rs`: `supervisor` is `Running` (the `select!`), `AwaitComplete` (waiting on `shutdown_complete_rx.recv()`) `Reconnecting` (`initialize_jd`) or `Stopped` (after the loop broke and every task was aborted) |
| `complete_tx` | the live holders of `shutdown_complete_tx`: `Start` (kept by `start` when the first `initialize_jd` fails), `Upstream`, `JobDeclarator` |
| `config_mode`, `downstream_channels` | the configured JD mode, chosen in `Init`; the number of open downstream channels that receive the prev-hash fan-out |
| `jds_log`, `custom_log` | history of `DeclareMiningJob` and `SetCustomMiningJob` messages sent |

How the data is abstracted:

- A template is its id (`1..MaxTemplates`), and a prev-hash is the id of the
  future template it activates. This holds because `SetNewPrevHash` always
  names a future template.
- `builds_on[t] = t` for a future template. For a non-future template,
  `builds_on[t]` is the TP's tip when it sent `t`.
- Coinbase outputs, transaction lists, merkle paths and targets are left
  out. No property tells them apart.

Actions, one per handler:

- `TpNewTemplate` → `HandleNewTemplate` models `handle_new_template`: one
  custom job per downstream in CoinbaseOnly mode, and
  `RequestTransactionData` in FullTemplate mode.
- `TpSetNewPrevHash` → `HandleSetNewPrevHash` models
  `handle_set_new_prev_hash`. The per-downstream fan-out either succeeds
  or, with a channel open, fails; the `?` then returns before the job is
  sent and the handler's error becomes a fallback status
  (`template_message_handler.rs:493-582`).
- `TpRequestTxDataAnswer` → `HandleRequestTxDataSuccess`, or the error
  answer, models `handle_request_tx_data_*`.
- `PoolOpenExtendedSuccess` → `HandleOpenExtendedSuccess`.
- `PoolRejectsOpen` models the open error and a standard-channel success.
- `PoolAnswersCustomJob` models `SetCustomMiningJob.Success/Error`.
- `PoolCloseChannel`.
- `JdsAllocateTokenSuccess`.
- `StartOutcome(ok)` in `Init` models `start` up to the status loop: the
  first `initialize_jd` connects (`StartPair`) or fails, and then `start`
  keeps its `shutdown_complete_tx` and the JDC mines solo
  (`mod.rs:272-304`).
- `SupervisorStartFallback` cancels the old Upstream and JobDeclarator,
  `FallbackTakenOut` is the return of `shutdown_complete_rx.recv()` once
  no sender is left, and `SupervisorFinishFallback` runs `initialize_jd`:
  it walks the remaining entries and either connects (`StartPair`) or runs
  out of entries (`WalkFails`). The code only passes the configured mode
  to `JobDeclarator::new`, which is not under `src/`. That a successful
  reconnect sets the JD mode back from `SoloMining` to the configured mode
  (`TryInitializeSingleOk`) is taken from the specification.
- `SupervisorShutdown` models the Ctrl+C, `TemplateReceiverShutdown` and
  `ChannelManagerShutdown` arms: the loop breaks, and `start` ends with
  `abort_all` and `join_all` (`GracefulShutdown`). Once the JDC has
  stopped, no peer message and no handler runs any more.
- `SupervisorDownstreamShutdown` models the `DownstreamShutdown` arm: the
  broadcast makes the Channel Manager drop that downstream's channel. The
  Channel Manager's side is not under `src/`.

Two actions are modelled from the specification, because their code is not
under `src/`:

- `DownstreamOpenChannel`, the downstream handler that queues a channel
  request and opens the Pool channel, or opens the channel at once when the
  upstream is connected or the JDC mines solo;
- `JdsAllocateTokenSuccess`, the job-declarator handler.

The Channel Manager's own fallback clean-up (which clears the upstream
channel, job factory, token and declared jobs) is part of
`SupervisorStartFallback`, also from the specification. The initial
`upstream_state` of `ChannelManager::new` is taken to be `SoloMining`,
which is what a failed start leaves the JDC in.

Properties:

- `JobsOnActivatingTip`: every `DeclareMiningJob` and `SetCustomMiningJob`
  the JDC sends pairs its template with the prev-hash that template builds
  on.
- `ActivatedDeclaredJobIsSent`: a cached declared job whose template the
  current tip activates has been sent to the JDS.
- `DeclaredAtMostOnce`: no declared job is sent twice.
- `CustomJobsSettle` (liveness): every cached custom job is eventually
  removed from `last_declare_job_store`, unless the JDC shuts down first.
- `InitialJobOnOpen` (action property): when the Pool channel comes up while
  the JDC holds a token and the tip that activated `last_future_template`, a
  job on that tip is sent or requested.
- `FallbackResolves` (liveness): every fallback the status loop starts ends
  with the loop running again. The specification bounds the wait for the
  subsystems by a 5 s timeout.

Fairness. The Pool answers every `SetCustomMiningJob`, the JDS every token
request, and the supervisor loop takes every status: these are weakly fair.
So is `FallbackTakenOut`: once every sender of `shutdown_complete` is
dropped, `recv()` returns. The TP and the downstreams are not fair, because
they may stay silent. The liveness properties depend only on Pool answers
and the supervisor.

`CHECK_DEADLOCK FALSE`. The JDC is reactive: once the TP, the downstreams and
the bounded template ids are used up, it waits for input. That is not a
deadlock of the code.

### `TproxySv1Channels`

This module models the translator's `Sv1Server`
(`miner-apps/translator/src/lib/sv1/sv1_server/sv1_server.rs`) as the owner
of its downstreams' upstream channels. It is composed with the translator's
supervisor (`miner-apps/translator/src/lib/mod.rs`, `TranslatorSv2::start`
and `initialize_upstream`). The server's main loop is one task (`start`,
with a `select!`). `accept`, `handle_downstream_message` and
`handle_upstream_message` run one at a time, so each is one atomic action.

| Model | Code |
|-------|------|
| `downstreams`, `downstream_id_factory` | the `downstreams` DashMap and its id counter |
| `channel_id`, `queued`, `upstream_target` | `DownstreamData::channel_id`, `queued_sv1_handshake_messages`, the upstream target |
| `request_id_factory`, `request_id_to_downstream_id` | the fields of the same names |
| `inbox`, `sent`, `handled` | the `downstream_to_sv1_server` channel, what each miner sent, and which message numbers the server handled |
| `open_requests`, `upstream_channels`, `channel_owner`, `pool_target`, `closed` | the channel manager and Pool side |
| `fallbacks` | upstream connections lost so far |
| `sup_pc` | where `start` is: the first `initialize_upstream`, the status loop, the wait for the fallback acknowledgement, `initialize_upstream` inside the loop, the wait for `shutdown_complete`, the end |
| `tried_or_flagged`, `attempt` | `UpstreamEntry::tried_or_flagged`, and the attempt number on the current entry |
| `status` | the status channel: the states sent, in order |
| `shutdown_all`, `init_error` | `ShutdownAll` broadcast; the error `initialize_upstream` returned |
| `upstream`, `sv1_running` | whether an upstream task and the Sv1Server's main loop run |
| `exhausted`, `ever_connected` | history: entries that failed `MAX_RETRIES` attempts, entries that once connected |

Sv1Server actions:

- `Accept` models the accept branch of `start`.
- `HandleDownstreamMessage` models `handle_downstream_message`. The first
  message before a channel exists calls `HandleOpenChannelRequest`
  (`handle_open_channel_request`), which calls `OpenExtendedMiningChannel`.
  Until the channel exists, every message is queued by
  `QueueHandshakeMessage`.
- `HandleOpenExtendedSuccess` models the `OpenExtendedMiningChannelSuccess`
  arm of `handle_upstream_message`. It drains the queue in order.
- `HandleDownstreamDisconnect` models `handle_downstream_disconnect`, with
  `RemoveDownstreams` for the removal.
- `PoolSetTarget` → `HandleSetTargetWithoutVardiff` models the `SetTarget`
  arm and `send_set_difficulty_to_all/specific_downstream(s)`.
- `Sv1StopOnSignal` is the shutdown and fallback branches of the main
  loop. Each runs `Sv1Cleanup` (`cleanup`) and leaves the loop.
  `Sv1ServerFails` is a handler error that `handle_error` makes fatal.
- `DownstreamSends` is the miner.
- `PoolAnswersOpen` is the translator's channel manager and Pool, modelled
  from the specification because their code is not under `src/`. Each
  request gets a Success that carries the channel's current target. That
  channel is a fresh one in non-aggregated mode and channel 1 in aggregated
  mode. `UpstreamLost` and `UpstreamStops` are the upstream task, also
  from the specification.

Supervisor actions:

- `AttemptFails`, `AttemptConnects` and `AllAttemptsFailed` are the steps
  of `initialize_upstream`. It walks the entries that are not flagged
  (`UnflaggedEntries`) and makes up to `MAX_RETRIES` attempts on each
  (`RetriesExhausted`). When an attempt connects, the Sv1Server is started
  and the entry is flagged. If the Sv1Server cannot bind, the error is
  returned without flagging. `InitializeUpstreamFails` is what `start`
  does with the error: `return` before the loop, `ShutdownAll` and
  `break` inside it.
- `SupDownstreamShutdown`, `SupSv1ServerShutdown` and
  `SupUpstreamShutdown` are the arms of the status loop. `NextStatusIs`
  takes the next status. `ChannelManagerShutdown` takes the same path as
  `Sv1ServerShutdown`. A miner's disconnect status, its broadcast and the
  Sv1Server's handling of it are merged into one step, because no other
  state depends on the broadcast in between.
- `FallbackAcknowledged` is `rx.recv()` returning once the Sv1Server has
  stopped. It is also when the channel manager drops its requests.
- `CtrlC`, `ShutdownComplete` and `ShutdownTimeout` are the Ctrl+C arm
  and the wait at the end of `start`.

Properties:

- `HandshakeInOrder`: every message of a connected miner is handled exactly
  once and in the order sent, across queueing and replay.
- `TargetFollowsPool`: for a miner with a channel, the upstream target the
  Sv1Server records (`downstream_data.upstream_target`) is the one the Pool
  last set on that channel. This is the translator's record, not the miner's
  difficulty. The `set_difficulty` sent after the open is built from the
  configured first target (`sv1_server.rs:612`).
- `GivesUpOnlyWhenExhausted`: `CouldNotInitiateSystem` comes only after
  every entry connected once or failed `MAX_RETRIES` times.
- `RequestsMatchUpstream`: while the Sv1Server runs on a live upstream, its
  pending request ids are exactly the opens that upstream has to answer.
  No request of a lost connection survives a fallback.
- `MessagesEventuallyHandled` (liveness): a message is handled unless the
  miner is removed or the translator stops.
- `FallbackResolves` (liveness): every `UpstreamShutdown` leads to a
  running Sv1Server on a connected upstream, or to the end of `start`.
- `NoOrphanChannel`: every open upstream channel has a connected owner or
  was closed. This one is violated (finding 4).

`config.aggregate_channels` is the variable `aggregate_channels`. Init
chooses it from `Modes` and no step changes it, so one run covers both
modes. Handlers are atomic because their channels are unbounded
`async_channel`s, so no `.await` after the first `recv` suspends, and
`select!` cannot drop a handler half-way.

Fairness:

- The main loop keeps polling its `select!` arms, so
  `HandleDownstreamMessage` and `Sv1StopOnSignal` are weakly fair.
- The channel manager answers every open, so `PoolAnswersOpen` is weakly
  fair.
- The supervisor task keeps running its loop and its `initialize_upstream`
  retries, so `SupervisorStep` is weakly fair.
- Miners, the Pool's `SetTarget`, lost connections and Ctrl+C are not fair.

Two things about this code are worth knowing:

- `lib/mod.rs` and `sv1_server.rs` come from different revisions. The
  supervisor still broadcasts `ShutdownMessage::UpstreamFallback{tx}` and
  waits on an mpsc acknowledgement. It calls `Sv1Server::start` with
  `(notify_shutdown, shutdown_complete_tx, status_sender, task_manager)`.
  But `sv1_server.rs`'s `start` takes a cancellation token and a
  `FallbackCoordinator`, and calls `fallback_handler.done()` after its
  cleanup. The model keeps what both revisions agree on: the fallback is
  signalled, the Sv1Server cleans up and stops, and the supervisor waits
  for it before it reconnects.
- `tried_or_flagged` is set on the entry that connected (`mod.rs:341`),
  and on an entry that failed `MAX_RETRIES` times (`:358`). It is never
  cleared. Over several fallbacks the list is used up, so an upstream that
  once worked is never tried again. Specification §5 says "the endpoint
  list is consumed once per fallback cycle". The model does what the code
  does, and `GivesUpOnlyWhenExhausted` is stated to match.

### `TproxySv1Jobs`

This module models the job store and `spawn_job_keepalive_loop`.

| Model | Code |
|-------|------|
| `prevhashes`, `valid_sv1_jobs`, `keepalive_job_id_counter` | the fields of the same names |
| `upstream_jobs` | `NewExtendedMiningJob`s received so far |
| `last_notify` | the last `mining.notify` each miner got |
| `due` | `last_job_received_time.elapsed() >= interval` |

How the data is abstracted:

- A job is a record: the original upstream job, a keepalive number (0 for
  the upstream job itself) and `ntime`.
- `ChannelOf` is `get_last_job`'s choice of list: channel 1 in aggregated
  mode, the miner's own channel otherwise.

| `sequence_counter`, `job_sent` | the share sequence counter; history of the upstream jobs stored, with channel and `ntime` |

Actions:

- `HandleSetNewPrevHash` and `HandleNewExtendedMiningJob` are the
  `handle_upstream_message` arms. A job without a prev-hash is dropped, and
  a clean job clears the list.
- `Tick` is the passing of time.
- `JobKeepalive` is one wake-up of the loop. A round contains no await, and
  the loop is polled from the main `select!`, so the round is atomic. It
  serves the due miners in every possible DashMap order, through the
  recursive `KeepaliveRound` and `KeepaliveFor`.
- `KeepaliveTime` is the `new_time` computation. `u32` is scaled to
  `U32Max`, and `SaturatingAdd` is `saturating_add` at that width.
- `HandleSubmitShares` is a miner's `mining.submit` reaching
  `handle_submit_shares` through `pending_share`. `SubmitSharesExtended`
  is the message it builds. A keepalive id is mapped back by
  `IsKeepaliveJobId` and `ExtractOriginalJobId`, and the share keeps the
  job's `ntime`. A miner may submit in any state, so the property checks
  the share each miner would submit in every state, rather than keeping a
  record of the shares.

Properties:

- `ShareNamesUpstreamJob`: every share forwarded upstream names the
  upstream job of its channel, never a keepalive id. Its `ntime` is between
  that job's `ntime` and that `ntime` plus `MAX_FUTURE_BLOCK_TIME`. This
  property is stated over the job history, so it also holds after a clean
  job has dropped the original from `valid_sv1_jobs`.
- `KeepaliveStep` (action property): each keepalive a miner gets advances
  its `ntime` by at most one interval.

There is no fairness, because no liveness property is checked.
`KeepaliveStep` fails in aggregated mode (finding 5). It holds with one
channel per miner, but no passing run states it. The passing run
`tproxy_keepalive` covers both modes and checks `ShareNamesUpstreamJob`.

Bounds: 2 miners, 3 upstream jobs, ntimes {0,2}, an interval of 1, a cap of
3, `U32Max` = 4 and one share. The cap is reached, the saturation is
reached (2+3 > 4), and two miners are due in the same round.

### `MonitoringCache`

This module models `stratum-apps/src/monitoring`: `SnapshotCache`, the
refresh task of `MonitoringServer::run`, `handle_prometheus_metrics` and
`paginate`.

| Model | Code |
|-------|------|
| `source` | what the application's `get_server` / `get_clients` / `get_sv1_clients` would return now: a set of channel ids |
| `snapshot`, `new_snapshot` | `SnapshotCache.snapshot` and `refresh`'s local `new_snapshot`: per source, the info list and the summary count |
| `refresh_pc`, `refresh_i` | where `refresh` is: which source, info or summary getter |
| `req_pc`, `req_snap`, `req_todo`, `served` | each `/metrics` handler: the snapshot it took, the series it still has to set, its last response |
| `series` | the per-channel gauge series in the shared Prometheus registry |

Each getter of `refresh` is its own step. Each getter takes the
application's lock on its own, and `get_server_summary` calls
`get_server()` again (`server.rs:84-93`). `BusinessUpdate`, the application
opening or closing a channel, can therefore fall between two getters. The
handler's four `reset()`s are one step, and each `set` is one step.

Properties:

- `SnapshotConsistent`: each cached summary counts the cached list.
- `CacheConverges` (liveness): once the application stops changing, the
  cache catches up.
- `MetricsMatchSnapshot`: a `/metrics` response lists exactly its
  snapshot's series.
- `PaginationSound`: over the cached lists, no page exceeds `MAX_LIMIT`,
  and walking the pages by the reported limit returns each item once, in
  order.

`DEFAULT_LIMIT` and `MAX_LIMIT` are scaled to 1 so that a two-channel list
spans pages and a limit above the cap occurs.

Fairness. `tokio::time::interval` keeps ticking, and a started handler
runs to its response. Both are weakly fair. Business updates and new
requests are not.

## 4. Runs

| Run | Config | Bounds | Result |
|-----|--------|--------|--------|
| `jdc_full_template` | `JdcTemplateFlow_FullTemplate.cfg` | FullTemplate, 1 downstream, 2 upstreams, 4 templates, 1 outstanding future | pass, 3.3M states, ~30 s |
| `jdc_coinbase_only` | `JdcTemplateFlow_CoinbaseOnly.cfg` | CoinbaseOnly, 2 downstreams, 2 upstreams, 3 templates | pass, 105k states, ~45 s, with `CustomJobsSettle` and `FallbackResolves` |
| `jdc_open_replay` | `JdcTemplateFlow_OpenReplay.cfg` | both modes, 1 downstream, 1 upstream, 2 templates | violation of `InitialJobOnOpen` (findings 1 and 2) |
| `jdc_solo_start_fallback` | `JdcTemplateFlow_SoloStartFallback.cfg` | CoinbaseOnly, start fails, 1 downstream, 1 upstream, 2 templates | violation of `FallbackResolves` (finding 8) |
| `jdc_two_futures` | `JdcTemplateFlow_TwoFutures.cfg` | FullTemplate, 3 templates, 2 outstanding futures | violation of `JobsOnActivatingTip` |
| `tproxy_channels` | `TproxySv1Channels_BothModes.cfg` | both channel modes, 2 miners, 2 messages each, targets {1,2}, 2 upstream entries, 1 lost connection | pass, 97k states, ~22 s, with two liveness properties |
| `tproxy_orphan_channel` | `TproxySv1Channels_OrphanChannel.cfg` | non-aggregated, 2 miners, 1 message, 1 upstream entry, no lost connection | violation of `NoOrphanChannel` |
| `tproxy_keepalive` | `TproxySv1Jobs_BothModes.cfg` | both channel modes, see `TproxySv1Jobs` | pass, 1.0M states, ~17 s |
| `tproxy_keepalive_step_aggregated` | `TproxySv1Jobs_AggregatedStep.cfg` | same, aggregated | violation of `KeepaliveStep` |
| `monitoring_translator` | `MonitoringCache_Translator.cfg` | server and Sv1 sources, 2 channel ids, 3 updates, 3 sequential /metrics requests, limits 1/1 | pass, 126k states |
| `monitoring_torn_snapshot` | `MonitoringCache_TornSnapshot.cfg` | server source, 1 channel, 1 update | violation of `SnapshotConsistent` |
| `monitoring_concurrent_metrics` | `MonitoringCache_ConcurrentMetrics.cfg` | server and clients sources, 2 concurrent /metrics requests | violation of `MetricsMatchSnapshot` |

Why the bounds are enough. Four templates with one outstanding future cover
every order of the following steps: a future template, its transactions, its
prev-hash and a later non-future template, with the Pool channel opening and
the token arriving before, between or after them. Two upstreams let a fallback
happen and be recovered from once. CoinbaseOnly needs two downstreams to reach
sibling custom jobs for the same template, whose Successes evict each other.

In the translator, two upstream entries and one lost connection are enough
for `initialize_upstream` to exhaust an entry (3 failed attempts), to move
on to the next one, and to run out of entries in a fallback. Two miners
with two messages each let one miner's handshake be queued while the
other's channel opens, on either side of a fallback.

### Findings

1. **Open replay loses the template (FullTemplate).**
   `handle_request_tx_data_success` removes the template from
   `template_store` before it checks for a token, a job factory and the Pool
   channel (`template_message_handler.rs:277-298`). Suppose the
   transactions of the future template arrive before the channel is open.
   Then the `RequestTransactionData` that
   `handle_open_extended_mining_channel_success` replays (`:230-242`) finds
   no template, and the new channel never gets a job on the current tip.
   TLC trace: downstream opens, future T1 arrives, T1's transactions arrive
   without a token, SetNewPrevHash(T1), the token arrives, channel open
   success. Run `jdc_open_replay` lets `Init` pick either mode and TLC
   reports finding 2's shorter trace; with `ConfigModes = {"FullTemplate"}`
   it reports this one.
2. **Open replay uses the old job factory (CoinbaseOnly).** The initial
   `SetCustomMiningJob` on channel open is built from `data.job_factory`
   before the handler assigns the new one
   (`upstream_message_handler.rs:160-206`). On the first open this is `None`,
   so no custom job is sent (run `jdc_open_replay`).
3. **Two outstanding future templates.** `handle_set_new_prev_hash` selects
   the declared job and the custom-job template by `last_future_template`,
   not by `msg.template_id` (`template_message_handler.rs:408-415`,
   `445-451`). If the TP sends two future templates and then activates the
   first, the JDC declares the second on the first one's prev-hash. With one
   outstanding future template, which is what Bitcoin Core's TP does today,
   the property holds.

4. **Orphan upstream channel (translator, non-aggregated).**
   `handle_downstream_disconnect` sends `CloseChannel` only when the miner
   already has a `channel_id` (`sv1_server.rs:802`). A miner that
   disconnects while its `OpenExtendedMiningChannel` is outstanding gets no
   close. When the Success arrives, the server only logs that the downstream
   is gone (`:546`), so the channel stays open at the Pool. The
   specification says channels are destroyed when the downstream
   disconnects. A later `SetTarget` on that channel does close it.
5. **Keepalive steps compound in aggregated mode.** All miners share
   `valid_sv1_jobs[1]`. Within one round, each target reads `get_last_job`
   after the previous target pushed its keepalive (`sv1_server.rs:1078`).
   The k-th due miner therefore gets `ntime` advanced by k intervals, and
   the 2-hour cap is reached up to N times sooner, after which keepalives
   stop. The specification says `ntime` increments by the interval. TLC
   trace: job ntime 0 and both miners due; one round sends ntime 1 to the
   first miner and ntime 2 to the second.

6. **Torn monitoring snapshot.** `refresh` calls `get_server()` and then
   `get_server_summary()`, which calls `get_server()` again under a
   separate lock (`snapshot_cache.rs:150-151`, likewise for clients at
   `:157-158`). A channel opened in between leaves a cached summary that
   does not count the cached list. The specification calls this an atomic
   snapshot, and the code calls it a point-in-time copy
   (`snapshot_cache.rs:48`).
7. **Concurrent `/metrics` scrapes.** `handle_prometheus_metrics` resets
   the shared per-channel gauges and then repopulates them without a lock
   (`http_server.rs:752-875`). If a second scrape's reset lands between the
   first scrape's `set`s and its `gather`, the first response omits
   channels that are open.
8. **Fallback after a failed start hangs the JDC.** When the first
   `initialize_jd` fails, `start` keeps its own `shutdown_complete_tx`
   (`mod.rs:301-304`) and the JDC mines solo. A later error still reaches
   the status loop as a fallback, for instance from the prev-hash fan-out
   to an open downstream channel (`template_message_handler.rs:493-582`).
   The fallback arm then waits on `shutdown_complete_rx.recv()`
   (`mod.rs:356`), which never returns while `start` holds a sender; the
   loop no longer reads Ctrl+C or statuses. The specification bounds this
   wait by a 5 s timeout. TLC trace: start fails, a downstream opens a
   channel, a future template and its prev-hash arrive, the fan-out fails,
   the supervisor starts the fallback and stops there. Ctrl+C does not
   help either. The loop's earlier `tokio::signal::ctrl_c()` calls have
   replaced SIGINT's default action, and no listener exists while the
   loop waits, so the process has to be killed.

## 5. Not modelled, and why

- A Ctrl+C pressed while the JDC's status loop is inside the fallback arm
  is lost, because `ctrl_c()` only fires for presses made after it is
  created (hazard at `mod.rs:328`). This needs a flag for a pressed but
  unread Ctrl+C, and a violation run of its own. The project already uses
  its twelve runs for the findings above.
- A liveness property for the translator's keepalive loop (every due miner
  below the cap is served) was tried. Under `WF(JobKeepalive)` at the
  bounds of `tproxy_keepalive`, TLC did not finish within 15 minutes.

- Coinbase construction, merkle roots, share validation and difficulty
  arithmetic: data transformations done by the `stratum-core` channels
  library, which is not part of this repository.
- Noise handshake, TCP transport and message framing: I/O.
- Configuration parsing, monitoring adapters and data types: no state
  changes.
- The monitoring JSON handlers besides `paginate`: each reads one snapshot
  and formats it. The uptime subtraction depends on the host's wall clock,
  which is not modelled.
- Translator vardiff: not modelled. The share's sequence number and the
  TLV user identity are left out of `SubmitSharesExtended`, because no
  property reads them.
- The translator's channel manager and upstream task: not under `src/`.
  They appear only as the answers and events the Sv1Server and the
  supervisor react to.
- Integration tests and mock roles: the test harness.
- The modules listed in the plan that are not built yet. See
  `PROJECT.json`, whose `components` and `hazards` say which parts and
  hazards are still open.
