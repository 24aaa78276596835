--------------------------- MODULE MonitoringCache ---------------------------
(***************************************************************************)
(* The monitoring library shared by the applications                       *)
(* (stratum-apps/src/monitoring): the SnapshotCache that a background task *)
(* refreshes from the applications' monitoring sources every interval, and *)
(* the HTTP handlers that read it: /metrics (handle_prometheus_metrics)    *)
(* and the paginated JSON lists (paginate).                                *)
(*                                                                         *)
(* A source (server = upstream channels, clients = Sv2 downstreams, sv1 =  *)
(* Sv1 miners) is the set of channel ids the application holds; each of    *)
(* its getters takes the application's lock on its own, so the business   *)
(* logic may change the source between two getters of one refresh.        *)
(* get_*_summary is the trait's default: a fresh get_*() reduced to        *)
(* counts, so a summary is the number of channels.  Hashrates, share      *)
(* counts and user identities are left out: no property tells them apart.  *)
(* HTTP handlers run concurrently on the runtime's worker threads; each    *)
(* gauge operation is atomic, the handler as a whole is not.               *)
(***************************************************************************)
EXTENDS Naturals, Sequences, FiniteSets, SequencesExt

CONSTANTS
    Configured,        \* the sources given to SnapshotCache::new / with_sv1_clients_source
    ChannelIds,        \* channel ids the applications may hold
    MaxUpdates,        \* business-logic channel opens/closes over the run
    Requests,          \* concurrent /metrics connections
    MaxRequests,       \* /metrics requests over the run
    DefaultLimit,      \* DEFAULT_LIMIT (25), scaled
    MaxLimit           \* MAX_LIMIT (100), scaled

\* The order refresh collects the sources in.
SourceOrder == <<"server", "clients", "sv1">>
Sources == ToSet(SourceOrder)
\* Sources whose channels have per-channel gauges, which /metrics resets.
PerChannelSources == {"server", "clients"}

ASSUME Configured \subseteq Sources /\ Configured # {}
ASSUME MaxLimit >= DefaultLimit /\ DefaultLimit > 0

\* refresh visits the configured sources in SourceOrder.
Collected == SelectSeq(SourceOrder, LAMBDA s : s \in Configured)

\* ServerMonitoring::get_server_summary (and the clients' and Sv1 clients'
\* default summaries): counts of a fresh get_*() result.
SummaryOf(chans) == Cardinality(chans)

\* A snapshot entry: the info list and the summary, as refresh stored them.
Entry == [info : SUBSET ChannelIds, summary : 0..Cardinality(ChannelIds)]
EmptyEntry == [info |-> {}, summary |-> 0]

VARIABLES
    source,            \* source -> channels the application holds now
    updates,
    snapshot,          \* SnapshotCache.snapshot: source -> Entry
    refresh_pc,        \* "idle", "info", "summary"
    refresh_i,         \* index in Collected of the source being read
    new_snapshot,      \* refresh's local new_snapshot
    req_pc,            \* request -> "idle", "reset", "populate"
    req_snap,          \* request -> snapshot its handler took
    req_todo,          \* request -> series it has still to set
    served,            \* request -> series of its last response, or {} before
    answered,          \* request -> whether it has answered at least once
    requests,
    series             \* per-channel gauge series in the registry: <<source, channel>>

vars == <<source, updates, snapshot, refresh_pc, refresh_i, new_snapshot,
          req_pc, req_snap, req_todo, served, answered, requests, series>>

NoSnapshot == [s \in Configured |-> EmptyEntry]

\* MonitoringServer::new: the cache is created and refreshed once before
\* the server runs, while the application holds no channel yet.
Init ==
    /\ source = [s \in Configured |-> {}]
    /\ updates = 0
    /\ snapshot = NoSnapshot
    /\ refresh_pc = "idle"
    /\ refresh_i = 1
    /\ new_snapshot = NoSnapshot
    /\ req_pc = [r \in Requests |-> "idle"]
    /\ req_snap = [r \in Requests |-> NoSnapshot]
    /\ req_todo = [r \in Requests |-> {}]
    /\ served = [r \in Requests |-> {}]
    /\ answered = [r \in Requests |-> FALSE]
    /\ requests = 0
    /\ series = {}

RefreshVars == <<snapshot, refresh_pc, refresh_i, new_snapshot>>
RequestVars == <<req_pc, req_snap, req_todo, served, answered, requests, series>>

-----------------------------------------------------------------------------
(* The applications and the refresh task                                   *)

\* The business logic opens or closes a channel of one source.
BusinessUpdate ==
    /\ updates < MaxUpdates
    /\ \E s \in Configured, c \in ChannelIds :
          source' = [source EXCEPT ![s] = IF c \in @ THEN @ \ {c} ELSE @ \cup {c}]
    /\ updates' = updates + 1
    /\ UNCHANGED <<RefreshVars, RequestVars>>

\* run's background task: interval.tick() fires and refresh starts with a
\* fresh, empty new_snapshot.
RefreshTick ==
    /\ refresh_pc = "idle"
    /\ refresh_pc' = "info"
    /\ refresh_i' = 1
    /\ new_snapshot' = NoSnapshot
    /\ UNCHANGED <<source, updates, snapshot, RequestVars>>

\* refresh: new_snapshot.<s>_info = Some(source.get_*()).
CollectInfo ==
    LET s == Collected[refresh_i] IN
    /\ refresh_pc = "info"
    /\ new_snapshot' = [new_snapshot EXCEPT ![s].info = source[s]]
    /\ refresh_pc' = "summary"
    /\ UNCHANGED <<source, updates, snapshot, refresh_i, RequestVars>>

\* Whether source i is the last one refresh collects.
\* Mutant: the loop stops one source early.
LastCollected_OffByOne(i) == i + 1 >= Len(Collected)
\* Mutant: the loop runs one source past the end.
LastCollected_PastEnd(i) == i > Len(Collected)
LastCollected(i) == i >= Len(Collected)

\* refresh: new_snapshot.<s>_summary = Some(source.get_*_summary()), then
\* the next configured source; after the last one the cache is replaced
\* under the write lock (*self.snapshot.write() = new_snapshot).
CollectSummary ==
    LET s == Collected[refresh_i]
        filled == [new_snapshot EXCEPT ![s].summary = SummaryOf(source[s])]
    IN
    /\ refresh_pc = "summary"
    /\ IF LastCollected(refresh_i)
       THEN /\ snapshot' = filled
            /\ new_snapshot' = filled
            /\ refresh_pc' = "idle"
            /\ UNCHANGED refresh_i
       ELSE /\ new_snapshot' = filled
            /\ refresh_pc' = "info"
            /\ refresh_i' = refresh_i + 1
            /\ UNCHANGED snapshot
    /\ UNCHANGED <<source, updates, RequestVars>>

-----------------------------------------------------------------------------
(* /metrics: handle_prometheus_metrics                                     *)

\* The per-channel series a snapshot yields: one per server channel and per
\* Sv2 client channel (the Sv1 clients only have totals).
SeriesOf(snap) ==
    {<<s, c>> \in (Configured \cap PerChannelSources) \X ChannelIds :
        c \in snap[s].info}

\* The handler takes state.cache.get_snapshot() (and the uptime).
PrometheusSnapshot(r) ==
    /\ req_pc[r] = "idle"
    /\ requests < MaxRequests
    /\ requests' = requests + 1
    /\ req_snap' = [req_snap EXCEPT ![r] = snapshot]
    /\ req_pc' = [req_pc EXCEPT ![r] = "reset"]
    /\ UNCHANGED <<source, updates, RefreshVars, req_todo, served, answered, series>>

\* Mutant: the per-channel gauges are not reset.
PrometheusReset_Skip(r) ==
    /\ req_pc[r] = "reset"
    /\ req_todo' = [req_todo EXCEPT ![r] = SeriesOf(req_snap[r])]
    /\ req_pc' = [req_pc EXCEPT ![r] = "populate"]
    /\ UNCHANGED <<source, updates, RefreshVars, req_snap, served, answered,
                   requests, series>>

\* "Reset per-channel metrics before repopulating": metric.reset() on the
\* per-channel families (the four resets as one step); the series of the
\* handler's snapshot are what it will set.
PrometheusReset(r) ==
    /\ req_pc[r] = "reset"
    /\ series' = {}
    /\ req_todo' = [req_todo EXCEPT ![r] = SeriesOf(req_snap[r])]
    /\ req_pc' = [req_pc EXCEPT ![r] = "populate"]
    /\ UNCHANGED <<source, updates, RefreshVars, req_snap, served, answered,
                   requests>>

\* One with_label_values(..).set(..) of the loops over the snapshot's server
\* and client channels.
PrometheusPopulate(r) ==
    /\ req_pc[r] = "populate"
    /\ \E x \in req_todo[r] :
          /\ series' = series \cup {x}
          /\ req_todo' = [req_todo EXCEPT ![r] = @ \ {x}]
    /\ UNCHANGED <<source, updates, RefreshVars, req_pc, req_snap, served,
                   answered, requests>>

\* registry.gather() and the encoded response: every series in the shared
\* registry at that moment.
PrometheusGather(r) ==
    /\ req_pc[r] = "populate"
    /\ req_todo[r] = {}
    /\ served' = [served EXCEPT ![r] = series]
    /\ answered' = [answered EXCEPT ![r] = TRUE]
    /\ req_pc' = [req_pc EXCEPT ![r] = "idle"]
    /\ UNCHANGED <<source, updates, RefreshVars, req_snap, req_todo, requests,
                   series>>

-----------------------------------------------------------------------------

Next ==
    \/ BusinessUpdate
    \/ RefreshTick
    \/ CollectInfo
    \/ CollectSummary
    \/ \E r \in Requests :
          \/ PrometheusSnapshot(r)
          \/ PrometheusReset(r)
          \/ PrometheusPopulate(r)
          \/ PrometheusGather(r)

\* tokio::time::interval keeps ticking and refresh runs to its end; a
\* handler that has started runs to its response.  Business updates and
\* new requests are not fair.
Fairness ==
    /\ WF_vars(RefreshTick) /\ WF_vars(CollectInfo) /\ WF_vars(CollectSummary)
    /\ \A r \in Requests :
          /\ WF_vars(PrometheusReset(r))
          /\ WF_vars(PrometheusPopulate(r))
          /\ WF_vars(PrometheusGather(r))

Spec == Init /\ [][Next]_vars /\ Fairness

-----------------------------------------------------------------------------
(* Pagination of the JSON lists (paginate, Pagination::effective_limit)    *)

\* The limit query parameter: Option<usize>.
LimitParams == [present : {FALSE}, value : {0}]
                 \cup [present : {TRUE}, value : 0..(MaxLimit + 1)]

MinOf(a, b) == IF a <= b THEN a ELSE b

\* Mutant: a requested limit is not capped at MAX_LIMIT.
EffectiveLimit_NoCap(limit) == IF limit.present THEN limit.value ELSE DefaultLimit

\* Pagination::effective_limit: limit.map(|l| l.min(MAX_LIMIT))
\* .unwrap_or(DEFAULT_LIMIT).
EffectiveLimit(limit) ==
    IF limit.present THEN MinOf(limit.value, MaxLimit) ELSE DefaultLimit

\* Iterator::skip and Iterator::take over a list.
RECURSIVE SkipItems(_, _)
SkipItems(items, n) ==
    IF n = 0 \/ items = <<>> THEN items ELSE SkipItems(Tail(items), n - 1)

RECURSIVE TakeItems(_, _)
TakeItems(items, n) ==
    IF n = 0 \/ items = <<>> THEN <<>>
    ELSE <<Head(items)>> \o TakeItems(Tail(items), n - 1)

\* paginate: (total, items.skip(offset.min(total)).take(limit)), and the
\* response the list handlers build from it, which reports
\* params.effective_limit() as its limit.
Paginate(items, offset, limit) ==
    [total |-> Len(items),
     limit |-> EffectiveLimit(limit),
     items |-> TakeItems(SkipItems(items, MinOf(offset, Len(items))),
                         EffectiveLimit(limit))]

\* A client walking the list from offset 0, stepping by the limit each
\* response reports, until a page comes back empty.
RECURSIVE WalkPages(_, _, _)
WalkPages(items, offset, limit) ==
    LET resp == Paginate(items, offset, limit) IN
    IF resp.items = <<>> THEN <<>>
    ELSE resp.items \o WalkPages(items, offset + resp.limit, limit)

-----------------------------------------------------------------------------
(* Properties                                                              *)

TypeOK ==
    /\ source \in [Configured -> SUBSET ChannelIds]
    /\ updates \in 0..MaxUpdates
    /\ snapshot \in [Configured -> Entry]
    /\ refresh_pc \in {"idle", "info", "summary"}
    /\ refresh_i \in 1..Len(Collected)
    /\ new_snapshot \in [Configured -> Entry]
    /\ req_pc \in [Requests -> {"idle", "reset", "populate"}]
    /\ req_snap \in [Requests -> [Configured -> Entry]]
    /\ req_todo \in [Requests -> SUBSET (PerChannelSources \X ChannelIds)]
    /\ served \in [Requests -> SUBSET (PerChannelSources \X ChannelIds)]
    /\ answered \in [Requests -> BOOLEAN]
    /\ requests \in 0..MaxRequests
    /\ series \subseteq PerChannelSources \X ChannelIds

\* The cached snapshot is a point-in-time copy: each source's summary
\* counts exactly the channels of the info list stored beside it, although
\* refresh reads them with two getters (get_server, get_server_summary).
SnapshotConsistent ==
    \A s \in Configured : snapshot[s].summary = SummaryOf(snapshot[s].info)

\* Once the applications stop changing, the refresh task brings every
\* configured source of the cache up to date and it stays so.
CacheConverges ==
    <>[](\A s \in Configured :
            snapshot[s] = [info |-> source[s], summary |-> SummaryOf(source[s])])

\* A /metrics response lists exactly the per-channel series of the
\* snapshot its handler took: the reset removes the series of channels
\* closed since an earlier response, and nothing another handler set leaks
\* in.
MetricsMatchSnapshot ==
    \A r \in Requests :
        (answered[r] /\ req_pc[r] = "idle") => served[r] = SeriesOf(req_snap[r])

\* The list handlers (server channels, clients, Sv1 clients) page a list of
\* the cached snapshot: no page holds more than MAX_LIMIT items, and walking
\* the pages by the limit each response reports returns every item once, in
\* order (for any limit other than 0, which returns nothing).
PaginationSound ==
    \A s \in Configured, l \in LimitParams :
        LET items == SetToSortSeq(snapshot[s].info, <) IN
        /\ \A o \in 0..(Len(items) + 1) : Len(Paginate(items, o, l).items) <= MaxLimit
        /\ (l.present => l.value > 0) => WalkPages(items, 0, l) = items

====
