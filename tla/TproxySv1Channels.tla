-------------------------- MODULE TproxySv1Channels --------------------------
(***************************************************************************)
(* The translator's Sv1Server (sv1_server.rs) as the owner of its Sv1      *)
(* downstreams' upstream channels: a downstream's first Sv1 message asks   *)
(* the channel manager for an extended channel and every message until the *)
(* answer is queued; OpenExtendedMiningChannelSuccess installs the channel *)
(* and replays the queue; a disconnect removes the downstream and, in      *)
(* non-aggregated mode, closes its channel; SetTarget (vardiff disabled)   *)
(* is propagated to the downstreams of the channel.                        *)
(*                                                                         *)
(* The Sv1Server main loop is one task: accept, handle_downstream_message  *)
(* and handle_upstream_message run one at a time, so each is one action.  *)
(* The translator's channel manager and the Pool behind it (not under      *)
(* src/) are abstracted to: every OpenExtendedMiningChannel is eventually  *)
(* answered with a Success carrying the channel's current target, on a    *)
(* fresh channel (non-aggregated) or on the one shared channel            *)
(* (aggregated).                                                           *)
(*                                                                         *)
(* The translator's supervisor (lib/mod.rs, TranslatorSv2::start) is      *)
(* composed with it: initialize_upstream walks the upstream list with up  *)
(* to MAX_RETRIES attempts per entry and starts the Sv1Server on the      *)
(* first that connects; the status loop turns a DownstreamShutdown status *)
(* into the broadcast that makes the Sv1Server drop the miner, an         *)
(* UpstreamShutdown into a fallback (broadcast, wait for the              *)
(* acknowledgement, initialize_upstream again) and a subsystem failure or *)
(* Ctrl+C into ShutdownAll, after which it waits for the subsystems or    *)
(* for the 5 s timeout.  The upstream connection itself (not under src/)  *)
(* is reduced to: an attempt connects or fails, and a connection may be   *)
(* lost, which sends one UpstreamShutdown status.                         *)
(***************************************************************************)
EXTENDS Naturals, Sequences, FiniteSets, FiniteSetsExt, Functions, TLC

CONSTANTS
    Modes,             \* values config.aggregate_channels may have
    MaxDownstreams,    \* Sv1 connections accepted over the run
    MaxMessages,       \* Sv1 messages each downstream sends
    Targets,           \* upstream targets the Pool may set
    MaxFallbacks,      \* upstream connections lost over the run
    NumUpstreams       \* entries of config.upstreams

ASSUME Modes \subseteq BOOLEAN /\ Modes # {}
ASSUME MaxDownstreams \in Nat \ {0} /\ MaxMessages \in Nat \ {0}
ASSUME Targets # {} /\ MaxFallbacks \in Nat /\ NumUpstreams \in Nat \ {0}

NoChannel == 0                          \* downstream_data.channel_id = None
AGGREGATED_CHANNEL_ID == 1
DownstreamIds == 1..MaxDownstreams
ChannelIds == 1..MaxDownstreams
\* request ids start at 1 and one is spent per downstream's first message
RequestIds == 1..MaxDownstreams
\* the target a downstream_data holds before its channel's Success
InitialTarget == CHOOSE t \in Targets : TRUE
MAX_RETRIES == 3                        \* initialize_upstream
UpstreamIdx == 1..NumUpstreams
\* status.state values the status loop matches on, besides a downstream's
\* DownstreamShutdown (see SupDownstreamShutdown)
StatusKinds == {"Sv1ServerShutdown", "UpstreamShutdown"}
\* the supervisor's place in start: initialize_upstream before the loop,
\* the select! loop, the wait for the fallback acknowledgement,
\* initialize_upstream inside the loop, the wait for shutdown_complete
SupervisorPcs == {"Starting", "Running", "AwaitAck", "Reconnecting",
                  "Draining", "Done"}

VARIABLES
    aggregate_channels,     \* config.aggregate_channels, fixed for the run
    \* Sv1Server
    downstreams,            \* ids in the downstreams DashMap
    downstream_id_factory,
    channel_id,             \* downstream id -> downstream_data.channel_id
    queued,                 \* downstream id -> queued_sv1_handshake_messages
    upstream_target,        \* downstream id -> downstream_data upstream target
    request_id_factory,
    request_id_to_downstream_id,   \* a function with a partial domain
    \* the Sv1 side: what each downstream sent and what the server handled
    inbox,                  \* downstream_to_sv1_server channel: <<id, n>>
    sent,                   \* downstream id -> messages it sent
    handled,                \* downstream id -> message numbers handled, in order
    \* channel manager / Pool side
    open_requests,          \* request ids of OpenExtendedMiningChannel in flight
    upstream_channels,      \* channels open at the Pool
    channel_owner,          \* channel -> downstream it was opened for
    pool_target,            \* channel -> target the Pool last set
    closed,                 \* channels a CloseChannel was sent for
    fallbacks,              \* upstream connections lost so far
    \* supervisor (lib/mod.rs)
    sup_pc,
    tried_or_flagged,       \* UpstreamEntry.tried_or_flagged per entry
    attempt,                \* failed attempts on the entry being tried
    exhausted,              \* history: entries that failed MAX_RETRIES attempts
    status,                 \* status channel: the states sent, in order
    shutdown_all,           \* ShutdownMessage::ShutdownAll was broadcast
    init_error,             \* the error initialize_upstream returned, if any
    \* the upstream connection and the Sv1Server task
    upstream,               \* "None", "Up" or "Lost"
    sv1_running,            \* the Sv1Server select! loop is running
    ever_connected          \* history: entries that connected at some time

\* The Sv1Server's own variables; aggregate_channels never changes, so the
\* fairness of its steps is stated over these.
server_vars == <<downstreams, downstream_id_factory, channel_id, queued,
                 upstream_target, request_id_factory, request_id_to_downstream_id,
                 inbox, sent, handled, open_requests, upstream_channels,
                 channel_owner, pool_target, closed, fallbacks>>
sup_vars == <<sup_pc, tried_or_flagged, attempt, exhausted, status,
              shutdown_all, init_error, upstream, sv1_running, ever_connected>>
vars == <<aggregate_channels, server_vars, sup_vars>>

Init ==
    /\ aggregate_channels \in Modes
    /\ downstreams = {}
    /\ downstream_id_factory = 1
    /\ channel_id = [d \in DownstreamIds |-> NoChannel]
    /\ queued = [d \in DownstreamIds |-> <<>>]
    /\ upstream_target = [d \in DownstreamIds |-> InitialTarget]
    /\ request_id_factory = 1
    /\ request_id_to_downstream_id = <<>>
    /\ inbox = <<>>
    /\ sent = [d \in DownstreamIds |-> 0]
    /\ handled = [d \in DownstreamIds |-> <<>>]
    /\ open_requests = {}
    /\ upstream_channels = {}
    /\ channel_owner = <<>>
    /\ \E t \in Targets : pool_target = [c \in ChannelIds |-> t]
    /\ closed = {}
    /\ fallbacks = 0
    \* start: every configured upstream becomes an entry not yet tried, and
    \* initialize_upstream runs before the Sv1Server exists
    /\ sup_pc = "Starting"
    /\ tried_or_flagged = [i \in UpstreamIdx |-> FALSE]
    /\ attempt = 0
    /\ exhausted = {}
    /\ status = <<>>
    /\ shutdown_all = FALSE
    /\ init_error = "None"
    /\ upstream = "None"
    /\ sv1_running = FALSE
    /\ ever_connected = {}

-----------------------------------------------------------------------------
(* Downstream side                                                         *)

\* start, listener.accept(): a fresh downstream id is registered with no
\* channel; the channel is opened after its first message.
Accept ==
    LET id == downstream_id_factory IN
    /\ sv1_running
    /\ id <= MaxDownstreams
    /\ downstreams' = downstreams \cup {id}
    /\ downstream_id_factory' = id + 1
    /\ channel_id' = [channel_id EXCEPT ![id] = NoChannel]
    /\ UNCHANGED <<queued, upstream_target, request_id_factory,
                   request_id_to_downstream_id, inbox, sent, handled,
                   open_requests, upstream_channels, channel_owner,
                   pool_target, closed, fallbacks>>
    /\ UNCHANGED sup_vars

\* A connected miner sends its next Sv1 message (subscribe, configure,
\* authorize, submit) to the Sv1Server (the downstream reader task, not
\* under src/).
DownstreamSends(d) ==
    /\ d \in downstreams
    /\ sup_pc # "Done"
    /\ sent[d] < MaxMessages
    /\ sent' = [sent EXCEPT ![d] = @ + 1]
    /\ inbox' = Append(inbox, <<d, sent[d] + 1>>)
    /\ UNCHANGED <<downstreams, downstream_id_factory, channel_id, queued,
                   upstream_target, request_id_factory,
                   request_id_to_downstream_id, handled, open_requests,
                   upstream_channels, channel_owner, pool_target, closed,
                   fallbacks>>
    /\ UNCHANGED sup_vars

\* Mutant: the message that triggers the channel open is not queued.
QueueHandshakeMessage_DropFirst(q, n) == IF q = <<>> THEN q ELSE Append(q, n)

\* handle_downstream_message: the message is pushed onto
\* queued_sv1_handshake_messages while the channel is not open.
QueueHandshakeMessage(q, n) == Append(q, n)

\* open_extended_mining_channel: OpenExtendedMiningChannel with request id r
\* (user identity, hashrate and max target left out) goes to the channel
\* manager.
OpenExtendedMiningChannel(r) == open_requests' = open_requests \cup {r}

\* handle_open_channel_request: a fresh request id is mapped to the
\* downstream before the channel is requested.
HandleOpenChannelRequest(d) ==
    LET r == request_id_factory IN
    /\ request_id_factory' = r + 1
    /\ request_id_to_downstream_id' = (r :> d) @@ request_id_to_downstream_id
    /\ OpenExtendedMiningChannel(r)

\* handle_downstream_message: a message of a removed downstream is dropped;
\* without a channel, the first message (empty queue) sends
\* OpenExtendedMiningChannel through handle_open_channel_request, and the
\* message is queued; with a channel it is handled at once.
HandleDownstreamMessage ==
    /\ sv1_running
    /\ inbox # <<>>
    /\ LET d == Head(inbox)[1]
           n == Head(inbox)[2]
       IN
       /\ inbox' = Tail(inbox)
       /\ IF d \notin downstreams
          THEN UNCHANGED <<queued, handled, request_id_factory,
                           request_id_to_downstream_id, open_requests>>
          ELSE IF channel_id[d] = NoChannel
          THEN /\ IF queued[d] = <<>>
                  THEN HandleOpenChannelRequest(d)
                  ELSE UNCHANGED <<request_id_factory,
                                   request_id_to_downstream_id, open_requests>>
               /\ queued' = [queued EXCEPT ![d] = QueueHandshakeMessage(@, n)]
               /\ UNCHANGED handled
          ELSE /\ handled' = [handled EXCEPT ![d] = Append(@, n)]
               /\ UNCHANGED <<queued, request_id_factory,
                              request_id_to_downstream_id, open_requests>>
    /\ UNCHANGED <<downstreams, downstream_id_factory, channel_id,
                   upstream_target, sent, upstream_channels, channel_owner,
                   pool_target, closed, fallbacks>>
    /\ UNCHANGED sup_vars

\* The downstreams ds leave the downstreams map with their downstream_data
\* (channel id, queued handshake, target); the miner's side of the
\* connection (what it sent and saw handled) goes with them.
RemoveDownstreams(ds) ==
    /\ downstreams' = downstreams \ ds
    /\ channel_id' = [d \in DownstreamIds |->
                          IF d \in ds THEN NoChannel ELSE channel_id[d]]
    /\ queued' = [d \in DownstreamIds |-> IF d \in ds THEN <<>> ELSE queued[d]]
    /\ upstream_target' = [d \in DownstreamIds |->
                              IF d \in ds THEN InitialTarget
                              ELSE upstream_target[d]]
    /\ sent' = [d \in DownstreamIds |-> IF d \in ds THEN 0 ELSE sent[d]]
    /\ handled' = [d \in DownstreamIds |-> IF d \in ds THEN <<>> ELSE handled[d]]

\* handle_downstream_disconnect: the downstream is removed and, in
\* non-aggregated mode, CloseChannel is sent for its channel if it has one.
HandleDownstreamDisconnect(d) ==
    /\ RemoveDownstreams({d})
    /\ closed' = IF d \in downstreams /\ channel_id[d] # NoChannel
                    /\ ~aggregate_channels
                 THEN closed \cup {channel_id[d]} ELSE closed
    /\ UNCHANGED <<downstream_id_factory, request_id_factory,
                   request_id_to_downstream_id, inbox, open_requests,
                   upstream_channels, channel_owner, pool_target, fallbacks>>

-----------------------------------------------------------------------------
(* Channel manager side (handle_upstream_message)                          *)

\* Mutant: the queue is replayed but not cleared.
HandleOpenExtendedSuccess_KeepQueue(r, c) ==
    LET d == request_id_to_downstream_id[r] IN
    /\ r \in DOMAIN request_id_to_downstream_id
    /\ request_id_to_downstream_id' =
           Restrict(request_id_to_downstream_id,
                    DOMAIN request_id_to_downstream_id \ {r})
    /\ IF d \in downstreams
       THEN /\ channel_id' = [channel_id EXCEPT ![d] = c]
            /\ upstream_target' = [upstream_target EXCEPT ![d] = pool_target[c]]
            /\ handled' = [handled EXCEPT ![d] = @ \o queued[d]]
            /\ UNCHANGED queued
       ELSE UNCHANGED <<channel_id, upstream_target, handled, queued>>

\* Mutant: the Success's target is not installed.
HandleOpenExtendedSuccess_NoInitialTarget(r, c) ==
    LET d == request_id_to_downstream_id[r] IN
    /\ r \in DOMAIN request_id_to_downstream_id
    /\ request_id_to_downstream_id' =
           Restrict(request_id_to_downstream_id,
                    DOMAIN request_id_to_downstream_id \ {r})
    /\ IF d \in downstreams
       THEN /\ channel_id' = [channel_id EXCEPT ![d] = c]
            /\ handled' = [handled EXCEPT ![d] = @ \o queued[d]]
            /\ queued' = [queued EXCEPT ![d] = <<>>]
            /\ UNCHANGED upstream_target
       ELSE UNCHANGED <<channel_id, upstream_target, handled, queued>>

\* Mutant: the queue is cleared without handling its messages.
HandleOpenExtendedSuccess_DropQueue(r, c) ==
    LET d == request_id_to_downstream_id[r] IN
    /\ r \in DOMAIN request_id_to_downstream_id
    /\ request_id_to_downstream_id' =
           Restrict(request_id_to_downstream_id,
                    DOMAIN request_id_to_downstream_id \ {r})
    /\ IF d \in downstreams
       THEN /\ channel_id' = [channel_id EXCEPT ![d] = c]
            /\ upstream_target' = [upstream_target EXCEPT ![d] = pool_target[c]]
            /\ queued' = [queued EXCEPT ![d] = <<>>]
            /\ UNCHANGED handled
       ELSE UNCHANGED <<channel_id, upstream_target, handled, queued>>

\* handle_upstream_message, OpenExtendedMiningChannelSuccess: the request
\* id is taken out of request_id_to_downstream_id; when the downstream is
\* still registered it gets the channel, the Success's target as upstream
\* target, and its queued handshake messages are handled in order; when it
\* is gone the Success is only logged.
HandleOpenExtendedSuccess(r, c) ==
    LET d == request_id_to_downstream_id[r] IN
    /\ r \in DOMAIN request_id_to_downstream_id
    /\ request_id_to_downstream_id' =
           Restrict(request_id_to_downstream_id,
                    DOMAIN request_id_to_downstream_id \ {r})
    /\ IF d \in downstreams
       THEN /\ channel_id' = [channel_id EXCEPT ![d] = c]
            /\ upstream_target' = [upstream_target EXCEPT ![d] = pool_target[c]]
            /\ handled' = [handled EXCEPT ![d] = @ \o queued[d]]
            /\ queued' = [queued EXCEPT ![d] = <<>>]
       ELSE UNCHANGED <<channel_id, upstream_target, handled, queued>>

\* The channel manager answers an OpenExtendedMiningChannel: the Pool opens
\* a fresh channel (non-aggregated) or the shared channel serves it
\* (aggregated), and the Success reaches the Sv1Server.
PoolAnswersOpen ==
    /\ sv1_running /\ upstream = "Up"
    /\ \E r \in open_requests :
        LET c == IF aggregate_channels THEN AGGREGATED_CHANNEL_ID
                 ELSE Cardinality(DOMAIN channel_owner) + 1
        IN
        /\ open_requests' = open_requests \ {r}
        /\ upstream_channels' = upstream_channels \cup {c}
        /\ channel_owner' = (c :> request_id_to_downstream_id[r]) @@ channel_owner
        /\ HandleOpenExtendedSuccess(r, c)
        /\ UNCHANGED <<downstreams, downstream_id_factory, request_id_factory,
                       inbox, sent, pool_target, closed, fallbacks>>
    /\ UNCHANGED sup_vars

\* handle_set_target_without_vardiff: every downstream with a channel
\* (send_set_difficulty_to_all_downstreams, aggregated) or the downstream
\* whose channel is c (send_set_difficulty_to_specific_downstream).
SetTargetReceivers(c) ==
    IF aggregate_channels THEN {d \in downstreams : channel_id[d] # NoChannel}
                  ELSE {d \in downstreams : channel_id[d] = c}

\* handle_set_target_without_vardiff: the receivers take the new target as
\* their upstream target; in non-aggregated mode a channel with no
\* downstream is closed with CloseChannel.
HandleSetTargetWithoutVardiff(c, t) ==
    LET rcv == SetTargetReceivers(c) IN
    /\ upstream_target' = [d \in DownstreamIds |->
                              IF d \in rcv THEN t ELSE upstream_target[d]]
    /\ closed' = IF ~aggregate_channels /\ rcv = {} THEN closed \cup {c} ELSE closed

\* The Pool sets a new target on one of its open channels.
PoolSetTarget ==
    /\ sv1_running /\ upstream = "Up"
    /\ \E c \in upstream_channels \ closed, t \in Targets :
        /\ pool_target' = [pool_target EXCEPT ![c] = t]
        /\ HandleSetTargetWithoutVardiff(c, t)
        /\ UNCHANGED <<downstreams, downstream_id_factory, channel_id, queued,
                       request_id_factory, request_id_to_downstream_id, inbox,
                       sent, handled, open_requests, upstream_channels,
                       channel_owner, fallbacks>>
    /\ UNCHANGED sup_vars

\* Mutant: cleanup keeps request_id_to_downstream_id.
Sv1Cleanup_KeepRequests ==
    /\ RemoveDownstreams(downstreams)
    /\ UNCHANGED request_id_to_downstream_id
    /\ inbox' = <<>>

\* Sv1Server::cleanup: the downstreams and request_id_to_downstream_id are
\* cleared and the channel state is dropped with the messages in it
\* (prevhashes, jobs, vardiff and pending target updates are not modelled
\* here).
Sv1Cleanup ==
    /\ RemoveDownstreams(downstreams)
    /\ request_id_to_downstream_id' = <<>>
    /\ inbox' = <<>>

\* start's select!: the fallback token or the shutdown token is cancelled,
\* so the loop runs cleanup and exits, which acknowledges the fallback.
Sv1StopOnSignal ==
    /\ sv1_running
    /\ sup_pc = "AwaitAck" \/ shutdown_all
    /\ Sv1Cleanup
    /\ sv1_running' = FALSE
    /\ UNCHANGED <<downstream_id_factory, request_id_factory, open_requests,
                   upstream_channels, channel_owner, pool_target, closed,
                   fallbacks>>
    /\ UNCHANGED <<sup_pc, tried_or_flagged, attempt, exhausted, status,
                   shutdown_all, init_error, upstream, ever_connected>>

\* start's select!: handle_downstream_message or handle_upstream_message
\* fails and handle_error judges it fatal: it sends Sv1ServerShutdown on
\* the status channel and the loop runs cleanup and exits.
Sv1ServerFails ==
    /\ sv1_running
    /\ Sv1Cleanup
    /\ sv1_running' = FALSE
    /\ status' = Append(status, "Sv1ServerShutdown")
    /\ UNCHANGED <<downstream_id_factory, request_id_factory, open_requests,
                   upstream_channels, channel_owner, pool_target, closed,
                   fallbacks>>
    /\ UNCHANGED <<sup_pc, tried_or_flagged, attempt, exhausted, shutdown_all,
                   init_error, upstream, ever_connected>>

\* The upstream connection is lost (socket closed or a fatal Pool message):
\* the upstream sends UpstreamShutdown and exits, and the Pool's channels
\* (with what it knew of their owners and closes) go with the connection.
UpstreamLost ==
    /\ upstream = "Up"
    /\ sup_pc # "Done"
    /\ fallbacks < MaxFallbacks
    /\ fallbacks' = fallbacks + 1
    /\ upstream' = "None"
    /\ status' = Append(status, "UpstreamShutdown")
    /\ upstream_channels' = {}
    /\ channel_owner' = <<>>
    /\ closed' = {}
    /\ UNCHANGED <<downstreams, downstream_id_factory, channel_id, queued,
                   upstream_target, request_id_factory,
                   request_id_to_downstream_id, inbox, sent, handled,
                   open_requests, pool_target>>
    /\ UNCHANGED <<sup_pc, tried_or_flagged, attempt, exhausted, shutdown_all,
                   init_error, sv1_running, ever_connected>>

\* On ShutdownAll the upstream task exits.
UpstreamStops ==
    /\ shutdown_all
    /\ upstream = "Up"
    /\ upstream' = "None"
    /\ UNCHANGED server_vars
    /\ UNCHANGED <<sup_pc, tried_or_flagged, attempt, exhausted, status,
                   shutdown_all, init_error, sv1_running, ever_connected>>

-----------------------------------------------------------------------------
(* Supervisor (lib/mod.rs)                                                 *)

UnflaggedEntries == {i \in UpstreamIdx : ~tried_or_flagged[i]}

\* Mutant: an entry is flagged after its first failed attempt.
RetriesExhausted_First(n) == n >= 1

\* initialize_upstream: after the attempt with number MAX_RETRIES the entry
\* is flagged and the loop moves to the next one.
RetriesExhausted(n) == n = MAX_RETRIES

\* Mutant: the loop logs the failed fallback and goes on without breaking.
InitializeUpstreamFails_NoBreak(err) ==
    /\ init_error' = err
    /\ IF sup_pc = "Starting"
       THEN /\ sup_pc' = "Done"
            /\ UNCHANGED shutdown_all
       ELSE /\ sup_pc' = "Running"
            /\ UNCHANGED shutdown_all

\* initialize_upstream returned err: before the loop start logs it and
\* returns; inside the loop the supervisor broadcasts ShutdownAll and
\* breaks out to the shutdown wait.
InitializeUpstreamFails(err) ==
    /\ init_error' = err
    /\ IF sup_pc = "Starting"
       THEN /\ sup_pc' = "Done"
            /\ UNCHANGED shutdown_all
       ELSE /\ sup_pc' = "Draining"
            /\ shutdown_all' = TRUE

\* initialize_upstream, one attempt on the first entry not flagged: after
\* the 1 s sleep try_initialize_upstream fails.
AttemptFails ==
    /\ sup_pc \in {"Starting", "Reconnecting"}
    /\ UnflaggedEntries # {}
    /\ LET i == Min(UnflaggedEntries) IN
       /\ attempt' = IF RetriesExhausted(attempt + 1) THEN 0 ELSE attempt + 1
       /\ tried_or_flagged' =
              [tried_or_flagged EXCEPT ![i] = RetriesExhausted(attempt + 1)]
       /\ exhausted' = IF attempt + 1 = MAX_RETRIES THEN exhausted \cup {i}
                       ELSE exhausted
    /\ UNCHANGED server_vars
    /\ UNCHANGED <<sup_pc, status, shutdown_all, init_error,
                   upstream, sv1_running, ever_connected>>

\* initialize_upstream: try_initialize_upstream connects and starts the
\* upstream; then sv1_server.start binds the listener and spawns the
\* Sv1Server loop, the entry is flagged and the supervisor enters its loop;
\* if the bind fails, initialize_upstream returns that error with the entry
\* left unflagged.
AttemptConnects(bindOk) ==
    /\ sup_pc \in {"Starting", "Reconnecting"}
    /\ UnflaggedEntries # {}
    /\ LET i == Min(UnflaggedEntries) IN
       /\ upstream' = "Up"
       /\ ever_connected' = ever_connected \cup {i}
       /\ IF bindOk
          THEN /\ sv1_running' = TRUE
               /\ tried_or_flagged' = [tried_or_flagged EXCEPT ![i] = TRUE]
               /\ sup_pc' = "Running"
               /\ UNCHANGED <<shutdown_all, init_error>>
          ELSE /\ InitializeUpstreamFails("Sv1Bind")
               /\ UNCHANGED <<sv1_running, tried_or_flagged>>
    /\ UNCHANGED server_vars
    /\ attempt' = 0
    /\ UNCHANGED <<exhausted, status>>

\* initialize_upstream: every entry is flagged, CouldNotInitiateSystem.
AllAttemptsFailed ==
    /\ sup_pc \in {"Starting", "Reconnecting"}
    /\ UnflaggedEntries = {}
    /\ InitializeUpstreamFails("CouldNotInitiateSystem")
    /\ UNCHANGED server_vars
    /\ UNCHANGED <<tried_or_flagged, attempt, exhausted, status, upstream,
                   sv1_running, ever_connected>>

\* The status loop takes the next status of the given kind.
NextStatusIs(kind) ==
    /\ sup_pc = "Running"
    /\ status # <<>>
    /\ Head(status) = kind
    /\ status' = Tail(status)

\* A miner's connection closes; its downstream task sends DownstreamShutdown,
\* the status loop (State::DownstreamShutdown) broadcasts
\* DownstreamShutdown(downstream_id) and the Sv1Server handles it with
\* handle_downstream_disconnect.  The three are one step: the status is
\* only acted on while the loop runs, and a disconnect whose status would
\* wait behind a fallback or a shutdown is indistinguishable from the
\* cleanup that removes the downstream anyway.
SupDownstreamShutdown(d) ==
    /\ sup_pc = "Running"
    /\ d \in downstreams
    /\ HandleDownstreamDisconnect(d)
    /\ UNCHANGED sup_vars

\* State::Sv1ServerShutdown (and ChannelManagerShutdown alike): broadcast
\* ShutdownAll and break.
SupSv1ServerShutdown ==
    /\ NextStatusIs("Sv1ServerShutdown")
    /\ shutdown_all' = TRUE
    /\ sup_pc' = "Draining"
    /\ UNCHANGED server_vars
    /\ UNCHANGED <<tried_or_flagged, attempt, exhausted, init_error,
                   upstream, sv1_running, ever_connected>>

\* State::UpstreamShutdown: broadcast UpstreamFallback{tx} and wait on rx.
SupUpstreamShutdown ==
    /\ NextStatusIs("UpstreamShutdown")
    /\ sup_pc' = "AwaitAck"
    /\ UNCHANGED server_vars
    /\ UNCHANGED <<tried_or_flagged, attempt, exhausted, shutdown_all,
                   init_error, upstream, sv1_running, ever_connected>>

\* rx.recv() returns once the subsystems holding tx are done with the
\* fallback (the channel manager, not under src/, has dropped its
\* upstream-side state with the channel requests not yet answered); then
\* initialize_upstream runs again.
FallbackAcknowledged ==
    /\ sup_pc = "AwaitAck"
    /\ ~sv1_running
    /\ sup_pc' = "Reconnecting"
    /\ open_requests' = {}
    /\ UNCHANGED <<downstreams, downstream_id_factory, channel_id, queued,
                   upstream_target, request_id_factory,
                   request_id_to_downstream_id, inbox, sent, handled,
                   upstream_channels, channel_owner, pool_target, closed,
                   fallbacks>>
    /\ UNCHANGED <<tried_or_flagged, attempt, exhausted, status, shutdown_all,
                   init_error, upstream, sv1_running, ever_connected>>

\* ctrl_c(): broadcast ShutdownAll and break.
CtrlC ==
    /\ sup_pc = "Running"
    /\ shutdown_all' = TRUE
    /\ sup_pc' = "Draining"
    /\ UNCHANGED server_vars
    /\ UNCHANGED <<tried_or_flagged, attempt, exhausted, status, init_error,
                   upstream, sv1_running, ever_connected>>

\* After the loop: shutdown_complete_rx.recv() returns once every subsystem
\* dropped its shutdown_complete_tx.
ShutdownComplete ==
    /\ sup_pc = "Draining"
    /\ ~sv1_running
    /\ upstream = "None"
    /\ sup_pc' = "Done"
    /\ UNCHANGED server_vars
    /\ UNCHANGED <<tried_or_flagged, attempt, exhausted, status, shutdown_all,
                   init_error, upstream, sv1_running, ever_connected>>

\* After the loop: the 5 s timeout fires first and task_manager.abort_all()
\* stops every task where it stands.
ShutdownTimeout ==
    /\ sup_pc = "Draining"
    /\ sup_pc' = "Done"
    /\ sv1_running' = FALSE
    /\ upstream' = "None"
    /\ UNCHANGED server_vars
    /\ UNCHANGED <<tried_or_flagged, attempt, exhausted, status, shutdown_all,
                   init_error, ever_connected>>

SupervisorStep ==
    \/ AttemptFails
    \/ \E bindOk \in BOOLEAN : AttemptConnects(bindOk)
    \/ AllAttemptsFailed
    \/ SupSv1ServerShutdown
    \/ SupUpstreamShutdown
    \/ FallbackAcknowledged
    \/ ShutdownComplete
    \/ ShutdownTimeout

-----------------------------------------------------------------------------

\* start's select! loop (accept, a downstream or channel manager message,
\* the fallback or shutdown token, a fatal error) beside the supervisor's
\* loop, the miners and the Pool.
Next ==
    /\ UNCHANGED aggregate_channels
    /\ \/ Accept
       \/ \E d \in downstreams : DownstreamSends(d)
       \/ HandleDownstreamMessage
       \/ PoolAnswersOpen
       \/ PoolSetTarget
       \/ Sv1StopOnSignal
       \/ Sv1ServerFails
       \/ \E d \in downstreams : SupDownstreamShutdown(d)
       \/ UpstreamLost
       \/ UpstreamStops
       \/ CtrlC
       \/ SupervisorStep

dyn_vars == <<server_vars, sup_vars>>

\* The Sv1Server loop keeps taking messages from both sides and reacts to
\* the fallback and shutdown tokens, the channel manager answers every
\* channel request, and the supervisor task (a single loop that awaits
\* only the status channel, the fallback acknowledgement, its 1 s sleeps
\* and the 5 s shutdown timer) keeps running.
Fairness ==
    /\ WF_server_vars(HandleDownstreamMessage)
    /\ WF_server_vars(PoolAnswersOpen)
    /\ WF_dyn_vars(Sv1StopOnSignal)
    /\ WF_dyn_vars(SupervisorStep)

Spec == Init /\ [][Next]_vars /\ Fairness

-----------------------------------------------------------------------------
(* Properties                                                              *)

TypeOK ==
    /\ aggregate_channels \in Modes
    /\ downstreams \subseteq DownstreamIds
    /\ downstream_id_factory \in 1..(MaxDownstreams + 1)
    /\ channel_id \in [DownstreamIds -> {NoChannel} \cup ChannelIds]
    /\ queued \in [DownstreamIds -> Seq(1..MaxMessages)]
    /\ upstream_target \in [DownstreamIds -> Targets]
    /\ request_id_factory \in 1..(MaxDownstreams + 1)
    /\ DOMAIN request_id_to_downstream_id \subseteq RequestIds
    /\ \A r \in DOMAIN request_id_to_downstream_id :
           request_id_to_downstream_id[r] \in DownstreamIds
    /\ inbox \in Seq(DownstreamIds \X (1..MaxMessages))
    /\ sent \in [DownstreamIds -> 0..MaxMessages]
    /\ handled \in [DownstreamIds -> Seq(1..MaxMessages)]
    /\ open_requests \subseteq RequestIds
    /\ upstream_channels \subseteq ChannelIds /\ closed \subseteq ChannelIds
    /\ pool_target \in [ChannelIds -> Targets]
    /\ fallbacks \in 0..MaxFallbacks
    /\ sup_pc \in SupervisorPcs
    /\ tried_or_flagged \in [UpstreamIdx -> BOOLEAN]
    /\ attempt \in 0..(MAX_RETRIES - 1)
    /\ exhausted \subseteq UpstreamIdx
    /\ status \in Seq(StatusKinds)
    /\ shutdown_all \in BOOLEAN
    /\ init_error \in {"None", "CouldNotInitiateSystem", "Sv1Bind"}
    /\ upstream \in {"None", "Up"}
    /\ sv1_running \in BOOLEAN
    /\ ever_connected \subseteq UpstreamIdx

\* The messages of downstream d still in the Sv1Server's inbox, in order.
InboxOf(d) == [i \in 1..Len(SelectSeq(inbox, LAMBDA m : m[1] = d)) |->
                  SelectSeq(inbox, LAMBDA m : m[1] = d)[i][2]]

\* Every Sv1 message of a connected miner is handled once and in the order
\* it was sent, whether it came before the channel existed (queued by
\* handle_downstream_message and replayed by the Success handler) or after.
HandshakeInOrder ==
    \A d \in downstreams :
        handled[d] \o queued[d] \o InboxOf(d) = [i \in 1..sent[d] |-> i]

\* The upstream target the Sv1Server records for a downstream with a
\* channel (downstream_data.upstream_target) is the target the Pool last
\* set on that channel: the Success's target, then every SetTarget,
\* reaches it.  (The set_difficulty sent right after the open is built
\* from the configured first target, not from this one.)
TargetFollowsPool ==
    \A d \in downstreams :
        channel_id[d] # NoChannel => upstream_target[d] = pool_target[channel_id[d]]

\* Every message a miner sent is eventually handled unless the miner
\* is removed (disconnect or fallback cleanup) or the translator stops:
\* the queued handshake waits only for the channel Success.
MessagesEventuallyHandled ==
    \A d \in DownstreamIds, n \in 1..MaxMessages :
        (d \in downstreams /\ n <= sent[d])
            ~> \/ d \notin downstreams
               \/ \E i \in 1..Len(handled[d]) : handled[d][i] = n
               \/ sup_pc = "Done"

\* A channel the Pool opened for a downstream (non-aggregated mode) serves
\* a connected downstream or has been closed with CloseChannel: channels
\* are destroyed on downstream disconnect.
NoOrphanChannel ==
    \A c \in upstream_channels :
        c \in closed \/ \E d \in downstreams : channel_id[d] = c

\* initialize_upstream gives up with CouldNotInitiateSystem only after
\* every configured upstream either connected at some time or failed
\* MAX_RETRIES attempts ("we exhaust every healthy upstream before
\* shutting the translator down").
GivesUpOnlyWhenExhausted ==
    init_error = "CouldNotInitiateSystem" =>
        \A i \in UpstreamIdx : i \in ever_connected \cup exhausted

\* While the Sv1Server runs on a live upstream, its pending request ids are
\* exactly the OpenExtendedMiningChannel requests that upstream still has
\* to answer: a fallback leaves no request of the old connection behind
\* for the Success of a new one to be matched against.
RequestsMatchUpstream ==
    sv1_running /\ upstream = "Up" =>
        DOMAIN request_id_to_downstream_id = open_requests

\* Every UpstreamShutdown status leads to the translator serving again
\* (an upstream connected and the Sv1Server restarted) or to the end of
\* start: the fallback is acknowledged and initialize_upstream either
\* connects or makes the supervisor shut down.
FallbackResolves ==
    (\E i \in 1..Len(status) : status[i] = "UpstreamShutdown")
        ~> ((upstream = "Up" /\ sv1_running) \/ sup_pc = "Done")

====
