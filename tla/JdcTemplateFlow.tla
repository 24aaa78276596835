--------------------------- MODULE JdcTemplateFlow ---------------------------
(***************************************************************************)
(* The Job Declarator Client's Channel Manager seen from its three peers:  *)
(* the Template Provider (NewTemplate, SetNewPrevHash, RequestTransaction- *)
(* Data answers), the Pool (channel open, SetCustomMiningJob answers,      *)
(* CloseChannel) and the JDS (mining-job tokens), plus the supervisor that *)
(* rotates upstreams on a fallback error.                                  *)
(*                                                                         *)
(* The Channel Manager is one task that handles one message at a time      *)
(* under super_safe_lock, so each handler is one atomic action.  A peer's  *)
(* messages arrive in FIFO order; the Template Provider's emission and the *)
(* handling of that message are merged into one step (nothing the TP does *)
(* depends on the JDC's state in between), while Pool and JDS answers are *)
(* separate actions that interleave freely with the TP's messages.         *)
(*                                                                         *)
(* A template is identified by its id.  A prev-hash is identified by the   *)
(* future template it activates (SetNewPrevHash.template_id).  A template  *)
(* builds on prev-hash p when it is the future template p, or a non-future *)
(* template sent while p was the tip.                                      *)
(***************************************************************************)
EXTENDS Naturals, Sequences, FiniteSets, Functions, TLC

CONSTANTS
    ConfigModes,     \* jd modes the configuration file may name
    StartConnects,   \* outcomes of the first initialize_jd (TRUE: Ok)
    NumDownstreams,  \* downstream connections served by the JDC
    NumUpstreams,    \* length of the configured upstream list
    MaxTemplates,    \* template ids the Template Provider may use
    MaxFuture        \* future templates the TP may have outstanding at once

ASSUME ConfigModes \subseteq {"FullTemplate", "CoinbaseOnly"} /\ ConfigModes # {}
ASSUME StartConnects \subseteq BOOLEAN /\ StartConnects # {}
ASSUME NumDownstreams \in Nat /\ NumUpstreams \in Nat \ {0}
ASSUME MaxTemplates \in Nat \ {0} /\ MaxFuture \in Nat \ {0}

NoTemplate == 0                       \* Option::None for a template or tip
TemplateIds == 1..MaxTemplates
JdModes == {"FullTemplate", "CoinbaseOnly", "SoloMining"}
UpstreamStates == {"NoChannel", "Pending", "Connected", "SoloMining"}
SupervisorStates == {"Running", "AwaitComplete", "Reconnecting", "Stopped"}
\* owners of a sender of the current shutdown_complete channel: start's own
\* shutdown_complete_tx, and the clones handed to Upstream::start and
\* JobDeclarator::start
CompleteHolders == {"Start", "Upstream", "JobDeclarator"}
PairTasks == {"Upstream", "JobDeclarator"}
\* each template can cost at most one RequestTransactionDataSuccess request
\* id plus one per downstream and one per SetNewPrevHash / channel open
MaxRequestId == MaxTemplates * (NumDownstreams + 3)
RequestIds == 0..MaxRequestId

VARIABLES
    \* ChannelManagerData
    template_store,          \* ids of templates kept by handle_new_template
    last_future_template,
    last_new_prev_hash,
    last_declare_job_store,  \* request id -> DeclaredJob
    template_id_to_upstream_job_id,  \* templates the Pool accepted a job for
    upstream_channel,        \* Some(extended channel) with the Pool?
    job_factory,             \* Some(JobFactory)?
    allocate_tokens,         \* Some(token) from the JDS?
    request_id_factory,
    pending_downstream_requests,
    upstream_state,
    jd_mode,                 \* the process-wide JdMode (get_jd_mode)
    config_mode,             \* self.config.mode
    downstream_channels,     \* channels the downstreams have open
    \* peers and links
    tp_tip,                  \* last prev-hash the TP sent
    tp_futures,              \* future templates sent and not yet activated
    builds_on,               \* template id -> prev-hash it builds on
    rtd_requests,            \* RequestTransactionData awaiting an answer
    open_requested,          \* OpenExtendedMiningChannel awaiting an answer
    pool_requests,           \* SetCustomMiningJob awaiting an answer
    token_requested,         \* AllocateMiningJobToken awaiting an answer
    \* supervisor (mod.rs)
    fallback_status,         \* a fallback-tagged error reached the supervisor
    supervisor,              \* where start's status loop is
    complete_tx,             \* live senders of shutdown_complete
    upstreams_left,          \* entries of the upstream list not yet flagged
    \* history of what the JDC sent
    jds_log,                 \* DeclareMiningJob messages sent to the JDS
    custom_log               \* SetCustomMiningJob messages sent to the Pool

cm_vars == <<template_store, last_future_template, last_new_prev_hash,
             last_declare_job_store, template_id_to_upstream_job_id,
             upstream_channel, job_factory, allocate_tokens,
             request_id_factory, pending_downstream_requests,
             upstream_state, jd_mode, config_mode, downstream_channels>>
peer_vars == <<tp_tip, tp_futures, builds_on, rtd_requests, open_requested,
               pool_requests, token_requested>>
sup_vars == <<fallback_status, supervisor, upstreams_left, complete_tx>>
log_vars == <<jds_log, custom_log>>
vars == <<cm_vars, peer_vars, sup_vars, log_vars>>

DeclaredJob == [tid : TemplateIds, future : BOOLEAN, prev : {NoTemplate} \cup TemplateIds,
                kind : {"declare", "custom"}]
SentJob == [req : RequestIds, tid : TemplateIds, tip : TemplateIds]

\* The template t is valid on top of prev-hash p.
Activates(t, p) == p # NoTemplate /\ builds_on[t] = p

\* A template is future when it builds on the prev-hash that activates it.
IsFuture(t) == builds_on[t] = t

\* A DeclaredJob that carries a SetCustomMiningJob (no DeclareMiningJob).
Custom(t, fut, p) == [tid |-> t, future |-> fut, prev |-> p, kind |-> "custom"]

-----------------------------------------------------------------------------
(* Initial state: JobDeclaratorClient::start after its first initialize_jd *)
(* and before the status loop.  On Ok one entry of the upstream list       *)
(* connected (it and every earlier entry are flagged), the upstream state  *)
(* is NoChannel and a token is requested; Upstream::start takes a clone of *)
(* shutdown_complete_tx and JobDeclarator::start the sender itself.  On    *)
(* Err every entry is flagged, the mode is SoloMining and start still owns *)
(* shutdown_complete_tx; the upstream state keeps the value the Channel    *)
(* Manager was built with (not under src/), taken to be SoloMining.        *)

\* The first initialize_jd, connected or not.
StartOutcome(ok) ==
    IF ok
    THEN /\ upstreams_left \in 0..(NumUpstreams - 1)
         /\ upstream_state = "NoChannel"
         /\ jd_mode = config_mode
         /\ token_requested = TRUE
         /\ complete_tx = PairTasks
    ELSE /\ upstreams_left = 0
         /\ upstream_state = "SoloMining"
         /\ jd_mode = "SoloMining"
         /\ token_requested = FALSE
         /\ complete_tx = {"Start"}

Init ==
    /\ template_store = {}
    /\ last_future_template = NoTemplate
    /\ last_new_prev_hash = NoTemplate
    /\ last_declare_job_store = <<>>
    /\ template_id_to_upstream_job_id = {}
    /\ upstream_channel = FALSE
    /\ job_factory = FALSE
    /\ allocate_tokens = FALSE
    /\ request_id_factory = 0
    /\ pending_downstream_requests = 0
    /\ downstream_channels = 0
    /\ config_mode \in ConfigModes
    /\ tp_tip = NoTemplate
    /\ tp_futures = {}
    /\ builds_on = <<>>
    /\ rtd_requests = <<>>
    /\ open_requested = FALSE
    /\ pool_requests = {}
    /\ fallback_status = FALSE
    /\ supervisor = "Running"
    /\ \E ok \in StartConnects : StartOutcome(ok)
    /\ jds_log = <<>>
    /\ custom_log = {}

-----------------------------------------------------------------------------
(* Template Provider messages (template_message_handler.rs)               *)

\* Mutant: the future-template test of the custom-job branch is dropped.
NewTemplateBuildsCustomJob_AnyTemplate(fut) ==
    /\ upstream_channel /\ jd_mode = "CoinbaseOnly"
    /\ allocate_tokens /\ last_new_prev_hash # NoTemplate

\* handle_new_template builds a SetCustomMiningJob for a non-future template
\* in CoinbaseOnly mode when the Pool channel, a token and a tip exist.
NewTemplateBuildsCustomJob(fut) ==
    /\ upstream_channel /\ ~fut /\ jd_mode = "CoinbaseOnly"
    /\ allocate_tokens /\ last_new_prev_hash # NoTemplate

\* handle_new_template: store the template, ask the TP for its transactions
\* (FullTemplate), build one SetCustomMiningJob per downstream for a
\* non-future template (CoinbaseOnly), and ask the JDS for one more token.
HandleNewTemplate(t, fut) ==
    LET custom == NewTemplateBuildsCustomJob(fut)
        reqs == IF custom THEN request_id_factory ..
                               (request_id_factory + NumDownstreams - 1)
                          ELSE {}
    IN
    /\ template_store' = template_store \cup {t}
    /\ last_future_template' = IF fut THEN t ELSE last_future_template
    /\ rtd_requests' = IF jd_mode = "FullTemplate"
                       THEN Append(rtd_requests, t) ELSE rtd_requests
    /\ request_id_factory' = request_id_factory + Cardinality(reqs)
    /\ last_declare_job_store' =
           [r \in reqs |-> Custom(t, FALSE, last_new_prev_hash)]
               @@ last_declare_job_store
    /\ pool_requests' = pool_requests \cup reqs
    /\ custom_log' = custom_log \cup
           {[req |-> r, tid |-> t, tip |-> last_new_prev_hash] : r \in reqs}
    /\ token_requested' = (token_requested \/ (jd_mode = "CoinbaseOnly" /\ ~fut))
    /\ UNCHANGED <<last_new_prev_hash, template_id_to_upstream_job_id,
                   upstream_channel, job_factory, allocate_tokens,
                   pending_downstream_requests,
                   downstream_channels, config_mode, upstream_state, jd_mode,
                   open_requested, jds_log>>

\* The TP announces template t, future or built on its current tip.
TpNewTemplate ==
    \E fut \in BOOLEAN :
        LET t == Len(builds_on) + 1 IN
        /\ t <= MaxTemplates
        /\ IF fut THEN Cardinality(tp_futures) < MaxFuture
                  ELSE tp_tip # NoTemplate
        /\ builds_on' = Append(builds_on, IF fut THEN t ELSE tp_tip)
        /\ tp_futures' = IF fut THEN tp_futures \cup {t} ELSE tp_futures
        /\ HandleNewTemplate(t, fut)
        /\ UNCHANGED <<tp_tip, sup_vars>>

\* Mutant: only declared jobs already activated are looked up (the lookup
\* runs before the future flags are cleared, so cached ones are missed).
ForwardCandidates_Activated(store, lft) ==
    {r \in DOMAIN store : store[r].tid = lft /\ ~store[r].future}

\* Mutant: the template test of the lookup is dropped.
ForwardCandidates_AnyDeclared(store, lft) ==
    {r \in DOMAIN store : store[r].kind = "declare"}

\* handle_set_new_prev_hash looks up the cached declared job whose template
\* is last_future_template.
ForwardCandidates(store, lft) == {r \in DOMAIN store : store[r].tid = lft}

\* handle_set_new_prev_hash: forward the cached DeclareMiningJob of
\* last_future_template (FullTemplate), record the tip, activate cached
\* future jobs of the named template, and build a SetCustomMiningJob from
\* last_future_template (CoinbaseOnly); then each downstream channel takes
\* the prev-hash.  When one of them rejects it (on_set_new_prev_hash of
\* channels_sv2, not under src/; only a channel that exists can), the
\* fan-out returns a fallback error: what the lock closure changed stays,
\* but no token is asked for and the SetCustomMiningJob is never sent.
HandleSetNewPrevHash(p, fanoutOk) ==
    LET store == last_declare_job_store
        lft == last_future_template
        found == ForwardCandidates(store, lft)
        activated == [r \in DOMAIN store |->
                        IF store[r].future /\ store[r].tid = p
                        THEN [store[r] EXCEPT !.prev = p, !.future = FALSE]
                        ELSE store[r]]
        custom == /\ upstream_channel /\ jd_mode = "CoinbaseOnly"
                  /\ job_factory /\ allocate_tokens /\ lft # NoTemplate
        rid == request_id_factory
    IN
    /\ IF jd_mode = "FullTemplate" /\ found # {}
       THEN \E r \in found :   \* HashMap::values().find: any match
              jds_log' = IF store[r].kind = "declare"
                         THEN Append(jds_log, [req |-> r, tid |-> lft, tip |-> p])
                         ELSE jds_log
       ELSE jds_log' = jds_log
    /\ last_new_prev_hash' = p
    /\ last_declare_job_store' = IF custom THEN (rid :> Custom(lft, TRUE, p)) @@ activated
                                           ELSE activated
    /\ request_id_factory' = IF custom THEN rid + 1 ELSE rid
    /\ \/ /\ fanoutOk
          /\ pool_requests' = IF custom THEN pool_requests \cup {rid} ELSE pool_requests
          /\ custom_log' = IF custom THEN custom_log \cup {[req |-> rid, tid |-> lft, tip |-> p]}
                                     ELSE custom_log
          /\ token_requested' = (token_requested \/ jd_mode = "CoinbaseOnly")
          /\ UNCHANGED fallback_status
       \/ /\ ~fanoutOk
          /\ downstream_channels > 0
          /\ fallback_status' = TRUE
          /\ UNCHANGED <<pool_requests, custom_log, token_requested>>
    /\ UNCHANGED <<template_store, last_future_template,
                   template_id_to_upstream_job_id, upstream_channel,
                   job_factory, allocate_tokens, pending_downstream_requests,
                   downstream_channels, config_mode,
                   upstream_state, jd_mode, rtd_requests, open_requested>>

\* The TP activates one of its outstanding future templates; the others
\* can no longer be activated.
TpSetNewPrevHash ==
    \E p \in tp_futures :
        /\ tp_tip' = p
        /\ tp_futures' = {}
        /\ \E fanoutOk \in BOOLEAN : HandleSetNewPrevHash(p, fanoutOk)
        /\ UNCHANGED <<builds_on, supervisor, upstreams_left, complete_tx>>

\* Mutant: a missing prev-hash counts as activating (unwrap_or(false)).
NotActivated_NoTipActivates(t) ==
    IsFuture(t) /\ last_new_prev_hash # NoTemplate /\ last_new_prev_hash # t

\* Mutant: the template-id comparison is inverted.
NotActivated_Inverted(t) ==
    IsFuture(t) /\ (last_new_prev_hash = NoTemplate \/ last_new_prev_hash = t)

\* is_activated_future_template in handle_request_tx_data_success: true
\* when t is a future template the last prev-hash does not activate.
NotActivated(t) ==
    IsFuture(t) /\ (last_new_prev_hash = NoTemplate \/ last_new_prev_hash # t)

\* handle_request_tx_data_success: the template is taken out of the store
\* and a request id is spent before the token is checked; a declared job is
\* cached when the Pool channel and job factory exist, and sent to the JDS
\* unless it is a future template the current tip does not activate.
HandleRequestTxDataSuccess(t) ==
    LET rid == request_id_factory
        declared == /\ allocate_tokens /\ t \in template_store
                    /\ job_factory /\ upstream_channel
        notActivated == NotActivated(t)
    IN
    /\ template_store' = template_store \ {t}
    /\ request_id_factory' = rid + 1
    /\ token_requested' = TRUE
    /\ last_declare_job_store' =
           IF declared
           THEN (rid :> [tid |-> t, future |-> IsFuture(t),
                         prev |-> last_new_prev_hash, kind |-> "declare"])
                    @@ last_declare_job_store
           ELSE last_declare_job_store
    /\ jds_log' = IF declared /\ ~notActivated
                  THEN Append(jds_log, [req |-> rid, tid |-> t, tip |-> last_new_prev_hash])
                  ELSE jds_log
    /\ UNCHANGED <<last_future_template, last_new_prev_hash,
                   template_id_to_upstream_job_id, upstream_channel,
                   job_factory, allocate_tokens, pending_downstream_requests,
                   downstream_channels, config_mode,
                   upstream_state, jd_mode, open_requested, pool_requests,
                   custom_log>>

\* The TP answers the oldest RequestTransactionData: with the transactions
\* while the template is still valid on its tip, or with an error
\* ("stale-template-id", "template-id-not-found", anything else), which
\* handle_request_tx_data_error only logs.
TpRequestTxDataAnswer ==
    /\ rtd_requests # <<>>
    /\ LET t == Head(rtd_requests) IN
       \/ /\ builds_on[t] = tp_tip \/ t \in tp_futures
          /\ HandleRequestTxDataSuccess(t)
       \/ UNCHANGED <<cm_vars, log_vars, token_requested>>
    /\ rtd_requests' = Tail(rtd_requests)
    /\ UNCHANGED <<tp_tip, tp_futures, builds_on, open_requested,
                   pool_requests, sup_vars>>

-----------------------------------------------------------------------------
(* Pool (upstream) messages (upstream_message_handler.rs)                  *)

\* A downstream asks for a channel (the downstream mining handler is not
\* under src/; modelled from the spec): while the Pool channel is not open
\* the request is queued and the first one opens the Pool channel; with
\* the Pool channel up, or in solo mining, the channel is created at once.
DownstreamOpenChannel ==
    /\ supervisor = "Running"
    /\ pending_downstream_requests + downstream_channels < NumDownstreams
    /\ \/ /\ upstream_state \in {"NoChannel", "Pending"}
          /\ pending_downstream_requests' = pending_downstream_requests + 1
          /\ IF upstream_state = "NoChannel"
             THEN upstream_state' = "Pending" /\ open_requested' = TRUE
             ELSE UNCHANGED <<upstream_state, open_requested>>
          /\ UNCHANGED downstream_channels
       \/ /\ upstream_state \in {"Connected", "SoloMining"}
          /\ downstream_channels' = downstream_channels + 1
          /\ UNCHANGED <<pending_downstream_requests, upstream_state,
                         open_requested>>
    /\ UNCHANGED <<template_store, last_future_template, last_new_prev_hash,
                   last_declare_job_store, template_id_to_upstream_job_id,
                   upstream_channel, job_factory, allocate_tokens,
                   request_id_factory, jd_mode, config_mode, tp_tip,
                   tp_futures, builds_on, rtd_requests, pool_requests,
                   token_requested, sup_vars, log_vars>>

\* handle_open_extended_mining_channel_success.  Without a queued downstream
\* request, or when the extranonce ranges cannot be built, the channel is
\* closed again; otherwise the Pool channel and a new job factory are
\* installed, the custom job for the last future template is built with
\* the job factory that existed before, the transactions of the last
\* future template are requested again (FullTemplate), and the queue of
\* downstream requests is handed to the mining handler.
HandleOpenExtendedSuccess(rangesOk) ==
    LET lft == last_future_template
        rid == request_id_factory
        custom == /\ jd_mode = "CoinbaseOnly" /\ job_factory /\ allocate_tokens
                  /\ lft # NoTemplate /\ last_new_prev_hash # NoTemplate
    IN
    IF pending_downstream_requests = 0 \/ ~rangesOk
    THEN /\ upstream_state' = "NoChannel"
         /\ token_requested' = TRUE
         /\ UNCHANGED <<template_store, last_future_template,
                        last_new_prev_hash, last_declare_job_store,
                        template_id_to_upstream_job_id, upstream_channel,
                        job_factory, allocate_tokens, request_id_factory,
                        pending_downstream_requests,
                        downstream_channels, config_mode, jd_mode, rtd_requests,
                        pool_requests, log_vars>>
    ELSE /\ upstream_channel' = TRUE
         /\ job_factory' = TRUE
         /\ upstream_state' = "Connected"
         /\ pending_downstream_requests' = 0
         /\ downstream_channels' = downstream_channels + pending_downstream_requests
         /\ rtd_requests' = IF jd_mode = "FullTemplate" /\ lft # NoTemplate
                            THEN Append(rtd_requests, lft) ELSE rtd_requests
         /\ last_declare_job_store' =
                IF custom THEN (rid :> Custom(lft, TRUE, last_new_prev_hash))
                                   @@ last_declare_job_store
                          ELSE last_declare_job_store
         /\ request_id_factory' = IF custom THEN rid + 1 ELSE rid
         /\ pool_requests' = IF custom THEN pool_requests \cup {rid} ELSE pool_requests
         /\ custom_log' = IF custom
                          THEN custom_log \cup {[req |-> rid, tid |-> lft,
                                                 tip |-> last_new_prev_hash]}
                          ELSE custom_log
         /\ token_requested' = (token_requested \/ custom)
         /\ UNCHANGED <<template_store, last_future_template,
                        last_new_prev_hash, template_id_to_upstream_job_id,
                        allocate_tokens, jd_mode, config_mode, jds_log>>

PoolOpenExtendedSuccess ==
    /\ open_requested
    /\ open_requested' = FALSE
    /\ \E rangesOk \in BOOLEAN : HandleOpenExtendedSuccess(rangesOk)
    /\ UNCHANGED <<tp_tip, tp_futures, builds_on, sup_vars>>

\* handle_open_mining_channel_error and handle_open_standard_mining_channel_
\* success: the Pool refused an extended channel; return a fallback error.
PoolRejectsOpen ==
    /\ open_requested
    /\ open_requested' = FALSE
    /\ fallback_status' = TRUE
    /\ UNCHANGED <<cm_vars, tp_tip, tp_futures, builds_on, rtd_requests,
                   pool_requests, token_requested, supervisor,
                   upstreams_left, complete_tx, log_vars>>

\* Mutant: the declared job is read instead of removed; only its siblings go.
HandleSetCustomMiningJobSuccess_KeepsOwn(r) ==
    LET store == last_declare_job_store IN
    IF r \in DOMAIN store
    THEN /\ last_declare_job_store' =
                Restrict(store, {x \in DOMAIN store : x = r \/ store[x].tid # store[r].tid})
         /\ template_id_to_upstream_job_id' =
                template_id_to_upstream_job_id \cup {store[r].tid}
    ELSE UNCHANGED <<last_declare_job_store, template_id_to_upstream_job_id>>

\* handle_set_custom_mining_job_success: the declared job of the request is
\* removed with every other declared job of the same template, and the
\* template is mapped to the Pool's job id; an unknown request id is only
\* logged.
HandleSetCustomMiningJobSuccess(r) ==
    LET store == last_declare_job_store IN
    IF r \in DOMAIN store
    THEN /\ last_declare_job_store' =
                Restrict(store, {x \in DOMAIN store : store[x].tid # store[r].tid})
         /\ template_id_to_upstream_job_id' =
                template_id_to_upstream_job_id \cup {store[r].tid}
    ELSE UNCHANGED <<last_declare_job_store, template_id_to_upstream_job_id>>

\* The Pool answers a SetCustomMiningJob: Success, or Error which
\* handle_set_custom_mining_job_error turns into a fallback error.
PoolAnswersCustomJob ==
    \E r \in pool_requests :
        /\ pool_requests' = pool_requests \ {r}
        /\ \/ /\ HandleSetCustomMiningJobSuccess(r)
              /\ UNCHANGED fallback_status
           \/ /\ fallback_status' = TRUE
              /\ UNCHANGED <<last_declare_job_store, template_id_to_upstream_job_id>>
        /\ UNCHANGED <<template_store, last_future_template, last_new_prev_hash,
                       upstream_channel, job_factory, allocate_tokens,
                       request_id_factory, pending_downstream_requests,
                       downstream_channels, config_mode,
                       upstream_state, jd_mode, tp_tip, tp_futures, builds_on,
                       rtd_requests, open_requested, token_requested,
                       supervisor, upstreams_left, complete_tx, log_vars>>

\* handle_close_channel: drop the Pool channel and return a fallback error.
PoolCloseChannel ==
    /\ upstream_channel
    /\ upstream_channel' = FALSE
    /\ fallback_status' = TRUE
    /\ UNCHANGED <<template_store, last_future_template, last_new_prev_hash,
                   last_declare_job_store, template_id_to_upstream_job_id,
                   job_factory, allocate_tokens, request_id_factory,
                   pending_downstream_requests,
                   downstream_channels, config_mode, upstream_state, jd_mode,
                   peer_vars, supervisor, upstreams_left, complete_tx,
                   log_vars>>

-----------------------------------------------------------------------------
(* JDS and supervisor                                                      *)

\* The JDS answers AllocateMiningJobToken; the job declarator handler
\* (not under src/) stores the token in allocate_tokens.
JdsAllocateTokenSuccess ==
    /\ token_requested
    /\ token_requested' = FALSE
    /\ allocate_tokens' = TRUE
    /\ UNCHANGED <<template_store, last_future_template, last_new_prev_hash,
                   last_declare_job_store, template_id_to_upstream_job_id,
                   upstream_channel, job_factory, request_id_factory,
                   pending_downstream_requests,
                   downstream_channels, config_mode, upstream_state, jd_mode,
                   tp_tip, tp_futures, builds_on, rtd_requests,
                   open_requested, pool_requests, sup_vars, log_vars>>

\* The status loop takes an UpstreamShutdownFallback (or JobDeclarator-
\* ShutdownFallback) status: it broadcasts UpstreamShutdownFallback, sets
\* SoloMining and waits on shutdown_complete_rx.  The Upstream and
\* JobDeclarator tasks of the old pair exit on the broadcast and drop their
\* senders; the Channel Manager drops what it held for the old upstream
\* (the Upstream, JobDeclarator and Channel Manager fallback handlers are
\* not under src/; from the spec).
SupervisorStartFallback ==
    /\ supervisor = "Running"
    /\ fallback_status
    /\ fallback_status' = FALSE
    /\ supervisor' = "AwaitComplete"
    /\ complete_tx' = complete_tx \ PairTasks
    /\ jd_mode' = "SoloMining"
    /\ upstream_channel' = FALSE
    /\ job_factory' = FALSE
    /\ allocate_tokens' = FALSE
    /\ last_declare_job_store' = <<>>
    /\ pending_downstream_requests' = 0
    /\ open_requested' = FALSE
    /\ pool_requests' = {}
    /\ token_requested' = FALSE
    /\ UNCHANGED <<template_store, last_future_template, last_new_prev_hash,
                   template_id_to_upstream_job_id, request_id_factory,
                   upstream_state, downstream_channels, config_mode, tp_tip,
                   tp_futures, builds_on, rtd_requests, upstreams_left,
                   log_vars>>

\* shutdown_complete_rx.recv() returns once every sender of the channel is
\* dropped; then rx.recv() returns once every subsystem has dropped its
\* clone of the acknowledgement sender (merged here: the subscribers drop
\* it when they handle the broadcast), and a fresh shutdown_complete
\* channel replaces the old one before initialize_jd runs again.
FallbackTakenOut ==
    /\ supervisor = "AwaitComplete"
    /\ complete_tx = {}
    /\ supervisor' = "Reconnecting"
    /\ UNCHANGED <<cm_vars, peer_vars, fallback_status, upstreams_left,
                   complete_tx, log_vars>>

\* try_initialize_single succeeds: Upstream::new connects to the Pool and
\* JobDeclarator::new to the JDS.  The code here only hands
\* JobDeclarator::new the configured mode (mod.rs:571); that it sets the
\* process-wide mode back from SoloMining is taken from the specification
\* (JobDeclarator is not under src/).
TryInitializeSingleOk ==
    jd_mode' = config_mode

\* The Ok arm of the fallback: Upstream::start takes a clone of
\* shutdown_complete_tx_fallback and JobDeclarator::start the sender
\* itself, the upstream state becomes NoChannel and a token is requested.
StartPair ==
    /\ complete_tx' = PairTasks
    /\ upstream_state' = "NoChannel"
    /\ token_requested' = TRUE

\* Mutant: the fallback's shutdown_complete sender outlives a failed walk.
WalkFails_KeepSender ==
    /\ upstream_state' = "SoloMining"
    /\ jd_mode' = "SoloMining"
    /\ complete_tx' = {"Start"}

\* initialize_jd returned CouldNotInitiateSystem inside the loop: the
\* upstream state and the mode become SoloMining, and the arm ends with
\* shutdown_complete_tx_fallback dropped, unused.
WalkFails ==
    /\ upstream_state' = "SoloMining"
    /\ jd_mode' = "SoloMining"
    /\ complete_tx' = {}

\* initialize_jd walks the entries not yet flagged: the k-th one connects
\* (it is flagged, and Upstream::start and JobDeclarator::start take the
\* two senders of the fallback's shutdown_complete channel), or every
\* entry fails its MAX_RETRIES attempts and is flagged.
SupervisorFinishFallback ==
    /\ supervisor = "Reconnecting"
    /\ supervisor' = "Running"
    /\ \/ \E k \in 1..upstreams_left :
            /\ upstreams_left' = upstreams_left - k
            /\ TryInitializeSingleOk
            /\ StartPair
       \/ /\ upstreams_left' = 0
          /\ WalkFails
          /\ UNCHANGED token_requested
    /\ UNCHANGED <<template_store, last_future_template, last_new_prev_hash,
                   last_declare_job_store, template_id_to_upstream_job_id,
                   upstream_channel, job_factory, allocate_tokens,
                   request_id_factory, pending_downstream_requests,
                   downstream_channels, config_mode,
                   tp_tip, tp_futures, builds_on, rtd_requests,
                   open_requested, pool_requests, fallback_status, log_vars>>

\* The loop breaks and start ends with task_manager.abort_all() and
\* join_all(): no task of the JDC runs any more.
GracefulShutdown ==
    supervisor' = "Stopped"

\* The other arms of the status loop's select!: Ctrl+C, or a
\* TemplateReceiverShutdown or ChannelManagerShutdown status, sends
\* ShutdownAll and breaks out of the loop.
SupervisorShutdown ==
    /\ supervisor = "Running"
    /\ GracefulShutdown
    /\ UNCHANGED <<cm_vars, peer_vars, fallback_status, upstreams_left,
                   complete_tx, log_vars>>

\* A DownstreamShutdown status: the loop broadcasts DownstreamShutdown for
\* that downstream, whose channels the Channel Manager drops (its handler
\* is not under src/).
SupervisorDownstreamShutdown ==
    /\ supervisor = "Running"
    /\ downstream_channels > 0
    /\ downstream_channels' = downstream_channels - 1
    /\ UNCHANGED <<template_store, last_future_template, last_new_prev_hash,
                   last_declare_job_store, template_id_to_upstream_job_id,
                   upstream_channel, job_factory, allocate_tokens,
                   request_id_factory, pending_downstream_requests,
                   upstream_state, jd_mode, config_mode,
                   peer_vars, sup_vars, log_vars>>

-----------------------------------------------------------------------------

\* Once the JDC has stopped, neither its peers' messages nor its own
\* handlers run.
PeerStep ==
    \/ TpNewTemplate
    \/ TpSetNewPrevHash
    \/ TpRequestTxDataAnswer
    \/ DownstreamOpenChannel
    \/ PoolOpenExtendedSuccess
    \/ PoolRejectsOpen
    \/ PoolAnswersCustomJob
    \/ PoolCloseChannel
    \/ JdsAllocateTokenSuccess

Next ==
    \/ supervisor # "Stopped" /\ PeerStep
    \/ SupervisorStartFallback
    \/ FallbackTakenOut
    \/ SupervisorFinishFallback
    \/ SupervisorShutdown
    \/ SupervisorDownstreamShutdown

\* The Pool answers every SetCustomMiningJob it received, the JDS every
\* token request, and the supervisor loop takes every status; the Template
\* Provider and the downstreams may stay silent.
Fairness ==
    /\ WF_vars(supervisor # "Stopped" /\ PoolAnswersCustomJob)
    /\ WF_vars(supervisor # "Stopped" /\ JdsAllocateTokenSuccess)
    /\ WF_vars(SupervisorStartFallback)
    /\ WF_vars(FallbackTakenOut)
    /\ WF_vars(SupervisorFinishFallback)

Spec == Init /\ [][Next]_vars /\ Fairness

-----------------------------------------------------------------------------
(* Properties                                                              *)

TypeOK ==
    /\ template_store \subseteq TemplateIds
    /\ last_future_template \in {NoTemplate} \cup TemplateIds
    /\ last_new_prev_hash \in {NoTemplate} \cup TemplateIds
    /\ DOMAIN last_declare_job_store \subseteq RequestIds
    /\ \A r \in DOMAIN last_declare_job_store : last_declare_job_store[r] \in DeclaredJob
    /\ template_id_to_upstream_job_id \subseteq TemplateIds
    /\ {upstream_channel, job_factory, allocate_tokens} \subseteq BOOLEAN
    /\ request_id_factory \in 0..(MaxRequestId + 1)
    /\ pending_downstream_requests \in 0..NumDownstreams
    /\ upstream_state \in UpstreamStates
    /\ jd_mode \in JdModes
    /\ config_mode \in ConfigModes
    /\ downstream_channels \in 0..NumDownstreams
    /\ tp_tip \in {NoTemplate} \cup TemplateIds
    /\ tp_futures \subseteq TemplateIds
    /\ builds_on \in Seq({NoTemplate} \cup TemplateIds)
    /\ rtd_requests \in Seq(TemplateIds)
    /\ {open_requested, token_requested, fallback_status} \subseteq BOOLEAN
    /\ pool_requests \subseteq RequestIds
    /\ supervisor \in SupervisorStates
    /\ complete_tx \subseteq CompleteHolders
    /\ upstreams_left \in 0..(NumUpstreams - 1)
    /\ jds_log \in Seq(SentJob)
    /\ custom_log \subseteq SentJob

\* Every job the JDC hands out, a DeclareMiningJob to the JDS or a
\* SetCustomMiningJob to the Pool, pairs its template with the prev-hash
\* that template builds on: handle_set_new_prev_hash picks the declared
\* job and the custom-job template by last_future_template, and
\* handle_request_tx_data_success decides "activated" from a prev-hash read
\* earlier in the handler.
JobsOnActivatingTip ==
    /\ \A i \in 1..Len(jds_log) : Activates(jds_log[i].tid, jds_log[i].tip)
    /\ \A j \in custom_log : Activates(j.tid, j.tip)

\* A DeclareMiningJob cached for a template the current tip activates has
\* been sent to the JDS: a future template whose transactions arrived
\* before its SetNewPrevHash is forwarded by handle_set_new_prev_hash.
ActivatedDeclaredJobIsSent ==
    \A r \in DOMAIN last_declare_job_store :
        LET j == last_declare_job_store[r] IN
        j.kind = "declare" /\ Activates(j.tid, last_new_prev_hash)
            => \E i \in 1..Len(jds_log) : jds_log[i].req = r

\* No DeclareMiningJob is sent to the JDS twice: the transaction-data
\* handler and the prev-hash handler never both forward the same job.
DeclaredAtMostOnce ==
    \A i, k \in 1..Len(jds_log) : i # k => jds_log[i].req # jds_log[k].req

\* Every SetCustomMiningJob cached in last_declare_job_store is eventually
\* removed: by its own Success, by the Success of a sibling job for the
\* same template, or by a fallback; unless the JDC shuts down first.
CustomJobsSettle ==
    \A r \in RequestIds :
        (r \in DOMAIN last_declare_job_store /\ last_declare_job_store[r].kind = "custom")
            ~> (r \notin DOMAIN last_declare_job_store \/ supervisor = "Stopped")

\* Every fallback the status loop takes comes to an end: after the old
\* Upstream and JobDeclarator are taken out (shutdown_complete_rx.recv())
\* and initialize_jd has run, the loop reads statuses and Ctrl+C again;
\* the spec bounds the wait for the subsystems by a 5 s timeout.
FallbackResolves ==
    (supervisor = "AwaitComplete") ~> (supervisor = "Running")

\* A job on prev-hash p has been sent, or is on its way: a RequestTransaction-
\* Data is pending for a stored template valid on p.
JobUnderway(p) ==
    \/ \E i \in 1..Len(jds_log) : jds_log[i].tip = p
    \/ \E j \in custom_log : j.tip = p
    \/ \E i \in 1..Len(rtd_requests) :
          rtd_requests[i] \in template_store /\ Activates(rtd_requests[i], p)

\* When OpenExtendedMiningChannelSuccess brings the Pool channel up while the
\* JDC holds a token and the tip that activated last_future_template, a job
\* on that tip is sent or on its way: the handler replays last_future_template
\* as a RequestTransactionData (FullTemplate) or a SetCustomMiningJob
\* (CoinbaseOnly), so the new channel starts with a valid job and prev-hash.
InitialJobOnOpen ==
    [][ /\ upstream_state # "Connected" /\ upstream_state' = "Connected"
        /\ allocate_tokens /\ last_future_template # NoTemplate
        /\ last_new_prev_hash = last_future_template
        => JobUnderway(last_new_prev_hash)' ]_vars

=============================================================================
