---------------------------- MODULE TproxySv1Jobs ----------------------------
(***************************************************************************)
(* The translator Sv1Server's job store and job keepalive (sv1_server.rs): *)
(* NewExtendedMiningJob and SetNewPrevHash from the channel manager fill   *)
(* valid_sv1_jobs (one list per channel, or the one AGGREGATED_CHANNEL_ID  *)
(* list in aggregated mode) and are sent to the miners; the keepalive loop *)
(* wakes up, collects the downstreams whose last job is older than the     *)
(* interval, and for each of them, in DashMap order, clones the last job  *)
(* of its list into a keepalive job "{original}#{counter}" with ntime      *)
(* advanced by the interval and capped at the original job's ntime plus   *)
(* MAX_FUTURE_BLOCK_TIME, pushes it onto the list and sends it.            *)
(*                                                                         *)
(* The keepalive future is polled by the Sv1Server's select! loop and has  *)
(* no await between its sleep and the end of a round, so a round is one   *)
(* atomic step.  Downstreams are connected, handshaken and have a channel  *)
(* (their life cycle is TproxySv1Channels).  The time a job is "older than *)
(* the interval" is abstracted to a flag the passing of time sets.  ntime  *)
(* is a u32 whose width is abstracted to U32Max, so saturating_add         *)
(* saturates within the model.                                             *)
(*                                                                         *)
(* A miner's share goes upstream through handle_submit_shares, which maps *)
(* a keepalive job id back to the upstream job it repeats; the share keeps *)
(* the ntime of the job it was mined on.                                  *)
(***************************************************************************)
EXTENDS Naturals, Sequences, FiniteSets, SequencesExt

CONSTANTS
    Modes,                 \* values config.aggregate_channels may have
    NumDownstreams,
    MaxUpstreamJobs,       \* NewExtendedMiningJob messages over the run
    JobTimes,              \* ntimes the upstream puts in its jobs
    KeepaliveInterval,     \* job_keepalive_interval_secs
    MaxFutureBlockTime,    \* MAX_FUTURE_BLOCK_TIME (2 h), scaled
    U32Max,                \* u32::MAX, scaled
    MaxShares              \* shares the miners submit over the run

ASSUME Modes \subseteq BOOLEAN /\ Modes # {} /\ NumDownstreams \in Nat \ {0}
ASSUME JobTimes \subseteq 0..U32Max
ASSUME KeepaliveInterval \in Nat \ {0} /\ MaxFutureBlockTime \in Nat
ASSUME MaxShares \in Nat

VARIABLES
    aggregate_channels,     \* config.aggregate_channels, fixed for the run
    prevhashes,            \* channel -> job id of its SetNewPrevHash, 0 if none
    valid_sv1_jobs,        \* channel -> Seq(Job)
    keepalive_job_id_counter,
    upstream_jobs,         \* upstream job ids sent so far
    last_notify,           \* downstream -> last mining.notify it was sent
    due,                   \* downstream -> last job older than the interval
    sequence_counter,
    job_sent               \* history: upstream job id -> channel and ntime

AGGREGATED_CHANNEL_ID == 1
Downstreams == 1..NumDownstreams
\* get_last_job / get_original_job: the job list a downstream is served
\* from; in non-aggregated mode downstream d owns channel d.
ChannelOf(d) == IF aggregate_channels THEN AGGREGATED_CHANNEL_ID ELSE d
Channels == {ChannelOf(d) : d \in Downstreams}
UpstreamJobIds == 1..MaxUpstreamJobs
\* a job of valid_sv1_jobs: the upstream job it came from, 0 for the
\* upstream job itself or n for the keepalive job "{orig}#{n-1}", and ntime
Job == [orig : UpstreamJobIds, ka : Nat, time : 0..U32Max]
NoJob == [orig |-> 0, ka |-> 0, time |-> 0]
\* a job id as the share carries it: "{orig}" (ka = 0) or "{orig}#{ka-1}"
JobId == [orig : UpstreamJobIds, ka : Nat]
NotSent == [channel |-> 0, time |-> 0]

SaturatingAdd(a, b) == IF a + b > U32Max THEN U32Max ELSE a + b
MinOf(a, b) == IF a <= b THEN a ELSE b

vars == <<aggregate_channels, prevhashes, valid_sv1_jobs, keepalive_job_id_counter,
          upstream_jobs, last_notify, due, sequence_counter, job_sent>>
share_vars == <<sequence_counter, job_sent>>

Init ==
    /\ aggregate_channels \in Modes
    /\ prevhashes = [c \in Channels |-> 0]
    /\ valid_sv1_jobs = [c \in Channels |-> <<>>]
    /\ keepalive_job_id_counter = 0
    /\ upstream_jobs = 0
    /\ last_notify = [d \in Downstreams |-> NoJob]
    /\ due = [d \in Downstreams |-> FALSE]
    /\ sequence_counter = 1
    /\ job_sent = [j \in UpstreamJobIds |-> NotSent]

-----------------------------------------------------------------------------
(* Messages from the channel manager (handle_upstream_message)            *)

\* SetNewPrevHash: prevhashes[channel] is replaced; it names the upstream
\* job it activates, which the channel manager sends next.
HandleSetNewPrevHash ==
    \E c \in Channels :
        /\ upstream_jobs < MaxUpstreamJobs
        /\ prevhashes' = [prevhashes EXCEPT ![c] = upstream_jobs + 1]
        /\ UNCHANGED <<valid_sv1_jobs, keepalive_job_id_counter,
                       upstream_jobs, last_notify, due, share_vars>>

\* NewExtendedMiningJob: without a prev-hash for the channel the job is
\* dropped; otherwise clean_jobs is "job id = prevhash.job_id", a clean job
\* empties the channel's list, the job is pushed and sent to the miners of
\* the channel, which resets their job timer.
HandleNewExtendedMiningJob ==
    \E c \in Channels, t \in JobTimes :
        LET j == upstream_jobs + 1
            job == [orig |-> j, ka |-> 0, time |-> t]
            clean == (j = prevhashes[c])
            rcv == {d \in Downstreams : ChannelOf(d) = c}
        IN
        /\ j <= MaxUpstreamJobs
        /\ upstream_jobs' = j
        /\ IF prevhashes[c] = 0
           THEN UNCHANGED <<valid_sv1_jobs, last_notify, due, job_sent>>
           ELSE /\ valid_sv1_jobs' = [valid_sv1_jobs EXCEPT ![c] =
                                        (IF clean THEN <<>> ELSE @) \o <<job>>]
                /\ last_notify' = [d \in Downstreams |->
                                      IF d \in rcv THEN job ELSE last_notify[d]]
                /\ due' = [d \in Downstreams |-> IF d \in rcv THEN FALSE ELSE due[d]]
                /\ job_sent' = [job_sent EXCEPT ![j] = [channel |-> c, time |-> t]]
        /\ UNCHANGED <<prevhashes, keepalive_job_id_counter, sequence_counter>>

\* Time passes: some miners' last job becomes older than the interval.
Tick ==
    \E S \in SUBSET Downstreams \ {{}} :
        /\ \A d \in S : ~due[d] /\ last_notify[d] # NoJob
        /\ due' = [d \in Downstreams |-> due[d] \/ d \in S]
        /\ UNCHANGED <<prevhashes, valid_sv1_jobs, keepalive_job_id_counter,
                       upstream_jobs, last_notify, share_vars>>

-----------------------------------------------------------------------------
(* The keepalive loop (spawn_job_keepalive_loop)                           *)

\* get_original_job: the upstream job of the list the keepalive derives from.
OriginalJob(jobs, o) == SelectSeq(jobs, LAMBDA x : x.orig = o /\ x.ka = 0)

\* Mutant: plain addition instead of saturating_add.
KeepaliveTime_Unsaturated(jobs) ==
    LET last == Last(jobs)
        orig == OriginalJob(jobs, last.orig)
        base == IF orig # <<>> THEN orig[1].time ELSE last.time
    IN MinOf(last.time + KeepaliveInterval, base + MaxFutureBlockTime)

\* Mutant: the cap is taken from the last job, not from the original.
KeepaliveTime_CapFromLast(jobs) ==
    LET last == Last(jobs) IN
    MinOf(SaturatingAdd(last.time, KeepaliveInterval),
          SaturatingAdd(last.time, MaxFutureBlockTime))

\* The ntime of the next keepalive: the last job's ntime plus the interval,
\* capped at the original job's ntime (the last job's when the original is
\* gone) plus MAX_FUTURE_BLOCK_TIME.
KeepaliveTime(jobs) ==
    LET last == Last(jobs)
        orig == OriginalJob(jobs, last.orig)
        base == IF orig # <<>> THEN orig[1].time ELSE last.time
    IN MinOf(SaturatingAdd(last.time, KeepaliveInterval),
             SaturatingAdd(base, MaxFutureBlockTime))

\* One target of a round: take get_last_job of its channel; at the cap
\* nothing is sent; otherwise the keepalive job (next keepalive id, new
\* ntime) is pushed onto valid_sv1_jobs and sent, and the miner's job
\* timer is reset.  st is the state the earlier targets of the round left.
KeepaliveFor(d, st) ==
    LET c == ChannelOf(d)
        jobs == st.jobs[c]
        new == KeepaliveTime(jobs)
        ka == [orig |-> Last(jobs).orig, ka |-> st.counter + 1, time |-> new]
    IN
    IF jobs = <<>> \/ new = Last(jobs).time THEN st
    ELSE [jobs |-> [st.jobs EXCEPT ![c] = Append(@, ka)],
          counter |-> st.counter + 1,
          notify |-> [st.notify EXCEPT ![d] = ka],
          due |-> [st.due EXCEPT ![d] = FALSE]]

RECURSIVE KeepaliveRound(_, _)
KeepaliveRound(targets, st) ==
    IF targets = <<>> THEN st
    ELSE KeepaliveRound(Tail(targets), KeepaliveFor(Head(targets), st))

\* The loop wakes up, collects keepalive_targets (the due downstreams) and
\* serves them in the DashMap's iteration order.
JobKeepalive ==
    LET targets == {d \in Downstreams : due[d]} IN
    /\ targets # {}
    /\ \E order \in SetToSeqs(targets) :
          LET st == KeepaliveRound(order,
                      [jobs |-> valid_sv1_jobs, counter |-> keepalive_job_id_counter,
                       notify |-> last_notify, due |-> due])
          IN /\ valid_sv1_jobs' = st.jobs
             /\ keepalive_job_id_counter' = st.counter
             /\ last_notify' = st.notify
             /\ due' = st.due
    /\ UNCHANGED <<prevhashes, upstream_jobs, share_vars>>

-----------------------------------------------------------------------------
(* Share submission (handle_downstream_message, handle_submit_shares)      *)

\* is_keepalive_job_id: the job id contains KEEPALIVE_JOB_ID_DELIMITER;
\* upstream job ids are numbers and never do.
IsKeepaliveJobId(id) == id.ka > 0

\* extract_original_job_id: the part before the first delimiter.
ExtractOriginalJobId(id) == [orig |-> id.orig, ka |-> 0]

\* The SubmitSharesExtended that handle_submit_shares builds for a share
\* downstream d mined on the job it was last sent: the downstream's
\* channel, the job id with a keepalive id replaced by the original
\* upstream job id, and the ntime of the job.
SubmitSharesExtended(d) ==
    LET job == last_notify[d]
        id == [orig |-> job.orig, ka |-> job.ka]
    IN [channel |-> ChannelOf(d),
        job |-> IF IsKeepaliveJobId(id) THEN ExtractOriginalJobId(id) ELSE id,
        ntime |-> job.time]

\* A miner's mining.submit becomes the downstream's pending_share, which
\* handle_downstream_message passes to handle_submit_shares: the share
\* takes the next sequence_counter value and SubmitSharesExtended(d) goes to
\* the channel manager.  A miner may submit in any state, so the share
\* itself is not kept: ShareNamesUpstreamJob checks the one every miner
\* would submit in every state.  A share without a job version is skipped
\* before anything changes (sv1_server.rs:416-422): a stuttering step.
HandleSubmitShares(d) ==
    /\ last_notify[d] # NoJob
    /\ sequence_counter <= MaxShares
    /\ sequence_counter' = sequence_counter + 1
    /\ UNCHANGED <<prevhashes, valid_sv1_jobs, keepalive_job_id_counter,
                   upstream_jobs, last_notify, due, job_sent>>

-----------------------------------------------------------------------------

Next ==
    /\ UNCHANGED aggregate_channels
    /\ \/ HandleSetNewPrevHash
       \/ HandleNewExtendedMiningJob
       \/ Tick
       \/ JobKeepalive
       \/ \E d \in Downstreams : HandleSubmitShares(d)

Spec == Init /\ [][Next]_vars

-----------------------------------------------------------------------------
(* Properties                                                              *)

TypeOK ==
    /\ aggregate_channels \in Modes
    /\ prevhashes \in [Channels -> 0..MaxUpstreamJobs]
    /\ \A c \in Channels : \A i \in 1..Len(valid_sv1_jobs[c]) :
           valid_sv1_jobs[c][i] \in Job
    /\ keepalive_job_id_counter \in Nat
    /\ upstream_jobs \in 0..MaxUpstreamJobs
    /\ \A d \in Downstreams : last_notify[d] \in Job \cup {NoJob}
    /\ due \in [Downstreams -> BOOLEAN]
    /\ sequence_counter \in 1..(MaxShares + 1)
    /\ job_sent \in [UpstreamJobIds -> [channel : Channels, time : JobTimes] \cup {NotSent}]

\* Each keepalive a miner receives advances ntime by at most one interval
\* over the last job that miner was sent: keepalive ntime "increments each
\* interval".
KeepaliveStep ==
    [][\A d \in Downstreams :
         (last_notify'[d] # last_notify[d] /\ last_notify'[d].ka > 0)
            => last_notify'[d].time <= SaturatingAdd(last_notify[d].time, KeepaliveInterval)
      ]_vars

\* Every share the translator forwards upstream names an upstream job of
\* the share's channel, never a keepalive job id, and carries an ntime no
\* earlier than that job's and at most MAX_FUTURE_BLOCK_TIME later: the
\* keepalive ids handle_submit_shares maps back and the ntimes the
\* keepalive loop advanced are ones the Pool can validate.
ShareNamesUpstreamJob ==
    \A d \in Downstreams : last_notify[d] # NoJob =>
        LET share == SubmitSharesExtended(d)
            sent == job_sent[share.job.orig]
        IN /\ share.job.ka = 0
           /\ sent.channel = share.channel
           /\ sent.time <= share.ntime
           /\ share.ntime <= SaturatingAdd(sent.time, MaxFutureBlockTime)

====
