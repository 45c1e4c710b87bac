------------------------------ MODULE JobTable ------------------------------
(***************************************************************************)
(* The heart of jersd: the table of jobs, the per-state counters, the list *)
(* of deferred jobs, the scheduler and its candidate pool, the resources   *)
(* jobs hold, the background save and the link to the agents.              *)
(*                                                                         *)
(* jersd is one thread: a handler or a timed event runs to its end before  *)
(* the next one.  A handler without a loop is one action.  A handler that  *)
(* loops over jobs takes one step per iteration; while it does, `at' names *)
(* it and every other handler waits for "idle".                            *)
(*                                                                         *)
(* What an agent can answer is kept to what an agent can hold: `inst'      *)
(* counts the instances of a job an agent has been sent, runs, or has      *)
(* finished and not yet reported.  Messages are lost only with the link.   *)
(*                                                                         *)
(* A definition X with an XMut before it has a mutated form, which no      *)
(* definition uses: it shows that a property notices the mistake.          *)
(***************************************************************************)
EXTENDS Integers, Sequences, FiniteSets

CONSTANTS
    MaxJobId,     \* server.max_jobid: ids run from 1 to MaxJobId
    Queues,       \* the queues
    DefaultQueue, \* server.defaultQueue, one of Queues
    Agents,       \* hosts that may run an agent
    Resources,    \* consumable resources
    ResCount,     \* [Resources -> Nat], how many of each there are
    AddArgs,      \* jersJobAdd requests clients send, records of AddRequest
    ModArgs,      \* jersJobMod requests clients send, records of ModRequest
    QueueArgs,    \* jersQueueMod requests clients send, records of QueueRequest
    MaxRunJobs,   \* server.max_run_jobs, or Unlimited
    SchedMax,     \* server.sched_max
    MaxCleanup,   \* server.max_cleanup
    NoSave,       \* server.nosave: no background saves
    InitLimit,    \* job_limit of the queues to start with
    NoQueue, NoAgent, NoJob, \* NULL pointers
    Unset,        \* a field a request does not have
    MaxTime,      \* bound: clock ticks
    MaxConnects,  \* bound: agent connections
    LeakBound     \* bound: how far a counter may drift from what it counts

Unlimited == -1

JobIds == 1 .. MaxJobId

Waiting == {"pending", "deferred", "holding"}
Ended == {"completed", "exited", "unknown"}
JobStates == {"running"} \cup Waiting \cup Ended
NoState == "none" \* state 0: a deleted job, or no job

Phases == {"sent", "running", "finished"}

\* What a job needs of each resource: the sum and the largest of the entries
\* of its request for it.
Needs == [Resources -> [total : Nat, largest : Nat]]
NoNeeds == [r \in Resources |-> [total |-> 0, largest |-> 0]]

Maybe(S) == S \cup {Unset}
AddRequest == [jobid : 0 .. MaxJobId, queue : Queues, defer : Nat,
               hold : BOOLEAN, prio : Int, res : Needs]
ModRequest == [restart : BOOLEAN, defer : Maybe(Nat), hold : Maybe(BOOLEAN),
               queue : Queues \cup {NoQueue}, prio : Maybe(Int),
               res : Maybe(Needs)]
QueueRequest == [state : Maybe(SUBSET {"open", "started"}), limit : Maybe(Int),
                 prio : Maybe(Int), host : Maybe(Agents)]

ASSUME JobIdsAssumption == MaxJobId \in Nat \ {0}
ASSUME QueuesAssumption ==
    DefaultQueue \in Queues /\ NoQueue \notin Queues /\ NoAgent \notin Agents
ASSUME NoJobAssumption == NoJob \notin JobIds
\* Written over the fields: TLC cannot test membership in sets of records
\* over an Unset.
ASSUME RequestsAssumption ==
    /\ \A r \in AddArgs : r \in AddRequest
    /\ \A m \in ModArgs : m \in ModRequest
    /\ \A m \in QueueArgs : m \in QueueRequest
ASSUME LimitsAssumption ==
    /\ ResCount \in [Resources -> Int]
    /\ MaxRunJobs \in Int /\ SchedMax \in Nat /\ InitLimit \in Int /\ MaxCleanup \in Nat
    /\ NoSave \in BOOLEAN
    /\ MaxTime \in Nat /\ MaxConnects \in Nat /\ LeakBound \in Nat

VARIABLES
    table,      \* server.jobTable: ids of the jobs in memory
    state,      \* j->state
    queue,      \* j->queue
    deferTime,  \* j->defer_time, 0 when the job is not deferred
    prio,       \* j->priority
    req,        \* j->req_resources
    deleted,    \* jobs with JERS_FLAG_DELETED
    started,    \* jobs with JERS_FLAG_JOB_STARTED
    flushing,   \* jobs with JERS_FLAG_FLUSHING
    dirty,      \* jobs with obj.dirty
    deferredList,      \* server.deferred_list
    pool,              \* server.candidate_pool[0 .. candidate_pool_jobs - 1]
    poolSize,          \* server.candidate_pool_size
    recalc,            \* server.candidate_recalc
    jobStats,          \* server.stats.jobs, by state
    queueStats,        \* q->stats, by queue and state
    startPending,      \* server.stats.jobs.start_pending
    queueStartPending, \* q->stats.start_pending
    deletedCount,      \* server.deleted
    startJobId,        \* server.start_jobid
    inUse,             \* r->in_use
    qState, qLimit, qPrio, qHost, qAgent, \* a queue's state flags, job_limit,
                                          \*   priority, host and agent
    connected, loggedIn, recon, \* agents by socket, logged_in and recon
    saving,     \* dirtyJobs[]: jobs the running background save writes
    savePid,    \* a background save runs (server.flush.pid # 0)
    readonly,   \* server.readonly
    now,        \* time(NULL)
    at, cursor, quota, who, todo, \* the handler in progress and its locals
    alive,      \* FALSE once jersd has stopped or its behaviour is undefined
    inst,       \* instances of jobs on agents, by phase
    connects    \* agent connections so far

jobVars   == <<table, state, queue, deferTime, prio, req>>
flagVars  == <<deleted, started, flushing, dirty>>
poolVars  == <<pool, poolSize, recalc>>
statVars  == <<jobStats, queueStats, startPending, queueStartPending>>
idVars    == <<deletedCount, startJobId>>
queueVars == <<qState, qLimit, qPrio, qHost, qAgent>>
agentVars == <<connected, loggedIn, recon, connects>>
saveVars  == <<saving, savePid, readonly>>
loopVars  == <<at, cursor, quota, who, todo>>
vars == <<jobVars, flagVars, deferredList, poolVars, statVars, idVars, inUse,
          queueVars, agentVars, saveVars, now, loopVars, alive, inst>>

(***************************************************************************)
(* Helpers.                                                                *)
(***************************************************************************)
One(b) == IF b THEN 1 ELSE 0
Idle == alive /\ at = "idle"
InState(s) == {j \in JobIds : state[j] = s}
InDeferredList(j) == \E i \in DOMAIN deferredList : deferredList[i] = j

\* The bound on what leaks: once the counters together are more than LeakBound
\* off, or an agent holds more than LeakBound instances of a job besides the
\* one it should, no job is added, deleted or scheduled until that is over.
UnderBound ==
    /\ startPending + deletedCount
         + jobStats["pending"] + jobStats["deferred"] + jobStats["holding"]
         + jobStats["running"] + jobStats["completed"] + jobStats["exited"]
         + jobStats["unknown"]
         <= Cardinality(started) + Cardinality(deleted)
              + Cardinality({j \in JobIds : state[j] # NoState}) + LeakBound
    /\ \A a \in Agents, j \in JobIds :
          inst[a][j]["sent"] + inst[a][j]["running"] <= 1 + LeakBound

\* assert(), error_die(), a NULL or stale pointer: nothing defined follows.
Die == /\ alive' = FALSE
       /\ UNCHANGED <<jobVars, flagVars, deferredList, poolVars, statVars,
                      idVars, inUse, queueVars, agentVars, saveVars, now,
                      loopVars, inst>>

(***************************************************************************)
(* changeJobState(): j moves to state s and, unless nq is NoQueue, to      *)
(* queue nq.  The counters follow, a start that was pending is over when   *)
(* the job is running or has exited, and a new waiting job asks for a new  *)
(* candidate pool.                                                         *)
(***************************************************************************)
Moves(j, s, nq) == state[j] # s \/ nq # NoQueue

\* decrement_state() and increment_state(), on one set of counters.
Less(f, s) == [x \in JobStates |-> f[x] - One(x = s)]
MoreMut(f, s) == IF s = "running" THEN f ELSE [x \in JobStates |-> f[x] + One(x = s)]
More(f, s) == [x \in JobStates |-> f[x] + One(x = s)]

\* The start of j is over when it comes to state s.
StartOverMut(j, s) == s \in {"running", "exited"}
StartOver(j, s) == j \in started /\ s \in {"running", "exited"}

MoveQueueStats(j, s, q2) ==
    LET left == [queueStats EXCEPT ![queue[j]] = Less(@, state[j])]
    IN  [left EXCEPT ![q2] = More(@, s)]

MoveJob(j, s, nq) ==
    LET q2 == IF nq = NoQueue THEN queue[j] ELSE nq
        slot == One(Moves(j, s, nq) /\ StartOver(j, s))
    IN  /\ state' = [state EXCEPT ![j] = s]
        /\ queue' = [queue EXCEPT ![j] = q2]
        /\ jobStats' = More(Less(jobStats, state[j]), s)
        /\ queueStats' = MoveQueueStats(j, s, q2)
        /\ startPending' = startPending - slot
        /\ queueStartPending' = [queueStartPending EXCEPT ![q2] = @ - slot]

ChangeJobState(j, s, nq) ==
    /\ MoveJob(j, s, nq)
    /\ recalc' = (recalc \/ (Moves(j, s, nq) /\ s \in Waiting))

(***************************************************************************)
(* server.deferred_list, kept in order of defer time.                      *)
(***************************************************************************)
\* addDeferredJob(): before the first entry that is not earlier than t.
LowerBound(list, t) ==
    CHOOSE i \in 1 .. Len(list) + 1 :
        /\ \A k \in 1 .. i - 1 : deferTime[list[k]] < t
        /\ i <= Len(list) => deferTime[list[i]] >= t

AddDeferredJob(list, j, t) ==
    LET i == LowerBound(list, t)
    IN  SubSeq(list, 1, i - 1) \o <<j>> \o SubSeq(list, i, Len(list))

\* removeDeferredJob() of an entry of the list.
RemoveDeferredJobMut(list, j) == list
RemoveDeferredJob(list, j) ==
    LET i == CHOOSE i \in 1 .. Len(list) : list[i] = j
    IN  SubSeq(list, 1, i - 1) \o SubSeq(list, i + 1, Len(list))

(***************************************************************************)
(* Resources.                                                              *)
(***************************************************************************)
CheckResMut(j) ==
    \E r \in Resources : req[j][r].largest > ResCount[r] - inUse[r] + 1
CheckRes(j) == \E r \in Resources : req[j][r].largest > ResCount[r] - inUse[r]
AllocateRes(j) == [r \in Resources |-> inUse[r] + req[j][r].total]
DeallocateResMut(j) == [r \in Resources |-> inUse[r] - req[j][r].total]
DeallocateRes(j) ==
    [r \in Resources |-> IF inUse[r] - req[j][r].total < 0 THEN 0
                         ELSE inUse[r] - req[j][r].total]

(***************************************************************************)
(* Freeing deleted jobs.                                                   *)
(***************************************************************************)
\* cleanupJob() refuses a job that is dirty or being saved.
CleanableMut(D) == D \ dirty
Cleanable(D) == D \ (dirty \cup flushing)

\* The deleted jobs one cleanupJobs(max) visits: at most max of them, in
\* hash order, which is arbitrary here.
CleanupVisits(max) ==
    IF deletedCount = 0 THEN {{}}
    ELSE {D \in SUBSET deleted :
            Cardinality(D) = IF Cardinality(deleted) < max
                             THEN Cardinality(deleted) ELSE max}

Blank(f, F, v) == [j \in JobIds |-> IF j \in F THEN v ELSE f[j]]
PoolWithoutMut(F) == pool
PoolWithout(F) ==
    [i \in 1 .. Len(pool) |-> IF pool[i] \in F THEN NoJob ELSE pool[i]]

\* server.deleted after the jobs of F are freed.
DeletedLeft(F) == deletedCount - Cardinality(F)

\* cleanupJob() of each job of F: out of the table and the pool.
CleanupJob(F) ==
    /\ table' = table \ F
    /\ state' = Blank(state, F, NoState)
    /\ queue' = Blank(queue, F, DefaultQueue)
    /\ deferTime' = Blank(deferTime, F, 0)
    /\ prio' = Blank(prio, F, 0)
    /\ req' = Blank(req, F, NoNeeds)
    /\ deleted' = deleted \ F
    /\ started' = started \ F
    /\ pool' = PoolWithout(F)
    /\ deletedCount' = DeletedLeft(F)

\* cleanupEvent(), its jobs part: fewer jobs while the scheduler is busy.
CleanupEvent ==
    /\ Idle
    /\ LET max == IF pool # << >> \/ recalc
                  THEN (MaxCleanup + 1) \div 2 ELSE MaxCleanup
       IN  \E D \in CleanupVisits(IF max = 0 THEN 10 ELSE max) :
              /\ Cleanable(D) # {}
              /\ CleanupJob(Cleanable(D))
    /\ UNCHANGED <<flushing, dirty, deferredList, poolSize, recalc, statVars,
                   startJobId, inUse, queueVars, agentVars, saveVars, now,
                   loopVars, alive, inst>>

(***************************************************************************)
(* Client commands that change jobs.  runCommand() refuses them while      *)
(* jersd is read-only; a request that is refused changes nothing.          *)
(***************************************************************************)
\* getNextJobID(): the first id of `free' after start_jobid, wrapping to 1.
NextJobID(free) ==
    CHOOSE i \in free : \A k \in free :
        (i - startJobId - 1) % MaxJobId <= (k - startJobId - 1) % MaxJobId

\* addJob() of the job r asks for under id j, after the jobs of F have been
\* cleaned up.
AddToTable(j, F, r) ==
    LET s == IF r.defer # 0 THEN "deferred"
             ELSE IF r.hold THEN "holding" ELSE "pending"
    IN  /\ table' = (table \ F) \cup {j}
        /\ state' = [Blank(state, F, NoState) EXCEPT ![j] = s]
        /\ queue' = [Blank(queue, F, DefaultQueue) EXCEPT ![j] = r.queue]
        /\ deferTime' = [Blank(deferTime, F, 0) EXCEPT ![j] = r.defer]
        /\ prio' = [Blank(prio, F, 0) EXCEPT ![j] = r.prio]
        /\ req' = [Blank(req, F, NoNeeds) EXCEPT ![j] = r.res]
        /\ deleted' = deleted \ F
        /\ started' = started \ F
        /\ dirty' = dirty \cup {j}
        /\ pool' = PoolWithout(F)
        /\ recalc' = TRUE
        /\ deletedCount' = DeletedLeft(F)
        /\ jobStats' = [jobStats EXCEPT ![s] = @ + 1]
        /\ queueStats' = [queueStats EXCEPT ![r.queue][s] = @ + 1]
        /\ deferredList' = IF r.defer # 0
                           THEN AddDeferredJob(deferredList, j, r.defer)
                           ELSE deferredList
        /\ UNCHANGED <<flushing, poolSize, startPending, queueStartPending,
                       inUse, queueVars, agentVars, saveVars, now, loopVars,
                       alive, inst>>

\* command_add_job() with no id asked for.
AddJobNextId(r) ==
    \/ /\ table # JobIds
       /\ LET j == NextJobID(JobIds \ table)
          IN  startJobId' = j /\ AddToTable(j, {}, r)
    \/ /\ table = JobIds
       /\ \E D \in CleanupVisits(5) :
             \/ /\ Cleanable(D) # {}
                /\ LET j == NextJobID(Cleanable(D))
                   IN  startJobId' = j /\ AddToTable(j, Cleanable(D), r)
             \* deleted jobs seen, none freed: getNextJobID() calls itself
             \* again with nothing changed, and never returns.
             \/ D # {} /\ Cleanable(D) = {} /\ Die

\* command_add_job() with an id asked for; a deleted job with it is cleaned
\* up first, and stays cleaned up when the request is then found invalid.
AddJobWithId(r) ==
    LET F == table \cap {r.jobid}
    IN  /\ F \subseteq Cleanable(deleted)
        /\ \/ AddToTable(r.jobid, F, r)
           \/ /\ F # {}
              /\ CleanupJob(F)
              /\ UNCHANGED <<flushing, dirty, deferredList, poolSize, recalc,
                             statVars, inUse, queueVars, agentVars, saveVars,
                             now, loopVars, alive, inst>>
        /\ UNCHANGED startJobId

AddJob(r) ==
    /\ Idle /\ ~readonly /\ UnderBound
    /\ r.queue = DefaultQueue \/ "open" \in qState[r.queue]
    /\ \/ r.jobid = 0 /\ AddJobNextId(r)
       \/ r.jobid # 0 /\ AddJobWithId(r)

\* command_mod_job().  Unset marks a field the request does not have.  A job
\* that runs or is being started, and a hold or defer of an ended job without
\* restart, are refused.
ModJob(j, m) ==
    LET ended == state[j] \in Ended
        t == IF m.defer = Unset THEN deferTime[j] ELSE m.defer
        hold == IF m.hold = Unset THEN state[j] = "holding" ELSE m.hold
        s == CASE t # 0           -> "deferred"
               [] t = 0 /\ hold   -> "holding"
               [] t = 0 /\ ~hold  -> IF ended /\ ~m.restart THEN state[j]
                                    ELSE "pending"
        unlinked == IF deferTime[j] # 0
                    THEN RemoveDeferredJob(deferredList, j) ELSE deferredList
        changed == \/ m.defer # Unset \/ m.hold # Unset
                   \/ m.prio # Unset \/ m.res # Unset
                   \/ ended /\ m.restart
                   \/ m.queue # NoQueue \/ s # state[j]
    IN  /\ Idle /\ ~readonly
        /\ j \in table \ deleted
        /\ ended /\ ~m.restart => m.defer = Unset /\ m.hold = Unset
        /\ state[j] # "running" /\ j \notin started
        /\ IF m.defer # Unset /\ deferTime[j] # 0 /\ ~InDeferredList(j)
           THEN Die
           ELSE /\ ChangeJobState(j, s, m.queue)
                /\ deferTime' = [deferTime EXCEPT ![j] = t]
                /\ deferredList' =
                     IF m.defer = Unset THEN deferredList
                     ELSE IF m.defer = 0 THEN unlinked
                          ELSE AddDeferredJob(unlinked, j, m.defer)
                /\ prio' = [prio EXCEPT ![j] = IF m.prio = Unset THEN @
                                               ELSE m.prio]
                /\ req' = [req EXCEPT ![j] = IF m.res = Unset THEN @ ELSE m.res]
                /\ inUse' = IF m.restart /\ state[j] = "unknown"
                            THEN DeallocateRes(j) ELSE inUse
                /\ dirty' = IF changed THEN dirty \cup {j} ELSE dirty
                /\ UNCHANGED <<table, deleted, started, flushing, pool,
                               poolSize, idVars, queueVars, agentVars,
                               saveVars, now, loopVars, alive, inst>>

\* deleteJob(): flagged, counted and out of the deferred list; not dirty.
DeleteJob(j) ==
    IF deferTime[j] # 0 /\ ~InDeferredList(j)
    THEN Die
    ELSE /\ deleted' = deleted \cup {j}
         /\ ChangeJobState(j, NoState, NoQueue)
         /\ deferredList' = IF deferTime[j] # 0
                            THEN RemoveDeferredJob(deferredList, j)
                            ELSE deferredList
         /\ deletedCount' = deletedCount + 1
         /\ UNCHANGED <<table, deferTime, prio, req, started, flushing, dirty,
                        pool, poolSize, startJobId, inUse, queueVars,
                        agentVars, saveVars, now, loopVars, alive, inst>>

\* command_del_job(): any job that is not deleted yet, running or not.
DelJob(j) ==
    /\ Idle /\ ~readonly /\ UnderBound
    /\ j \in table \ deleted
    /\ DeleteJob(j)

\* autoCleanup(): one completed job whose finish time is old enough.
AutoCleanup(j) ==
    /\ Idle /\ UnderBound
    /\ j \in table \ deleted /\ state[j] = "completed"
    /\ DeleteJob(j)

\* command_sig_job(): a job in an unknown state has exited from now on; the
\* signal of a running job goes to its queue's agent, which must be there.
SigJob(j) ==
    /\ Idle
    /\ j \in table \ deleted
    /\ \/ /\ state[j] = "unknown"
          /\ ChangeJobState(j, "exited", NoQueue)
          /\ dirty' = dirty \cup {j}
          /\ inUse' = DeallocateRes(j)
          /\ UNCHANGED <<table, deferTime, prio, req, deleted, started,
                         flushing, deferredList, pool, poolSize, idVars,
                         queueVars, agentVars, saveVars, now, loopVars, alive,
                         inst>>
       \/ /\ state[j] = "running" /\ qAgent[queue[j]] = NoAgent
          /\ Die

\* command_mod_queue(): state, limit, priority or host of a queue.
ModQueue(q, m) ==
    /\ Idle /\ ~readonly
    /\ qState' = [qState EXCEPT ![q] = IF m.state = Unset THEN @ ELSE m.state]
    /\ qLimit' = [qLimit EXCEPT ![q] = IF m.limit = Unset THEN @ ELSE m.limit]
    /\ qPrio' = [qPrio EXCEPT ![q] = IF m.prio = Unset THEN @ ELSE m.prio]
    /\ qHost' = [qHost EXCEPT ![q] = IF m.host = Unset THEN @ ELSE m.host]
    /\ qAgent' = [qAgent EXCEPT ![q] = IF m.host = Unset THEN @ ELSE m.host]
    /\ UNCHANGED <<jobVars, flagVars, deferredList, poolVars, statVars, idVars,
                   inUse, agentVars, saveVars, now, loopVars, alive, inst>>

(***************************************************************************)
(* Timed events: the release of deferred jobs and the scheduler.           *)
(***************************************************************************)
DueMut(list) == list # << >> /\ deferTime[Head(list)] < now
Due(list) == list # << >> /\ deferTime[Head(list)] <= now

\* releaseDeferred(): one job a step, until the head is not due.
ReleaseDeferred ==
    /\ alive /\ at \in {"idle", "defer"}
    /\ Due(deferredList)
    /\ MoveJob(Head(deferredList), "pending", NoQueue)
    /\ deferTime' = [deferTime EXCEPT ![Head(deferredList)] = 0]
    /\ deferredList' = Tail(deferredList)
    /\ recalc' = TRUE
    /\ at' = IF Due(Tail(deferredList)) THEN "defer" ELSE "idle"
    /\ UNCHANGED <<table, prio, req, flagVars, pool, poolSize, idVars, inUse,
                   queueVars, agentVars, saveVars, now, cursor, quota, who,
                   todo, alive, inst>>

\* __comp(): queue priority, job priority, then the older id.
Before(a, b) ==
    \/ qPrio[queue[a]] > qPrio[queue[b]]
    \/ /\ qPrio[queue[a]] = qPrio[queue[b]]
       /\ \/ prio[a] > prio[b]
          \/ prio[a] = prio[b] /\ a < b

Sorted(S) ==
    LET n == Cardinality(S)
    IN  {p \in [1 .. n -> S] :
            \A x, y \in 1 .. n : x < y => Before(p[x], p[y])}

Candidates == {j \in table \ deleted : state[j] = "pending"}

\* candidate_pool_size when `total' jobs may have to fit.
PoolRoom(total) == IF poolSize < total THEN (3 * total) \div 2 ELSE poolSize

\* generateCandidatePool(): the array grows by half again when the waiting
\* jobs, by the counters, would not fit.
GenerateCandidatePool ==
    LET total == jobStats["pending"] + jobStats["deferred"] + jobStats["holding"]
    IN  /\ poolSize' = PoolRoom(total)
        /\ IF jobStats["pending"] = 0 THEN pool' = << >>
           ELSE pool' \in Sorted(Candidates)
        /\ recalc' = FALSE

AtCapacity == MaxRunJobs # Unlimited /\ jobStats["running"] >= MaxRunJobs

\* checkJobs(), up to its loop.
CheckJobs ==
    /\ Idle /\ UnderBound
    /\ ~AtCapacity
    /\ IF recalc THEN GenerateCandidatePool ELSE UNCHANGED poolVars
    /\ LET room == MaxRunJobs - jobStats["running"]
           toStart == IF MaxRunJobs # Unlimited /\ Len(pool') > room
                      THEN room ELSE Len(pool')
       IN  IF readonly \/ pool' = << >>
           THEN UNCHANGED loopVars
           ELSE /\ at' = "sched" /\ cursor' = 1 /\ quota' = toStart
                /\ UNCHANGED <<who, todo>>
    /\ UNCHANGED <<jobVars, flagVars, deferredList, statVars, idVars, inUse,
                   queueVars, agentVars, saveVars, now, alive, inst>>

\* The limits of the system and of a queue, as an iteration sees them.
SystemFull ==
    MaxRunJobs # Unlimited /\ jobStats["running"] + startPending > MaxRunJobs
QueueFullMut(q) ==
    queueStats[q]["running"] + queueStartPending[q] > qLimit[q]
QueueFull(q) ==
    queueStats[q]["running"] + queueStartPending[q] >= qLimit[q]

\* The conditions checkJobs() puts on a candidate, in its order.
Startable(j) ==
    /\ state[j] = "pending" /\ j \notin started
    /\ ~SystemFull /\ ~QueueFull(queue[j])
    /\ ~CheckRes(j)
    /\ "started" \in qState[queue[j]]
    /\ qAgent[queue[j]] # NoAgent
    /\ qAgent[queue[j]] \in loggedIn
    /\ qAgent[queue[j]] \notin recon

\* The rest of an iteration, for a candidate that can start: resources,
\* START_JOB to the agent, the flag and the two counters.
StartJob(j) ==
    /\ inUse' = AllocateRes(j)
    /\ started' = started \cup {j}
    /\ startPending' = startPending + 1
    /\ queueStartPending' = [queueStartPending EXCEPT ![queue[j]] = @ + 1]
    /\ inst' = [inst EXCEPT ![qAgent[queue[j]]][j]["sent"] = @ + 1]

\* One iteration of the loop of checkJobs().
SchedStep ==
    /\ alive /\ at = "sched"
    /\ LET j == pool[cursor]
           starts == j # NoJob /\ Startable(j)
           last == cursor = Len(pool) \/ (starts /\ quota <= 1)
       IN  /\ \/ starts /\ StartJob(j)
              \/ ~starts /\ UNCHANGED <<inUse, started, startPending,
                                        queueStartPending, inst>>
           /\ at' = IF last THEN "idle" ELSE "sched"
           /\ cursor' = IF last THEN 0 ELSE cursor + 1
           /\ quota' = IF last THEN 0 ELSE quota - One(starts)
    /\ UNCHANGED <<jobVars, deleted, flushing, dirty, deferredList, poolVars,
                   jobStats, queueStats, idVars, queueVars, agentVars,
                   saveVars, now, who, todo, alive>>

(***************************************************************************)
(* Messages of the agents and their connections.                           *)
(***************************************************************************)
\* handleAgentConnection().
AgentConnect(a) ==
    /\ Idle /\ connects < MaxConnects
    /\ a \notin connected
    /\ connected' = connected \cup {a}
    /\ loggedIn' = loggedIn \ {a}
    /\ connects' = connects + 1
    /\ UNCHANGED <<jobVars, flagVars, deferredList, poolVars, statVars, idVars,
                   inUse, queueVars, recon, saveVars, now, loopVars, alive,
                   inst>>

\* command_agent_login(), with no shared secret configured: the queues of
\* the host get the agent, and it is asked for a reconciliation.
AgentLogin(a) ==
    /\ Idle
    /\ a \in connected \ loggedIn
    /\ qAgent' = [q \in Queues |-> IF qHost[q] = a THEN a ELSE qAgent[q]]
    /\ loggedIn' = loggedIn \cup {a}
    /\ recon' = recon \cup {a}
    /\ UNCHANGED <<jobVars, flagVars, deferredList, poolVars, statVars, idVars,
                   inUse, qState, qLimit, qPrio, qHost, connected, connects,
                   saveVars, now, loopVars, alive, inst>>

\* One instance of j on a goes from phase f to phase g, or is gone.
InstMoves(a, j, f, g) ==
    /\ inst[a][j][f] > 0
    /\ inst' = [inst EXCEPT ![a][j] =
                  [ph \in Phases |-> @[ph] - One(ph = f) + One(ph = g)]]

\* command_agent_jobstart(): JOB_STARTED from the agent.  An unknown id is
\* only logged.
AgentJobStart(a, j) ==
    /\ Idle /\ a \in loggedIn
    /\ InstMoves(a, j, "sent", "running")
    /\ IF j \in table
       THEN /\ ChangeJobState(j, "running", NoQueue)
            /\ started' = started \ {j}
            /\ dirty' = dirty \cup {j}
       ELSE UNCHANGED <<state, queue, statVars, recalc, started, dirty>>
    /\ UNCHANGED <<table, deferTime, prio, req, deleted, flushing, deferredList,
                   pool, poolSize, idVars, inUse, queueVars, agentVars,
                   saveVars, now, loopVars, alive>>

\* command_agent_jobcompleted(): JOB_COMPLETED from the agent.  A job that
\* failed to start completes without having started, and never with 0.
AgentJobCompleted(a, j, ok) ==
    /\ Idle /\ a \in loggedIn
    /\ \/ InstMoves(a, j, "running", NoState)
       \/ ~ok /\ InstMoves(a, j, "sent", NoState)
    /\ IF j \in table
       THEN /\ inUse' = DeallocateRes(j)
            /\ ChangeJobState(j, IF ok THEN "completed" ELSE "exited", NoQueue)
            /\ started' = started \ {j}
            /\ dirty' = dirty \cup {j}
       ELSE UNCHANGED <<state, queue, statVars, recalc, started, dirty, inUse>>
    /\ UNCHANGED <<table, deferTime, prio, req, deleted, flushing, deferredList,
                   pool, poolSize, idVars, queueVars, agentVars, saveVars, now,
                   loopVars, alive>>

\* command_agent_recon(): RECON_RESP lists every instance the agent holds.
AgentRecon(a) ==
    /\ Idle /\ a \in loggedIn \cap recon
    /\ at' = "recon" /\ who' = a
    /\ todo' = {jp \in JobIds \X Phases : inst[a][jp[1]][jp[2]] > 0}
    /\ UNCHANGED <<jobVars, flagVars, deferredList, poolVars, statVars, idVars,
                   inUse, queueVars, agentVars, saveVars, now, cursor, quota,
                   alive, inst>>

\* One entry: running when it has a pid, ended when it has a finish time,
\* else left alone.  An id jersd does not have is fatal.
ReconItem(j, ph, ok) ==
    /\ alive /\ at = "recon" /\ <<j, ph>> \in todo
    /\ \/ j \notin table /\ Die
       \/ /\ j \in table
          /\ CASE ph = "finished" ->
                    /\ ChangeJobState(j, IF ok THEN "completed" ELSE "exited",
                                      NoQueue)
                    /\ dirty' = dirty \cup {j}
               [] ph = "running" ->
                    /\ ChangeJobState(j, "running", NoQueue)
                    /\ UNCHANGED dirty
               [] ph = "sent" ->
                    UNCHANGED <<state, queue, statVars, recalc, dirty>>
          /\ todo' = todo \ {<<j, ph>>}
          /\ UNCHANGED <<table, deferTime, prio, req, deleted, started,
                         flushing, deferredList, pool, poolSize, idVars, inUse,
                         queueVars, agentVars, saveVars, now, at, cursor,
                         quota, who, alive, inst>>

\* After the last entry: RECON_COMPLETE, on which the agent forgets what it
\* has finished.
ReconEnd ==
    /\ alive /\ at = "recon" /\ todo = {}
    /\ recon' = recon \ {who}
    /\ inst' = [inst EXCEPT ![who] =
                  [j \in JobIds |-> [@[j] EXCEPT !["finished"] = 0]]]
    /\ at' = "idle" /\ who' = NoAgent
    /\ UNCHANGED <<jobVars, flagVars, deferredList, poolVars, statVars, idVars,
                   inUse, queueVars, connected, loggedIn, connects, saveVars,
                   now, cursor, quota, todo, alive>>

\* handleAgentDisconnect().
AgentDisconnect(a) ==
    /\ Idle /\ a \in connected
    /\ at' = "unknown" /\ who' = a
    /\ UNCHANGED <<jobVars, flagVars, deferredList, poolVars, statVars, idVars,
                   inUse, queueVars, agentVars, saveVars, now, cursor, quota,
                   todo, alive, inst>>

OnAgent(a) == {j \in table : /\ qAgent[queue[j]] = a
                             /\ state[j] = "running" \/ j \in started}

\* markJobsUnknown(), one job: all its internal flags are cleared.
MarkJobUnknown(j) ==
    /\ alive /\ at = "unknown" /\ j \in OnAgent(who)
    /\ ChangeJobState(j, "unknown", NoQueue)
    /\ deleted' = deleted \ {j}
    /\ started' = started \ {j}
    /\ flushing' = flushing \ {j}
    /\ dirty' = dirty \cup {j}
    /\ UNCHANGED <<table, deferTime, prio, req, deferredList, pool, poolSize,
                   idVars, inUse, queueVars, agentVars, saveVars, now,
                   loopVars, alive, inst>>

\* markQueueStopped() and the end of the connection.
MarkQueueStopped ==
    /\ alive /\ at = "unknown" /\ OnAgent(who) = {}
    /\ qAgent' = [q \in Queues |-> IF qAgent[q] = who THEN NoAgent ELSE qAgent[q]]
    /\ qState' = [q \in Queues |-> IF qAgent[q] = who THEN qState[q] \ {"started"}
                                   ELSE qState[q]]
    /\ connected' = connected \ {who}
    /\ loggedIn' = loggedIn \ {who}
    /\ at' = "idle" /\ who' = NoAgent
    /\ UNCHANGED <<jobVars, flagVars, deferredList, poolVars, statVars, idVars,
                   inUse, qLimit, qPrio, qHost, recon, connects, saveVars, now,
                   cursor, quota, todo, alive, inst>>

\* What an agent does unheard.  With the link down a start is lost or the
\* job is spawned, and a completion is lost or kept; an agent that is
\* reconciling keeps it as well.
AgentUnheard(a, j) ==
    /\ Idle
    /\ \/ /\ a \notin connected
          /\ \/ InstMoves(a, j, "sent", "running")
             \/ InstMoves(a, j, "sent", NoState)
             \/ InstMoves(a, j, "running", NoState)
       \/ /\ a \notin connected \/ a \in recon
          /\ InstMoves(a, j, "running", "finished")
    /\ UNCHANGED <<jobVars, flagVars, deferredList, poolVars, statVars, idVars,
                   inUse, queueVars, agentVars, saveVars, now, loopVars, alive>>

(***************************************************************************)
(* stateSaveToDisk(), its jobs part.                                       *)
(***************************************************************************)
SaveStart ==
    /\ Idle /\ ~NoSave /\ ~savePid /\ dirty # {}
    /\ saving' = dirty
    /\ flushing' = flushing \cup dirty
    /\ dirty' = {}
    /\ savePid' = TRUE
    /\ UNCHANGED <<jobVars, deleted, started, deferredList, poolVars, statVars,
                   idVars, inUse, queueVars, agentVars, readonly, now,
                   loopVars, alive, inst>>

SaveEndMut(ok) ==
    /\ Idle /\ savePid
    /\ readonly' = ~ok
    /\ saving' = {} /\ savePid' = FALSE
    /\ UNCHANGED <<jobVars, flagVars, deferredList, poolVars, statVars, idVars,
                   inUse, queueVars, agentVars, now, loopVars, alive, inst>>

\* The child is reaped: a failure makes jersd read-only and the jobs dirty
\* again, a success ends the read-only mode.
SaveEnd(ok) ==
    /\ Idle /\ savePid
    /\ readonly' = ~ok
    /\ flushing' = flushing \ saving
    /\ dirty' = IF ok THEN dirty ELSE dirty \cup saving
    /\ saving' = {}
    /\ savePid' = FALSE
    /\ UNCHANGED <<jobVars, deleted, started, deferredList, poolVars, statVars,
                   idVars, inUse, queueVars, agentVars, now, loopVars, alive,
                   inst>>

Tick ==
    /\ Idle /\ now < MaxTime
    /\ now' = now + 1
    /\ UNCHANGED <<jobVars, flagVars, deferredList, poolVars, statVars, idVars,
                   inUse, queueVars, agentVars, saveVars, loopVars, alive, inst>>

Stopped == ~alive /\ UNCHANGED vars

(***************************************************************************)
(* The specification: jersd has just started, with no jobs, its queues     *)
(* stopped and no agent connected.                                         *)
(***************************************************************************)
Init ==
    /\ table = {} /\ deleted = {} /\ started = {} /\ flushing = {} /\ dirty = {}
    /\ state = [j \in JobIds |-> NoState]
    /\ queue = [j \in JobIds |-> DefaultQueue]
    /\ deferTime = [j \in JobIds |-> 0]
    /\ prio = [j \in JobIds |-> 0]
    /\ req = [j \in JobIds |-> NoNeeds]
    /\ deferredList = << >>
    /\ pool = << >> /\ poolSize = 0 /\ recalc = TRUE
    /\ jobStats = [s \in JobStates |-> 0]
    /\ queueStats = [q \in Queues |-> [s \in JobStates |-> 0]]
    /\ startPending = 0
    /\ queueStartPending = [q \in Queues |-> 0]
    /\ deletedCount = 0 /\ startJobId = 0
    /\ inUse = [r \in Resources |-> 0]
    /\ qState = [q \in Queues |-> {"open"}]
    /\ qLimit = [q \in Queues |-> InitLimit]
    /\ qPrio = [q \in Queues |-> 0]
    /\ qHost \in [Queues -> Agents]
    /\ qAgent = [q \in Queues |-> NoAgent]
    /\ connected = {} /\ loggedIn = {} /\ recon = {} /\ connects = 0
    /\ saving = {} /\ savePid = FALSE /\ readonly = FALSE
    /\ now = 1
    /\ at = "idle" /\ cursor = 0 /\ quota = 0 /\ who = NoAgent /\ todo = {}
    /\ alive = TRUE
    /\ inst = [a \in Agents |-> [j \in JobIds |-> [ph \in Phases |-> 0]]]

ClientCommand ==
    \/ \E r \in AddArgs : AddJob(r)
    \/ \E j \in JobIds :
          \/ \E m \in ModArgs : ModJob(j, m)
          \/ DelJob(j) \/ SigJob(j)
    \/ \E q \in Queues, m \in QueueArgs : ModQueue(q, m)

AgentEvent ==
    \/ \E a \in Agents :
          \/ AgentConnect(a) \/ AgentLogin(a) \/ AgentRecon(a)
          \/ AgentDisconnect(a)
          \/ \E j \in JobIds :
                \/ AgentJobStart(a, j) \/ AgentUnheard(a, j)
                \/ \E ok \in BOOLEAN : AgentJobCompleted(a, j, ok)
    \/ \E j \in JobIds, ph \in Phases, ok \in BOOLEAN : ReconItem(j, ph, ok)
    \/ ReconEnd
    \/ \E j \in JobIds : MarkJobUnknown(j)
    \/ MarkQueueStopped

TimedEvent ==
    \/ CheckJobs \/ SchedStep \/ ReleaseDeferred
    \/ CleanupEvent
    \/ \E j \in JobIds : AutoCleanup(j)
    \/ SaveStart \/ \E ok \in BOOLEAN : SaveEnd(ok)
    \/ Tick

Next == ClientCommand \/ AgentEvent \/ TimedEvent \/ Stopped

Spec == Init /\ [][Next]_vars

\* checkEvents() calls every event again and again, whatever else happens in
\* between; a background save ends; time passes.  Clients and agents owe
\* nothing.
Fairness ==
    /\ WF_vars(SchedStep) /\ SF_vars(ReleaseDeferred)
    /\ SF_vars(CleanupEvent) /\ SF_vars(SaveStart)
    /\ SF_vars(\E ok \in BOOLEAN : SaveEnd(ok)) /\ SF_vars(Tick)

FairSpec == Spec /\ Fairness

(***************************************************************************)
(* Properties.                                                             *)
(***************************************************************************)
JobsTyped ==
    /\ table \subseteq JobIds
    /\ state \in [JobIds -> JobStates \cup {NoState}]
    /\ queue \in [JobIds -> Queues]
    /\ deferTime \in [JobIds -> Nat]
    /\ prio \in [JobIds -> Int]
    /\ req \in [JobIds -> Needs]
    /\ deleted \subseteq JobIds /\ started \subseteq JobIds
    /\ flushing \subseteq JobIds /\ dirty \subseteq JobIds
    /\ saving \subseteq JobIds

CountsTyped ==
    /\ jobStats \in [JobStates -> Int]
    /\ queueStats \in [Queues -> [JobStates -> Int]]
    /\ startPending \in Int /\ queueStartPending \in [Queues -> Int]
    /\ deletedCount \in Int /\ startJobId \in 0 .. MaxJobId
    /\ inUse \in [Resources -> Nat]

QueuesTyped ==
    /\ qState \in [Queues -> SUBSET {"open", "started"}]
    /\ qLimit \in [Queues -> Int] /\ qPrio \in [Queues -> Int]
    /\ qHost \in [Queues -> Agents]
    /\ qAgent \in [Queues -> Agents \cup {NoAgent}]

AgentsTyped ==
    /\ connected \subseteq Agents /\ loggedIn \subseteq Agents
    /\ recon \subseteq Agents /\ connects \in Nat
    /\ inst \in [Agents -> [JobIds -> [Phases -> Nat]]]

\* Inside a handler its cursor and its agent are valid.
LoopTyped ==
    /\ deferredList \in Seq(JobIds)
    /\ pool \in Seq(JobIds \cup {NoJob}) /\ poolSize \in Nat
    /\ recalc \in BOOLEAN /\ savePid \in BOOLEAN /\ readonly \in BOOLEAN
    /\ now \in Nat
    /\ at \in {"idle", "sched", "defer", "recon", "unknown"}
    /\ at = "sched" => cursor \in 1 .. Len(pool)
    /\ cursor \in Nat /\ quota \in Int
    /\ who \in Agents \cup {NoAgent}
    /\ at \in {"recon", "unknown"} => who \in Agents
    /\ todo \subseteq JobIds \X Phases
    /\ alive \in BOOLEAN

\* Every variable holds a value of its kind: in_use never goes below zero,
\* start_jobid stays in range, and the scheduler's cursor within its pool.
TypeOK == JobsTyped /\ CountsTyped /\ QueuesTyped /\ AgentsTyped /\ LoopTyped

InStateOn(q, s) == {j \in JobIds : state[j] = s /\ queue[j] = q}

\* The counters increment_state() and decrement_state() keep never miss a job:
\* for each state the server's and each queue's count is at least the number
\* of jobs in it, and for the waiting states, by which generateCandidatePool()
\* sizes its array and skips its work, exactly that number.
CountsSound ==
    /\ \A s \in JobStates :
          /\ jobStats[s] >= Cardinality(InState(s))
          /\ \A q \in Queues : queueStats[q][s] >= Cardinality(InStateOn(q, s))
    /\ \A s \in Waiting :
          /\ jobStats[s] = Cardinality(InState(s))
          /\ \A q \in Queues : queueStats[q][s] = Cardinality(InStateOn(q, s))

\* The candidates generateCandidatePool() writes fit the array it allocated
\* from the counters: the pool is never longer than its capacity.
PoolWithinCapacity == Len(pool) <= poolSize

\* No entry of the candidate pool points to a freed job, and no job is in
\* it twice, although jobs are freed, ids reused and the pool regenerated
\* only now and then.
PoolHoldsLiveJobs ==
    /\ \A i \in 1 .. Len(pool) : pool[i] # NoJob => pool[i] \in table
    /\ \A i, k \in 1 .. Len(pool) : pool[i] = pool[k] /\ pool[i] # NoJob => i = k

\* Only jobs in memory carry a flag, a state or a place in the counters, and a
\* deleted job never waits again: what reaches it late (an agent's answer, the
\* end of a save, a deferred release) leaves nothing behind for the next job
\* with its id, and nothing generateCandidatePool() would count.
FlagsSound ==
    /\ deleted \cup started \cup flushing \cup dirty \subseteq table
    /\ \A j \in JobIds \ table : state[j] = NoState
    /\ \A j \in deleted : state[j] \notin Waiting

\* A job the background save is writing is in memory and safe from
\* cleanupJob() until the save is reaped, which dereferences it, even though
\* markJobsUnknown() clears its FLUSHING flag meanwhile.
SavedJobsProtected == saving \subseteq table \cap (dirty \cup flushing)

\* server.deleted never falls below the number of deleted jobs in the table,
\* so cleanupJobs(), which gives up when it is 0, cannot strand one.
DeletedJobsCounted == deletedCount >= Cardinality(deleted)

\* While jersd runs, server.deferred_list is in order of defer time (which
\* releaseDeferred() relies on to stop early), has no job twice, and has
\* only jobs in memory that are not deleted and have a defer time.
DeferredListSound ==
    alive =>
      /\ \A i, k \in 1 .. Len(deferredList) :
            i < k => /\ deferTime[deferredList[i]] <= deferTime[deferredList[k]]
                     /\ deferredList[i] # deferredList[k]
      /\ \A i \in 1 .. Len(deferredList) :
            /\ deferredList[i] \in table \ deleted
            /\ deferTime[deferredList[i]] # 0

StartedOn(q) == {j \in started : queue[j] = q}

\* As long as no queue changes its host, start_pending never falls below the
\* number of jobs being started, on the server and on every queue, whatever
\* order starts, completions, disconnects and reconciliations come in.
StartPendingCovers ==
    /\ startPending >= Cardinality(started)
    /\ \A q \in Queues : queueStartPending[q] >= Cardinality(StartedOn(q))

\* checkJobs() starts a job only while its queue has fewer jobs running or
\* being started than its job_limit, by the jobs themselves, not the counters.
QueueLimitAtStart ==
    [][\A j \in started' \ started :
         Cardinality(InStateOn(queue[j], "running") \cup StartedOn(queue[j]))
            < qLimit[queue[j]]]_vars

\* allocateRes() follows checkRes(): no more of a resource is in use than
\* there is, when a request names a resource once.
ResourcesFit == \A r \in Resources : inUse[r] <= ResCount[r]

\* Unless the background save fails, a deleted job does not stay in memory
\* for ever: it is saved, then freed, whatever clients do meanwhile.
DeletedJobsFreed ==
    \A j \in JobIds : j \in deleted ~> (j \notin deleted \/ readonly \/ ~alive)

\* A deferred job is released (or changed by a client) once its time comes,
\* although releaseDeferred() looks at the head of the list only.
DeferredJobsReleased ==
    \A j \in JobIds : state[j] = "deferred" ~> (state[j] # "deferred" \/ ~alive)

(***************************************************************************)
(* What comments, documentation and assertions say and the code does not   *)
(* keep.  The last one has a run; README.md gives an instance for each.    *)
(***************************************************************************)
\* default.conf:45, of max_system_jobs: the total number of jobs allowed to
\* run.  checkJobs() compares its counters with > and caps a pass without
\* the jobs it is already starting.
SystemLimitRespected ==
    MaxRunJobs # Unlimited => Cardinality(InState("running")) <= MaxRunJobs

\* sched.c:189: a pass attempts to release at most sched_max jobs.
\* checkJobs() overwrites that limit with the length of the pool.
SchedMaxRespected == at = "sched" => quota <= SchedMax

\* state.c:542: an agent updates the state of a job only if it has not been
\* restarted or killed meanwhile.  command_agent_recon() never looks.
ReconSparesModifiedJobs ==
    [][at = "recon" => \A j \in JobIds : state'[j] # state[j] =>
            state[j] \in {"unknown", "running", NoState}]_vars

\* jobs.c:57: getNextJobID() tries again only if jobs were cleaned up, so the
\* request returns.  cleanupJobs() counts jobs cleanupJob() refused.
AddJobReturns == alive

\* utlist.h:708 and 709, the assertions of DL_DELETE2: what is taken out of
\* the deferred list is in it.  mod_job and deleteJob() go by defer_time.
DeferredJobsListed ==
    \A j \in table \ deleted : deferTime[j] # 0 => InDeferredList(j)

\* sched.c:294: start_pending keeps track of the jobs being started.
\* markJobsUnknown() clears their flag before changeJobState() sees it.
StartSlotsExact ==
    \A q \in Queues : queueStartPending[q] = Cardinality(StartedOn(q))
=============================================================================
