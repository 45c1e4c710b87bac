--------------------------- MODULE JobTable_proofs ---------------------------
(***************************************************************************)
(* Every variable of JobTable keeps its type, for any number of jobs, queues *)
(* and agents.                                                             *)
(***************************************************************************)
EXTENDS JobTableFacts_proofs, JobTableTypes_proofs

USE DEF jobVars, flagVars, poolVars, statVars, idVars, queueVars, agentVars,
        saveVars, loopVars

(***************************************************************************)
(* The scheduler.                                                          *)
(***************************************************************************)
\* checkJobs() keeps the types, its cursor within the pool.
LEMMA TypeCheckJobs == ASSUME TypeOK, CheckJobs PROVE TypeOK'
<1>1. JobsTyped' /\ CountsTyped' /\ QueuesTyped' /\ AgentsTyped'
  BY TypeFrame DEF CheckJobs
<1>2. pool' \in Seq(JobIds \cup {NoJob}) /\ poolSize' \in Nat /\ recalc' \in BOOLEAN
  BY NewPool DEF CheckJobs, TypeOK, LoopTyped, GenerateCandidatePool
<1>3. /\ at' \in {"idle", "sched", "defer", "recon", "unknown"}
      /\ at' = "sched" => cursor' \in 1 .. Len(pool')
      /\ cursor' \in Nat /\ quota' \in Int
      /\ at' \notin {"recon", "unknown"}
  <2>1. pool' # << >> => Len(pool') \in Nat \ {0}
    BY <1>2, EmptySeq
  <2>2. Len(pool') \in Nat
    BY <1>2, LenProperties
  <2>3. jobStats["running"] \in Int /\ MaxRunJobs \in Int
    BY LimitsAssumption DEF TypeOK, CountsTyped, JobStates
  <2>4. QED BY <2>1, <2>2, <2>3 DEF CheckJobs, TypeOK, LoopTyped, Idle
<1>4. LoopTyped'
  BY <1>2, <1>3 DEF CheckJobs, TypeOK, LoopTyped
<1>5. QED BY <1>1, <1>4 DEF TypeOK

\* So does each step of its loop over the candidates.
LEMMA TypeSchedStep == ASSUME TypeOK, SchedStep PROVE TypeOK'
<1> DEFINE j == pool[cursor]
           starts == j # NoJob /\ Startable(j)
<1>1. cursor \in 1 .. Len(pool) /\ j \in JobIds \cup {NoJob}
  BY ElementOfSeq DEF SchedStep, TypeOK, LoopTyped
<1>2. /\ inUse' \in [Resources -> Nat]
      /\ started' \subseteq JobIds
      /\ startPending' \in Int
      /\ queueStartPending' \in [Queues -> Int]
      /\ inst' \in [Agents -> [JobIds -> [Phases -> Nat]]]
  <2>1. CASE starts /\ StartJob(j)
    BY <1>1, <2>1, StartJobType
  <2>2. CASE UNCHANGED <<inUse, started, startPending, queueStartPending, inst>>
    BY <2>2 DEF TypeOK, JobsTyped, CountsTyped, AgentsTyped
  <2>3. QED BY <2>1, <2>2 DEF SchedStep
<1>3. UNCHANGED <<table, state, queue, deferTime, prio, req, deleted, flushing, dirty,
                  saving, jobStats, queueStats, idVars, queueVars, agentVars>>
  BY DEF SchedStep
<1>4. JobsTyped'
  BY <1>2, <1>3 DEF TypeOK, JobsTyped
<1>5. CountsTyped'
  BY <1>2, <1>3 DEF TypeOK, CountsTyped
<1>6. QueuesTyped'
  BY <1>3, TypeFrame
<1>7. AgentsTyped'
  BY <1>2, <1>3 DEF TypeOK, AgentsTyped
<1>8. /\ at' \in {"idle", "sched"}
      /\ at' = "sched" => cursor' \in 1 .. Len(pool)
      /\ cursor' \in Nat /\ quota' \in Int
  <2>1. Len(pool) \in Nat
    BY LenProperties DEF TypeOK, LoopTyped
  <2>2. QED BY <1>1, <2>1 DEF SchedStep, TypeOK, LoopTyped, One
<1>9. LoopTyped'
  BY <1>8 DEF SchedStep, TypeOK, LoopTyped
<1>10. QED BY <1>4, <1>5, <1>6, <1>7, <1>9 DEF TypeOK

\* releaseDeferred() keeps the types.
LEMMA TypeReleaseDeferred ==
    ASSUME TypeOK, ReleaseDeferred
    PROVE  TypeOK'
<1> DEFINE h == Head(deferredList)
<1>1. h \in JobIds /\ Tail(deferredList) \in Seq(JobIds)
  BY HeadTailProperties DEF ReleaseDeferred, Due, TypeOK, LoopTyped
<1>2. /\ state' \in [JobIds -> JobStates \cup {NoState}]
      /\ queue' \in [JobIds -> Queues]
      /\ jobStats' \in [JobStates -> Int]
      /\ queueStats' \in [Queues -> [JobStates -> Int]]
      /\ startPending' \in Int
      /\ queueStartPending' \in [Queues -> Int]
  BY <1>1, MoveJobType DEF ReleaseDeferred, TypeOK, JobStates, Waiting
<1>3. JobsTyped'
  BY <1>1, <1>2 DEF ReleaseDeferred, TypeOK, JobsTyped
<1>4. CountsTyped'
  BY <1>2 DEF ReleaseDeferred, TypeOK, CountsTyped
<1>5. QueuesTyped' /\ AgentsTyped'
  BY DEF ReleaseDeferred, TypeOK, QueuesTyped, AgentsTyped
<1>6. at' \in {"idle", "defer"} /\ recalc' \in BOOLEAN
  BY DEF ReleaseDeferred
<1>7. LoopTyped'
  BY <1>1, <1>6 DEF ReleaseDeferred, TypeOK, LoopTyped
<1>8. QED BY <1>3, <1>4, <1>5, <1>7 DEF TypeOK

(***************************************************************************)
(* Clients and the cleanup.                                                *)
(***************************************************************************)
\* The deferred list without a job that is in it is a list of jobs.
LEMMA RemoveDeferredType ==
    ASSUME TypeOK, NEW j \in JobIds, InDeferredList(j)
    PROVE  RemoveDeferredJob(deferredList, j) \in Seq(JobIds)
<1>1. deferredList \in Seq(JobIds)
  BY DEF TypeOK, LoopTyped
<1>2. \E n \in 1 .. Len(deferredList) : deferredList[n] = j
  BY <1>1, LenProperties DEF InDeferredList
<1>3. QED BY <1>1, <1>2, RemoveDeferredPlace

\* deleteJob() keeps every variable well typed.
LEMMA TypeDeleteJob ==
    ASSUME TypeOK, NEW j \in JobIds, DelJob(j) \/ AutoCleanup(j)
    PROVE  TypeOK'
<1> DeleteJob(j)
  BY DEF DelJob, AutoCleanup
<1>1. CASE Die
  BY <1>1, TypeDie
<1>2. CASE ~Die
  <2>1. ChangeJobState(j, NoState, NoQueue) /\ ~(deferTime[j] # 0 /\ ~InDeferredList(j))
    BY <1>2 DEF DeleteJob
  <2>2. /\ state' \in [JobIds -> JobStates \cup {NoState}]
        /\ queue' \in [JobIds -> Queues]
        /\ jobStats' \in [JobStates -> Int]
        /\ queueStats' \in [Queues -> [JobStates -> Int]]
        /\ startPending' \in Int
        /\ queueStartPending' \in [Queues -> Int]
        /\ recalc' \in BOOLEAN
    BY <2>1, ChangeJobStateType
  <2>3. deferredList' \in Seq(JobIds)
    BY <1>2, <2>1, RemoveDeferredType DEF DeleteJob, TypeOK, LoopTyped
  <2>4. JobsTyped'
    BY <1>2, <2>2 DEF DeleteJob, TypeOK, JobsTyped
  <2>5. CountsTyped'
    BY <1>2, <2>2 DEF DeleteJob, TypeOK, CountsTyped
  <2>6. QueuesTyped' /\ AgentsTyped'
    BY <1>2 DEF DeleteJob, TypeOK, QueuesTyped, AgentsTyped
  <2>7. LoopTyped'
    BY <1>2, <2>2, <2>3 DEF DeleteJob, TypeOK, LoopTyped
  <2>8. QED BY <2>4, <2>5, <2>6, <2>7 DEF TypeOK
<1>3. QED BY <1>1, <1>2

\* cleanupJob() keeps what it changes well typed.
LEMMA CleanupJobType ==
    ASSUME TypeOK, NEW F \in SUBSET JobIds, CleanupJob(F)
    PROVE  /\ table' \subseteq JobIds
           /\ state' \in [JobIds -> JobStates \cup {NoState}]
           /\ queue' \in [JobIds -> Queues]
           /\ deferTime' \in [JobIds -> Nat]
           /\ prio' \in [JobIds -> Int]
           /\ req' \in [JobIds -> Needs]
           /\ deleted' \subseteq JobIds
           /\ started' \subseteq JobIds
           /\ pool' \in Seq(JobIds \cup {NoJob})
           /\ Len(pool') = Len(pool)
           /\ deletedCount' \in Int
<1>1. Cardinality(F) \in Nat
  BY FiniteJobs
<1>2. NoNeeds \in Needs
  BY DEF NoNeeds, Needs
<1>3. pool' \in Seq(JobIds \cup {NoJob}) /\ Len(pool') = Len(pool)
  BY PoolWithoutType DEF CleanupJob, TypeOK
<1>4. deletedCount' \in Int
  BY <1>1 DEF CleanupJob, DeletedLeft, TypeOK, CountsTyped
<1>5. /\ state' \in [JobIds -> JobStates \cup {NoState}]
      /\ queue' \in [JobIds -> Queues]
      /\ deferTime' \in [JobIds -> Nat]
      /\ prio' \in [JobIds -> Int]
      /\ req' \in [JobIds -> Needs]
  BY <1>2, QueuesAssumption DEF CleanupJob, Blank, TypeOK, JobsTyped
<1>6. QED BY <1>3, <1>4, <1>5 DEF CleanupJob, TypeOK, JobsTyped

\* cleanupEvent() keeps every variable well typed.
LEMMA TypeCleanupEvent ==
    ASSUME TypeOK, CleanupEvent
    PROVE  TypeOK'
<1> DEFINE max == IF pool # << >> \/ recalc THEN (MaxCleanup + 1) \div 2 ELSE MaxCleanup
<1>1. PICK D \in CleanupVisits(IF max = 0 THEN 10 ELSE max) : CleanupJob(Cleanable(D))
  BY DEF CleanupEvent
<1> DEFINE F == Cleanable(D)
<1>2. F \in SUBSET JobIds
  BY CleanupFrees DEF TypeOK, JobsTyped
<1>3. CleanupJob(F)
  BY <1>1
<1> HIDE DEF F
<1>4. JobsTyped'
  BY <1>2, <1>3, CleanupJobType DEF CleanupEvent, TypeOK, JobsTyped
<1>5. CountsTyped'
  BY <1>2, <1>3, CleanupJobType DEF CleanupEvent, TypeOK, CountsTyped
<1>6. QueuesTyped' /\ AgentsTyped'
  BY DEF CleanupEvent, TypeOK, QueuesTyped, AgentsTyped
<1>7. LoopTyped'
  BY <1>2, <1>3, CleanupJobType DEF CleanupEvent, TypeOK, LoopTyped
<1>8. QED BY <1>4, <1>5, <1>6, <1>7 DEF TypeOK

\* addJob() keeps every variable well typed, whatever was cleaned up before.
LEMMA AddToTableType ==
    ASSUME TypeOK, NEW j \in JobIds, NEW F \in SUBSET JobIds, NEW r \in AddRequest,
           AddToTable(j, F, r), startJobId' \in 0 .. MaxJobId
    PROVE  TypeOK'
<1> DEFINE s == IF r.defer # 0 THEN "deferred"
                ELSE IF r.hold THEN "holding" ELSE "pending"
<1>1. /\ r.queue \in Queues /\ r.defer \in Nat /\ r.prio \in Int /\ r.res \in Needs
      /\ s \in JobStates
  BY DEF AddRequest, JobStates, Waiting
<1>2. NoNeeds \in Needs /\ DefaultQueue \in Queues /\ Cardinality(F) \in Nat
  BY QueuesAssumption, FiniteJobs DEF NoNeeds, Needs
<1>3. /\ state' = [Blank(state, F, NoState) EXCEPT ![j] = s]
      /\ queue' = [Blank(queue, F, DefaultQueue) EXCEPT ![j] = r.queue]
      /\ deferTime' = [Blank(deferTime, F, 0) EXCEPT ![j] = r.defer]
      /\ prio' = [Blank(prio, F, 0) EXCEPT ![j] = r.prio]
      /\ req' = [Blank(req, F, NoNeeds) EXCEPT ![j] = r.res]
  BY DEF AddToTable
<1>4. /\ table' = (table \ F) \cup {j} /\ deleted' = deleted \ F
      /\ started' = started \ F /\ dirty' = dirty \cup {j}
      /\ UNCHANGED <<flushing, saving>>
  BY DEF AddToTable
<1>5. /\ deletedCount' = DeletedLeft(F)
      /\ jobStats' = [jobStats EXCEPT ![s] = @ + 1]
      /\ queueStats' = [queueStats EXCEPT ![r.queue][s] = @ + 1]
      /\ UNCHANGED <<startPending, queueStartPending, inUse>>
  BY DEF AddToTable
<1>6. /\ pool' = PoolWithout(F) /\ recalc' = TRUE
      /\ deferredList' = IF r.defer # 0 THEN AddDeferredJob(deferredList, j, r.defer)
                         ELSE deferredList
      /\ UNCHANGED <<poolSize, savePid, readonly, now, loopVars, alive>>
  BY DEF AddToTable
<1>7. UNCHANGED <<queueVars, agentVars, inst>>
  BY DEF AddToTable
<1> HIDE DEF s
<1>8. JobsTyped'
  <2>1. /\ state' \in [JobIds -> JobStates \cup {NoState}]
        /\ queue' \in [JobIds -> Queues]
        /\ deferTime' \in [JobIds -> Nat]
        /\ prio' \in [JobIds -> Int]
        /\ req' \in [JobIds -> Needs]
    BY <1>1, <1>2, <1>3 DEF Blank, TypeOK, JobsTyped
  <2>2. QED BY <1>4, <2>1 DEF TypeOK, JobsTyped
<1>9. CountsTyped'
  BY <1>1, <1>2, <1>5 DEF DeletedLeft, TypeOK, CountsTyped
<1>10. QueuesTyped' /\ AgentsTyped'
  BY <1>7, TypeFrame
<1>11. LoopTyped'
  <2>1. pool' \in Seq(JobIds \cup {NoJob}) /\ Len(pool') = Len(pool)
    BY <1>6, PoolWithoutType DEF TypeOK
  <2>2. deferredList' \in Seq(JobIds)
    BY <1>1, <1>6, AddDeferredPlace DEF TypeOK, LoopTyped
  <2>3. QED BY <1>6, <2>1, <2>2 DEF TypeOK, LoopTyped
<1>12. QED BY <1>8, <1>9, <1>10, <1>11 DEF TypeOK

\* command_add_job() keeps every variable well typed.
LEMMA TypeAddJob ==
    ASSUME TypeOK, NEW r \in AddArgs, AddJob(r)
    PROVE  TypeOK'
<1>1. r \in AddRequest
  BY RequestsAssumption
<1>2. startJobId \in 0 .. MaxJobId /\ table \subseteq JobIds /\ deleted \subseteq JobIds
  BY DEF TypeOK, CountsTyped, JobsTyped
<1>3. \A i \in JobIds : i \in 0 .. MaxJobId
  BY JobIdsAssumption DEF JobIds
<1>4. CASE r.jobid = 0 /\ AddJobNextId(r)
  <2>1. CASE table # JobIds /\ AddToTable(NextJobID(JobIds \ table), {}, r)
             /\ startJobId' = NextJobID(JobIds \ table)
    <3>1. NextJobID(JobIds \ table) \in JobIds
      BY <1>2, <2>1, NextJobIDFree
    <3>2. QED BY <1>1, <1>3, <2>1, <3>1, AddToTableType
  <2>2. ASSUME NEW D \in CleanupVisits(5), Cleanable(D) # {},
               startJobId' = NextJobID(Cleanable(D)),
               AddToTable(NextJobID(Cleanable(D)), Cleanable(D), r)
        PROVE  TypeOK'
    <3>1. Cleanable(D) \in SUBSET JobIds
      BY <1>2, CleanupFrees
    <3>2. NextJobID(Cleanable(D)) \in JobIds
      BY <1>2, <2>2, <3>1, NextJobIDFree
    <3>3. QED BY <1>1, <1>3, <2>2, <3>1, <3>2, AddToTableType
  <2>3. CASE Die
    BY <2>3, TypeDie
  <2>4. QED BY <1>4, <2>1, <2>2, <2>3 DEF AddJobNextId
<1>5. CASE r.jobid # 0 /\ AddJobWithId(r)
  <2> DEFINE F == table \cap {r.jobid}
  <2>1. F \in SUBSET JobIds /\ r.jobid \in JobIds
    BY <1>1, <1>2, <1>5, JobIdsAssumption DEF AddRequest, JobIds
  <2>2. UNCHANGED startJobId
    BY <1>5 DEF AddJobWithId
  <2> HIDE DEF F
  <2>3. CASE AddToTable(r.jobid, F, r)
    BY <1>1, <1>2, <2>1, <2>2, <2>3, AddToTableType
  <2>4. CASE /\ CleanupJob(F)
             /\ UNCHANGED <<flushing, dirty, deferredList, poolSize, recalc,
                            statVars, inUse, queueVars, agentVars, saveVars,
                            now, loopVars, alive, inst>>
    <3>1. JobsTyped'
      BY <2>1, <2>4, CleanupJobType DEF TypeOK, JobsTyped
    <3>2. CountsTyped'
      BY <2>1, <2>2, <2>4, CleanupJobType DEF TypeOK, CountsTyped
    <3>3. QueuesTyped' /\ AgentsTyped'
      BY <2>4 DEF TypeOK, QueuesTyped, AgentsTyped
    <3>4. LoopTyped'
      BY <2>1, <2>4, CleanupJobType DEF TypeOK, LoopTyped
    <3>5. QED BY <3>1, <3>2, <3>3, <3>4 DEF TypeOK
  <2>5. QED BY <1>5, <2>3, <2>4 DEF AddJobWithId, F
<1>6. QED BY <1>4, <1>5 DEF AddJob

\* command_mod_job() keeps every variable well typed.
LEMMA TypeModJob ==
    ASSUME TypeOK, NEW j \in JobIds, NEW m \in ModArgs, ModJob(j, m)
    PROVE  TypeOK'
<1> DEFINE ended == state[j] \in Ended
           t == IF m.defer = Unset THEN deferTime[j] ELSE m.defer
           hold == IF m.hold = Unset THEN state[j] = "holding" ELSE m.hold
           s == CASE t # 0           -> "deferred"
                  [] t = 0 /\ hold   -> "holding"
                  [] t = 0 /\ ~hold  -> IF ended /\ ~m.restart THEN state[j]
                                       ELSE "pending"
           unlinked == IF deferTime[j] # 0
                       THEN RemoveDeferredJob(deferredList, j) ELSE deferredList
<1>1. /\ m.defer \in Nat \cup {Unset} /\ m.prio \in Int \cup {Unset}
      /\ m.res \in Needs \cup {Unset} /\ m.queue \in Queues \cup {NoQueue}
  BY RequestsAssumption DEF ModRequest, Maybe
<1>2. CASE Die
  BY <1>2, TypeDie
<1>3. CASE ~Die
  <2>1. /\ m.defer # Unset /\ deferTime[j] # 0 => InDeferredList(j)
        /\ ChangeJobState(j, s, m.queue)
        /\ deferTime' = [deferTime EXCEPT ![j] = t]
        /\ deferredList' = IF m.defer = Unset THEN deferredList
                           ELSE IF m.defer = 0 THEN unlinked
                                ELSE AddDeferredJob(unlinked, j, m.defer)
    BY <1>3, Zenon DEF ModJob
  <2>2. state[j] \in JobStates \cup {NoState} /\ deferTime[j] \in Nat
        /\ deferredList \in Seq(JobIds) /\ JobsTyped
    BY DEF TypeOK, JobsTyped, LoopTyped
  <2>3. t \in Nat
    BY <1>1, <2>2
  <2>4. s \in JobStates \cup {NoState}
    <3>1. CASE t # 0
      BY <3>1 DEF JobStates, Waiting
    <3>2. CASE t = 0 /\ hold
      BY <3>2 DEF JobStates, Waiting
    <3>3. CASE t = 0 /\ ~hold
      BY <2>2, <3>3 DEF JobStates, Waiting
    <3>4. QED BY <3>1, <3>2, <3>3
  <2> HIDE DEF s, t
  <2>5. /\ state' \in [JobIds -> JobStates \cup {NoState}]
        /\ queue' \in [JobIds -> Queues]
        /\ jobStats' \in [JobStates -> Int]
        /\ queueStats' \in [Queues -> [JobStates -> Int]]
        /\ startPending' \in Int
        /\ queueStartPending' \in [Queues -> Int]
        /\ recalc' \in BOOLEAN
    BY <1>1, <2>1, <2>4, ChangeJobStateType
  <2>6. deferredList' \in Seq(JobIds)
    <3>1. CASE m.defer = Unset
      BY <2>1, <2>2, <3>1
    <3>2. CASE m.defer # Unset
      <4>1. unlinked \in Seq(JobIds)
        BY <2>1, <2>2, <3>2, RemoveDeferredType
      <4> HIDE DEF unlinked
      <4>2. AddDeferredJob(unlinked, j, m.defer) \in Seq(JobIds)
        BY <1>1, <2>2, <3>2, <4>1, AddDeferredPlace
      <4>3. QED BY <2>1, <3>2, <4>1, <4>2
    <3>3. QED BY <3>1, <3>2
  <2>7. inUse' \in [Resources -> Nat]
    BY <1>3, DeallocateResType DEF ModJob, TypeOK, CountsTyped
  <2>8. /\ prio' \in [JobIds -> Int] /\ req' \in [JobIds -> Needs]
        /\ dirty' \subseteq JobIds /\ deferTime' \in [JobIds -> Nat]
    <3>1. prio' = [prio EXCEPT ![j] = IF m.prio = Unset THEN @ ELSE m.prio]
          /\ req' = [req EXCEPT ![j] = IF m.res = Unset THEN @ ELSE m.res]
          /\ (dirty' = dirty \cup {j} \/ dirty' = dirty)
      BY <1>3 DEF ModJob
    <3>2. QED BY <1>1, <2>1, <2>3, <3>1 DEF TypeOK, JobsTyped
  <2>9. UNCHANGED <<table, deleted, started, flushing, pool, poolSize, idVars,
                    queueVars, agentVars, saveVars, now, loopVars, alive, inst>>
    BY <1>3 DEF ModJob
  <2>10. JobsTyped'
    BY <2>5, <2>8, <2>9 DEF TypeOK, JobsTyped
  <2>11. CountsTyped'
    BY <2>5, <2>7, <2>9 DEF TypeOK, CountsTyped
  <2>12. QueuesTyped' /\ AgentsTyped'
    BY <2>9 DEF TypeOK, QueuesTyped, AgentsTyped
  <2>13. LoopTyped'
    BY <2>5, <2>6, <2>9 DEF TypeOK, LoopTyped
  <2>14. QED BY <2>10, <2>11, <2>12, <2>13 DEF TypeOK
<1>4. QED BY <1>2, <1>3

(***************************************************************************)
(* Every step.                                                             *)
(***************************************************************************)
\* Every step keeps every variable well typed.
LEMMA TypeStep == TypeOK /\ [Next]_vars => TypeOK'
<1> SUFFICES ASSUME TypeOK, [Next]_vars PROVE TypeOK'
  OBVIOUS
<1>1. CASE ClientCommand
  BY <1>1, TypeAddJob, TypeModJob, TypeDeleteJob, TypeSigJob, TypeModQueue
     DEF ClientCommand
<1>2. CASE AgentEvent
  BY <1>2, TypeAgentConnect, TypeAgentLogin, TypeAgentDisconnect, TypeAgentRecon,
     TypeReconItem, TypeReconEnd, TypeMarkJobUnknown, TypeMarkQueueStopped,
     TypeAgentJobStart, TypeAgentJobCompleted, TypeAgentUnheard DEF AgentEvent
<1>3. CASE TimedEvent
  BY <1>3, TypeCheckJobs, TypeSchedStep, TypeReleaseDeferred, TypeCleanupEvent,
     TypeDeleteJob, TypeSaveStart, TypeSaveEnd, TypeTick DEF TimedEvent
<1>4. CASE Stopped \/ UNCHANGED vars
  <2>1. UNCHANGED vars
    BY <1>4 DEF Stopped
  <2>2. QED BY <2>1, TypeFrame DEF TypeOK, vars
<1>5. QED BY <1>1, <1>2, <1>3, <1>4, Zenon DEF Next

\* Every variable of jersd holds a value of its kind, always: in_use is never
\* negative, start_jobid is an id, and checkJobs() never reads past its pool.
THEOREM TypeCorrect == Spec => []TypeOK
<1>1. QED BY InitType, TypeStep, PTL DEF Spec

==============================================================================
