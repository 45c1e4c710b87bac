------------------------ MODULE JobTableSteps_proofs -------------------------
(***************************************************************************)
(* What each step of JobTable does to the jobs, in a few kinds, and that every *)
(* kind keeps the flags, the save and the count of deleted jobs sound.     *)
(***************************************************************************)
EXTENDS JobTableFacts_proofs

USE DEF jobVars, flagVars, poolVars, statVars, idVars, queueVars, agentVars,
        saveVars, loopVars

(***************************************************************************)
(* Effects of single operations.                                           *)
(***************************************************************************)
\* The head of the deferred list is a job in memory that is not deleted.
LEMMA DeferredHead ==
    ASSUME TypeOK, DeferredListSound, ReleaseDeferred
    PROVE  /\ Head(deferredList) \in table \ deleted
           /\ Head(deferredList) \in JobIds
<1>1. deferredList \in Seq(JobIds) /\ deferredList # << >> /\ alive
  BY DEF TypeOK, LoopTyped, ReleaseDeferred, Due
<1>2. 1 \in 1 .. Len(deferredList) /\ Head(deferredList) = deferredList[1]
  BY <1>1, EmptySeq
<1>3. QED BY <1>1, <1>2, ElementOfSeq DEF DeferredListSound

\* What a move changes of the state of jobs.
LEMMA MoveJobState ==
    ASSUME TypeOK, NEW j \in JobIds, NEW s, NEW nq, MoveJob(j, s, nq)
    PROVE  /\ state'[j] = s
           /\ \A k \in JobIds : k # j => state'[k] = state[k]
BY DEF MoveJob, TypeOK, JobsTyped

\* What AddJob frees, and that the new id is not in use.
LEMMA AddJobEffect ==
    ASSUME TypeOK, NEW r \in AddArgs, AddJob(r)
    PROVE  \/ Die
           \/ \E F \in SUBSET deleted :
                 /\ F \cap (dirty \cup flushing) = {}
                 /\ \/ /\ CleanupJob(F)
                       /\ UNCHANGED <<flushing, dirty, deferredList, poolSize,
                                      statVars, saving, alive>>
                    \/ \E j \in JobIds : /\ j \in F \/ j \notin table
                                         /\ r \in AddRequest
                                         /\ AddToTable(j, F, r)
<1>1. r \in AddRequest
  BY RequestsAssumption
<1>2. startJobId \in 0 .. MaxJobId /\ table \subseteq JobIds /\ deleted \subseteq JobIds
  BY DEF TypeOK, CountsTyped, JobsTyped
<1>3. CASE AddJobNextId(r)
  <2>1. CASE table # JobIds /\ AddToTable(NextJobID(JobIds \ table), {}, r)
    <3>1. NextJobID(JobIds \ table) \in JobIds \ table
      BY <1>2, <2>1, NextJobIDFree
    <3>2. {} \in SUBSET deleted /\ {} \cap (dirty \cup flushing) = {}
      OBVIOUS
    <3>3. QED BY <1>1, <2>1, <3>1, <3>2
  <2>2. ASSUME NEW D \in CleanupVisits(5), Cleanable(D) # {},
               AddToTable(NextJobID(Cleanable(D)), Cleanable(D), r)
        PROVE  \E F \in SUBSET deleted : \E j \in JobIds :
                 F \cap (dirty \cup flushing) = {} /\ j \in F /\ AddToTable(j, F, r)
    <3>1. Cleanable(D) \in SUBSET deleted /\ Cleanable(D) \in SUBSET JobIds
          /\ Cleanable(D) \cap (dirty \cup flushing) = {}
      BY <1>2, CleanupFrees
    <3>2. NextJobID(Cleanable(D)) \in Cleanable(D)
      BY <1>2, <2>2, <3>1, NextJobIDFree
    <3>3. QED BY <2>2, <3>1, <3>2
  <2>3. QED BY <1>1, <1>3, <2>1, <2>2 DEF AddJobNextId
<1>4. CASE r.jobid # 0 /\ AddJobWithId(r)
  <2> DEFINE F == table \cap {r.jobid}
  <2>1. F \in SUBSET deleted /\ F \cap (dirty \cup flushing) = {}
    BY <1>4 DEF AddJobWithId, Cleanable
  <2>2. r.jobid \in JobIds /\ (r.jobid \in F \/ r.jobid \notin table)
    BY <1>1, <1>4, JobIdsAssumption DEF AddRequest, JobIds
  <2>3. \/ AddToTable(r.jobid, F, r)
        \/ CleanupJob(F) /\ UNCHANGED <<flushing, dirty, deferredList, poolSize,
                                        statVars, saving, alive>>
    BY <1>4 DEF AddJobWithId
  <2> HIDE DEF F
  <2>4. QED BY <1>1, <2>1, <2>2, <2>3
<1>5. QED BY <1>3, <1>4 DEF AddJob

\* What cleanupEvent() frees.
LEMMA CleanupEventEffect ==
    ASSUME CleanupEvent
    PROVE  \E F \in SUBSET deleted :
              F \cap (dirty \cup flushing) = {} /\ CleanupJob(F)
<1> DEFINE max == IF pool # << >> \/ recalc THEN (MaxCleanup + 1) \div 2 ELSE MaxCleanup
<1>1. PICK D \in CleanupVisits(IF max = 0 THEN 10 ELSE max) : CleanupJob(Cleanable(D))
  BY DEF CleanupEvent
<1> HIDE DEF max
<1>2. QED BY <1>1, CleanupFrees

(***************************************************************************)
(* Steps that leave the jobs alone.                                        *)
(***************************************************************************)
Quiet ==
    \/ \E a \in Agents :
          \/ AgentConnect(a) \/ AgentLogin(a) \/ AgentRecon(a) \/ AgentDisconnect(a)
          \/ \E j \in JobIds : AgentUnheard(a, j)
    \/ ReconEnd \/ MarkQueueStopped \/ CheckJobs \/ Tick \/ Stopped
    \/ \E q \in Queues, m \in QueueArgs : ModQueue(q, m)
    \/ Die \/ UNCHANGED vars

\* They change no job, no flag, no counter and no list but the pool.
LEMMA QuietEffect ==
    ASSUME Quiet
    PROVE  /\ UNCHANGED <<table, state, queue, deferTime, flagVars, deferredList,
                          jobStats, queueStats, deletedCount, saving>>
           /\ alive' => alive
<1> DEFINE Effect == /\ UNCHANGED <<table, state, queue, deferTime, flagVars,
                                    deferredList, jobStats, queueStats, deletedCount,
                                    saving>>
                     /\ alive' => alive
<1>1. ASSUME NEW a \in Agents, AgentConnect(a) PROVE Effect
  BY <1>1 DEF AgentConnect
<1>2. ASSUME NEW a \in Agents, AgentLogin(a) PROVE Effect
  BY <1>2 DEF AgentLogin
<1>3. ASSUME NEW a \in Agents, AgentRecon(a) PROVE Effect
  BY <1>3 DEF AgentRecon
<1>4. ASSUME NEW a \in Agents, AgentDisconnect(a) PROVE Effect
  BY <1>4 DEF AgentDisconnect
<1>5. ASSUME NEW a \in Agents, NEW j \in JobIds, AgentUnheard(a, j) PROVE Effect
  BY <1>5 DEF AgentUnheard
<1>6. ASSUME ReconEnd PROVE Effect
  BY <1>6 DEF ReconEnd
<1>7. ASSUME MarkQueueStopped PROVE Effect
  BY <1>7 DEF MarkQueueStopped
<1>8. ASSUME CheckJobs PROVE Effect
  BY <1>8 DEF CheckJobs
<1>9. ASSUME Tick PROVE Effect
  BY <1>9 DEF Tick
<1>10. ASSUME UNCHANGED vars PROVE Effect
  BY <1>10 DEF vars
<1>11. ASSUME Die PROVE Effect
  BY <1>11 DEF Die
<1>12. ASSUME NEW q \in Queues, NEW m \in QueueArgs, ModQueue(q, m) PROVE Effect
  BY <1>12 DEF ModQueue
<1>13. Stopped => UNCHANGED vars
  BY DEF Stopped
<1> HIDE DEF Effect
<1>14. Effect
  BY <1>1, <1>2, <1>3, <1>4, <1>5, <1>6, <1>7, <1>8, <1>9, <1>10, <1>11, <1>12,
     <1>13 DEF Quiet
<1>15. QED BY <1>14 DEF Effect

\* Of them only checkJobs() makes a new pool.
LEMMA QuietPool ==
    ASSUME Quiet, ~CheckJobs
    PROVE  UNCHANGED <<pool, poolSize>>
<1> DEFINE Effect == UNCHANGED <<pool, poolSize>>
<1>1. ASSUME NEW a \in Agents, AgentConnect(a) PROVE Effect
  BY <1>1 DEF AgentConnect
<1>2. ASSUME NEW a \in Agents, AgentLogin(a) PROVE Effect
  BY <1>2 DEF AgentLogin
<1>3. ASSUME NEW a \in Agents, AgentRecon(a) PROVE Effect
  BY <1>3 DEF AgentRecon
<1>4. ASSUME NEW a \in Agents, AgentDisconnect(a) PROVE Effect
  BY <1>4 DEF AgentDisconnect
<1>5. ASSUME NEW a \in Agents, NEW j \in JobIds, AgentUnheard(a, j) PROVE Effect
  BY <1>5 DEF AgentUnheard
<1>6. ASSUME ReconEnd PROVE Effect
  BY <1>6 DEF ReconEnd
<1>7. ASSUME MarkQueueStopped PROVE Effect
  BY <1>7 DEF MarkQueueStopped
<1>8. ASSUME Tick PROVE Effect
  BY <1>8 DEF Tick
<1>9. ASSUME UNCHANGED vars PROVE Effect
  BY <1>9 DEF vars
<1>10. ASSUME Die PROVE Effect
  BY <1>10 DEF Die
<1>11. ASSUME NEW q \in Queues, NEW m \in QueueArgs, ModQueue(q, m) PROVE Effect
  BY <1>11 DEF ModQueue
<1>12. Stopped => UNCHANGED vars
  BY DEF Stopped
<1> HIDE DEF Effect
<1>13. Effect
  BY <1>1, <1>2, <1>3, <1>4, <1>5, <1>6, <1>7, <1>8, <1>9, <1>10, <1>11,
     <1>12 DEF Quiet
<1>14. QED BY <1>13 DEF Effect

(***************************************************************************)
(* Steps that move one job and leave the list and the pool alone.          *)
(***************************************************************************)
Moving(j, s) ==
    /\ j \in table \ {NoJob} /\ s \in JobStates \ Waiting
    /\ MoveJob(j, s, NoQueue)
    /\ deleted' \in {deleted, deleted \ {j}}
    /\ started' \subseteq started
    /\ flushing' \in {flushing, flushing \ {j}}
    /\ dirty' \in {dirty, dirty \cup {j}}
    /\ flushing' # flushing => j \in dirty'
    /\ UNCHANGED <<table, deferTime, deferredList, pool, poolSize, deletedCount,
                   saving, alive>>

Still == UNCHANGED <<table, state, queue, deferTime, flagVars, deferredList,
                     jobStats, queueStats, pool, poolSize, deletedCount,
                     saving, alive>>

\* An agent's report, a disconnect and a signal of an unknown job move a job
\* that is in memory to a state in which it does not wait.
LEMMA MovingEffect ==
    ASSUME TypeOK, NEW j \in JobIds,
           \/ \E a \in Agents : \/ AgentJobStart(a, j)
                                \/ \E ok \in BOOLEAN : AgentJobCompleted(a, j, ok)
           \/ \E ph \in Phases, ok \in BOOLEAN : ReconItem(j, ph, ok)
           \/ MarkJobUnknown(j) \/ SigJob(j)
    PROVE  \/ Die
           \/ \E s \in JobStates : Moving(j, s)
           \/ UNCHANGED <<table, state, queue, deferTime, flagVars, deferredList,
                          jobStats, queueStats, pool, poolSize, deletedCount,
                          saving, alive>>
<1> DEFINE Same == UNCHANGED <<table, state, queue, deferTime, flagVars, deferredList,
                               jobStats, queueStats, pool, poolSize, deletedCount,
                               saving, alive>>
<1>0. /\ {"running", "completed", "exited", "unknown"} \subseteq JobStates \ Waiting
      /\ j # NoJob
  BY NoJobAssumption DEF JobStates, Ended, Waiting
<1>1. ASSUME NEW a \in Agents, AgentJobStart(a, j), j \in table
      PROVE  Moving(j, "running")
  BY <1>0, <1>1 DEF AgentJobStart, ChangeJobState, Moving
<1>2. ASSUME NEW a \in Agents, NEW ok \in BOOLEAN, AgentJobCompleted(a, j, ok),
             j \in table
      PROVE  Moving(j, IF ok THEN "completed" ELSE "exited")
  BY <1>0, <1>2 DEF AgentJobCompleted, ChangeJobState, Moving
<1>3. ASSUME NEW a \in Agents, j \notin table,
             AgentJobStart(a, j) \/ \E ok \in BOOLEAN : AgentJobCompleted(a, j, ok)
      PROVE  Same
  <2>1. AgentJobStart(a, j) => Same
    BY <1>3 DEF AgentJobStart
  <2>2. \A ok \in BOOLEAN : AgentJobCompleted(a, j, ok) => Same
    BY <1>3 DEF AgentJobCompleted
  <2>3. QED BY <1>3, <2>1, <2>2
<1>4. ASSUME NEW ok \in BOOLEAN, ReconItem(j, "finished", ok), ~Die
      PROVE  Moving(j, IF ok THEN "completed" ELSE "exited")
  BY <1>0, <1>4, Zenon DEF ReconItem, ChangeJobState, Moving
<1>5. ASSUME NEW ok \in BOOLEAN, ReconItem(j, "running", ok), ~Die
      PROVE  Moving(j, "running")
  BY <1>0, <1>5, Zenon DEF ReconItem, ChangeJobState, Moving
<1>6. ASSUME NEW ok \in BOOLEAN, ReconItem(j, "sent", ok), ~Die
      PROVE  Same
  BY <1>6, Zenon DEF ReconItem
<1>7. ASSUME MarkJobUnknown(j) PROVE Moving(j, "unknown")
  BY <1>0, <1>7 DEF MarkJobUnknown, OnAgent, ChangeJobState, Moving
<1>8. ASSUME SigJob(j), ~Die PROVE Moving(j, "exited")
  BY <1>0, <1>8 DEF SigJob, ChangeJobState, Moving
<1> HIDE DEF Same
<1>9. (\E s \in JobStates : Moving(j, s)) \/ Die \/ Same
  <2>1. \A ok \in BOOLEAN : (IF ok THEN "completed" ELSE "exited") \in JobStates
    BY <1>0
  <2>2. "running" \in JobStates /\ "unknown" \in JobStates /\ "exited" \in JobStates
    BY <1>0
  <2>3. CASE \E a \in Agents : \/ AgentJobStart(a, j)
                               \/ \E ok \in BOOLEAN : AgentJobCompleted(a, j, ok)
    BY <1>1, <1>2, <1>3, <2>1, <2>2, <2>3
  <2>4. CASE \E ph \in Phases, ok \in BOOLEAN : ReconItem(j, ph, ok)
    BY <1>4, <1>5, <1>6, <2>1, <2>2, <2>4 DEF Phases
  <2>5. CASE MarkJobUnknown(j) \/ SigJob(j)
    BY <1>7, <1>8, <2>2, <2>5
  <2>6. QED BY <2>3, <2>4, <2>5
<1>10. QED BY <1>9 DEF Same

(***************************************************************************)
(* Every step is of one of a few kinds.                                    *)
(***************************************************************************)
Freeing(F) ==
    /\ F \cap (dirty \cup flushing) = {}
    /\ CleanupJob(F)
    /\ UNCHANGED <<flushing, dirty, deferredList, poolSize, statVars, saving, alive>>

Adding(j, F, r) ==
    /\ F \cap (dirty \cup flushing) = {}
    /\ j \in F \/ j \notin table
    /\ AddToTable(j, F, r)

Modifying(j, s, m) ==
    /\ j \in table \ deleted /\ j \notin started
    /\ alive /\ alive'
    /\ MoveJob(j, s, m.queue)
    /\ deferTime' = [deferTime EXCEPT ![j] = IF m.defer = Unset THEN @ ELSE m.defer]
    /\ IF m.defer = Unset THEN deferredList' = deferredList
       ELSE LET unlinked == IF deferTime[j] # 0
                            THEN RemoveDeferredJob(deferredList, j)
                            ELSE deferredList
            IN  /\ deferTime[j] # 0 => InDeferredList(j)
                /\ deferredList' = IF m.defer = 0 THEN unlinked
                                   ELSE AddDeferredJob(unlinked, j, m.defer)
    /\ dirty' \in {dirty, dirty \cup {j}}
    /\ UNCHANGED <<table, deleted, started, flushing, pool, poolSize,
                   deletedCount, saving>>

Deleting(j) ==
    /\ j \in table \ deleted
    /\ alive /\ alive'
    /\ MoveJob(j, NoState, NoQueue)
    /\ deleted' = deleted \cup {j}
    /\ deletedCount' = deletedCount + 1
    /\ deferTime[j] # 0 => InDeferredList(j)
    /\ deferredList' = IF deferTime[j] # 0
                       THEN RemoveDeferredJob(deferredList, j) ELSE deferredList
    /\ UNCHANGED <<table, deferTime, started, flushing, dirty, pool, poolSize, saving>>

Saving == SaveStart \/ \E ok \in BOOLEAN : SaveEnd(ok)

StepKind ==
    \/ Quiet \/ Still
    \/ \E j \in JobIds, s \in JobStates : Moving(j, s)
    \/ \E F \in SUBSET deleted : Freeing(F)
    \/ \E F \in SUBSET deleted, j \in JobIds, r \in AddRequest : Adding(j, F, r)
    \/ \E j \in JobIds, s \in JobStates \cup {NoState}, m \in ModRequest : Modifying(j, s, m)
    \/ \E j \in JobIds : Deleting(j)
    \/ ReleaseDeferred \/ SchedStep \/ Saving

\* A ModJob step that does not stop jersd.
LEMMA ModJobEffect ==
    ASSUME TypeOK, NEW j \in JobIds, NEW m \in ModArgs, ModJob(j, m), ~Die
    PROVE  m \in ModRequest /\ \E s \in JobStates \cup {NoState} : Modifying(j, s, m)
<1> DEFINE ended == state[j] \in Ended
           t == IF m.defer = Unset THEN deferTime[j] ELSE m.defer
           hold == IF m.hold = Unset THEN state[j] = "holding" ELSE m.hold
           s == CASE t # 0           -> "deferred"
                  [] t = 0 /\ hold   -> "holding"
                  [] t = 0 /\ ~hold  -> IF ended /\ ~m.restart THEN state[j]
                                       ELSE "pending"
<1>1. MoveJob(j, s, m.queue)
  BY DEF ModJob, ChangeJobState
<1>2. state[j] \in JobStates \cup {NoState}
  BY DEF TypeOK, JobsTyped
<1>3. s \in JobStates \cup {NoState}
  <2>1. CASE t # 0
    BY <2>1 DEF JobStates, Waiting
  <2>2. CASE t = 0 /\ hold
    BY <2>2 DEF JobStates, Waiting
  <2>3. CASE t = 0 /\ ~hold
    BY <1>2, <2>3 DEF JobStates, Waiting
  <2>4. QED BY <2>1, <2>2, <2>3
<1> HIDE DEF s
<1>4. /\ j \in table \ deleted /\ j \notin started /\ alive /\ alive'
      /\ dirty' \in {dirty, dirty \cup {j}}
      /\ UNCHANGED <<table, deleted, started, flushing, pool, poolSize,
                     deletedCount, saving>>
  BY Zenon DEF ModJob, Idle
<1>5. deferTime' = [deferTime EXCEPT ![j] = IF m.defer = Unset THEN @ ELSE m.defer]
  BY DEF ModJob
<1>6. IF m.defer = Unset THEN deferredList' = deferredList
      ELSE LET unlinked == IF deferTime[j] # 0
                           THEN RemoveDeferredJob(deferredList, j)
                           ELSE deferredList
           IN  /\ deferTime[j] # 0 => InDeferredList(j)
               /\ deferredList' = IF m.defer = 0 THEN unlinked
                                  ELSE AddDeferredJob(unlinked, j, m.defer)
  BY DEF ModJob
<1>7. Modifying(j, s, m)
  BY <1>1, <1>4, <1>5, <1>6 DEF Modifying
<1>8. QED BY <1>3, <1>7, RequestsAssumption

\* A DelJob or AutoCleanup step that does not stop jersd.
LEMMA DeleteJobEffect ==
    ASSUME NEW j \in JobIds, DelJob(j) \/ AutoCleanup(j), ~Die
    PROVE  Deleting(j)
BY DEF DelJob, AutoCleanup, DeleteJob, ChangeJobState, Deleting, Idle

\* Every step of jersd, of an agent or of the clock is of one of those kinds.
LEMMA StepKinds == TypeOK /\ [Next]_vars => StepKind
<1> SUFFICES ASSUME TypeOK, [Next]_vars PROVE StepKind
  OBVIOUS
<1>0. CASE Die
  BY <1>0 DEF StepKind, Quiet
<1>1. ASSUME NEW r \in AddArgs, AddJob(r), ~Die PROVE StepKind
  <2>1. PICK F \in SUBSET deleted :
          /\ F \cap (dirty \cup flushing) = {}
          /\ \/ /\ CleanupJob(F)
                /\ UNCHANGED <<flushing, dirty, deferredList, poolSize, statVars,
                               saving, alive>>
             \/ \E j \in JobIds : /\ j \in F \/ j \notin table
                                  /\ r \in AddRequest
                                  /\ AddToTable(j, F, r)
    BY <1>1, AddJobEffect
  <2>2. Freeing(F) \/ \E j \in JobIds : r \in AddRequest /\ Adding(j, F, r)
    BY <2>1 DEF Freeing, Adding
  <2>3. QED BY <2>2 DEF StepKind
<1>2. ASSUME NEW j \in JobIds, NEW m \in ModArgs, ModJob(j, m), ~Die PROVE StepKind
  BY <1>2, ModJobEffect DEF StepKind
<1>3. ASSUME NEW j \in JobIds, DelJob(j) \/ AutoCleanup(j), ~Die PROVE StepKind
  BY <1>3, DeleteJobEffect DEF StepKind
<1>4. ASSUME NEW j \in JobIds,
             \/ \E a \in Agents : \/ AgentJobStart(a, j)
                                  \/ \E ok \in BOOLEAN : AgentJobCompleted(a, j, ok)
             \/ \E ph \in Phases, ok \in BOOLEAN : ReconItem(j, ph, ok)
             \/ MarkJobUnknown(j) \/ SigJob(j),
             ~Die
      PROVE  StepKind
  BY <1>4, MovingEffect DEF StepKind, Still
<1>5. CASE CleanupEvent
  <2>1. PICK F \in SUBSET deleted : F \cap (dirty \cup flushing) = {} /\ CleanupJob(F)
    BY <1>5, CleanupEventEffect
  <2>2. Freeing(F)
    BY <1>5, <2>1 DEF Freeing, CleanupEvent
  <2>3. QED BY <2>2 DEF StepKind
<1>6. CASE Quiet \/ ReleaseDeferred \/ SchedStep \/ Saving
  BY <1>6 DEF StepKind
<1>7. CASE ClientCommand
  BY <1>0, <1>1, <1>2, <1>3, <1>4, <1>6, <1>7 DEF ClientCommand, Quiet
<1>8. CASE AgentEvent
  BY <1>0, <1>4, <1>6, <1>8 DEF AgentEvent, Quiet
<1>9. CASE TimedEvent
  BY <1>0, <1>3, <1>5, <1>6, <1>9 DEF TimedEvent, Quiet, Saving
<1>10. CASE Stopped \/ UNCHANGED vars
  BY <1>6, <1>10 DEF Quiet
<1>11. QED BY <1>7, <1>8, <1>9, <1>10 DEF Next

\* What addJob() changes, but for the fields of jobs.
LEMMA AddingEffect ==
    ASSUME TypeOK, NEW F \in SUBSET deleted, NEW j \in JobIds, NEW r \in AddRequest,
           Adding(j, F, r)
    PROVE  /\ F \in SUBSET JobIds /\ F \cap (dirty \cup flushing) = {}
           /\ j \in F \/ j \notin table
           /\ table' = (table \ F) \cup {j} /\ deleted' = deleted \ F
           /\ started' = started \ F /\ dirty' = dirty \cup {j}
           /\ pool' = PoolWithout(F) /\ deletedCount' = DeletedLeft(F)
           /\ deferredList' = IF r.defer # 0
                              THEN AddDeferredJob(deferredList, j, r.defer)
                              ELSE deferredList
           /\ UNCHANGED <<flushing, saving, poolSize, alive>>
<1>1. F \in SUBSET JobIds
  BY DEF TypeOK, JobsTyped
<1>2. QED BY <1>1 DEF Adding, AddToTable

\* What addJob() does to the jobs' states, queues and defer times.
LEMMA AddingJobs ==
    ASSUME TypeOK, NEW F \in SUBSET deleted, NEW j \in JobIds, NEW r \in AddRequest,
           Adding(j, F, r)
    PROVE  /\ state'[j] = IF r.defer # 0 THEN "deferred"
                          ELSE IF r.hold THEN "holding" ELSE "pending"
           /\ deferTime'[j] = r.defer
           /\ queue'[j] = r.queue
           /\ \A k \in JobIds \ {j} :
                 /\ state'[k] = IF k \in F THEN NoState ELSE state[k]
                 /\ deferTime'[k] = IF k \in F THEN 0 ELSE deferTime[k]
                 /\ queue'[k] = IF k \in F THEN DefaultQueue ELSE queue[k]
<1> DEFINE s == IF r.defer # 0 THEN "deferred"
                ELSE IF r.hold THEN "holding" ELSE "pending"
<1>1. /\ state' = [Blank(state, F, NoState) EXCEPT ![j] = s]
      /\ queue' = [Blank(queue, F, DefaultQueue) EXCEPT ![j] = r.queue]
      /\ deferTime' = [Blank(deferTime, F, 0) EXCEPT ![j] = r.defer]
  BY Zenon DEF Adding, AddToTable
<1>2. QED BY <1>1 DEF Blank

(***************************************************************************)
(* The flags, the save and the count of deleted jobs.                      *)
(***************************************************************************)
\* A freed job takes its flags along.
LEMMA FlagsFreeing ==
    ASSUME TypeOK, FlagsSound, NEW F \in SUBSET deleted, Freeing(F)
    PROVE  FlagsSound'
<1>1. /\ table' = table \ F /\ deleted' = deleted \ F /\ started' = started \ F
      /\ state' = Blank(state, F, NoState)
      /\ UNCHANGED <<flushing, dirty>> /\ F \cap (dirty \cup flushing) = {}
  BY DEF Freeing, CleanupJob
<1>2. QED BY <1>1 DEF Blank, FlagsSound, TypeOK, JobsTyped

\* A new job starts with the dirty flag alone.
LEMMA FlagsAdding ==
    ASSUME TypeOK, FlagsSound, NEW F \in SUBSET deleted, NEW j \in JobIds,
           NEW r \in AddRequest, Adding(j, F, r)
    PROVE  FlagsSound'
<1>1. /\ F \cap (dirty \cup flushing) = {} /\ (j \in F \/ j \notin table)
      /\ table' = (table \ F) \cup {j} /\ deleted' = deleted \ F
      /\ started' = started \ F /\ dirty' = dirty \cup {j} /\ flushing' = flushing
  BY AddingEffect
<1>2. \A k \in JobIds \ {j} : state'[k] = IF k \in F THEN NoState ELSE state[k]
  BY AddingJobs
<1>3. (deleted \cup started \cup flushing \cup dirty)' \subseteq table'
  BY <1>1 DEF FlagsSound
<1>4. ASSUME NEW k \in JobIds, k \notin table' PROVE state'[k] = NoState
  BY <1>1, <1>2, <1>4 DEF FlagsSound
<1>5. ASSUME NEW k \in deleted' PROVE state'[k] \notin Waiting
  <2>1. k \in deleted /\ k \in JobIds /\ k # j /\ k \notin F
    BY <1>1, <1>5 DEF FlagsSound, TypeOK, JobsTyped
  <2>2. QED BY <1>2, <2>1 DEF FlagsSound
<1>6. QED BY <1>3, <1>4, <1>5 DEF FlagsSound

\* A step keeps the flags on jobs in memory, and deleted jobs from waiting.
LEMMA FlagsStep ==
    ASSUME TypeOK, FlagsSound, SavedJobsProtected, DeferredListSound, StepKind
    PROVE  FlagsSound'
<1>1. CASE Quiet \/ Still
  <2>1. UNCHANGED <<table, state, flagVars>>
    BY <1>1, QuietEffect DEF Still
  <2>2. QED BY <2>1 DEF FlagsSound
<1>2. ASSUME NEW j \in JobIds, NEW s \in JobStates, Moving(j, s) PROVE FlagsSound'
  BY <1>2, MoveJobState DEF Moving, FlagsSound, TypeOK, JobsTyped
<1>3. ASSUME NEW F \in SUBSET deleted, Freeing(F) PROVE FlagsSound'
  BY <1>3, FlagsFreeing
<1>4. ASSUME NEW F \in SUBSET deleted, NEW j \in JobIds, NEW r \in AddRequest,
             Adding(j, F, r)
      PROVE  FlagsSound'
  BY <1>4, FlagsAdding
<1>5. ASSUME NEW j \in JobIds, NEW s \in JobStates \cup {NoState}, NEW m \in ModRequest,
             Modifying(j, s, m)
      PROVE  FlagsSound'
  BY <1>5, MoveJobState DEF Modifying, FlagsSound, TypeOK, JobsTyped
<1>6. ASSUME NEW j \in JobIds, Deleting(j) PROVE FlagsSound'
  <2>1. NoState \notin Waiting
    BY DEF NoState, Waiting
  <2>2. QED BY <1>6, <2>1, MoveJobState DEF Deleting, FlagsSound, TypeOK, JobsTyped
<1>7. CASE ReleaseDeferred
  <2>1. Head(deferredList) \in table \ deleted /\ Head(deferredList) \in JobIds
    BY <1>7, DeferredHead
  <2>2. MoveJob(Head(deferredList), "pending", NoQueue) /\ UNCHANGED <<table, flagVars>>
    BY <1>7 DEF ReleaseDeferred
  <2>3. QED BY <2>1, <2>2, MoveJobState DEF FlagsSound, TypeOK, JobsTyped
<1>8. CASE SchedStep
  <2>1. UNCHANGED <<table, state, deleted, flushing, dirty>>
    BY <1>8 DEF SchedStep
  <2>2. started' \subseteq table
    <3> DEFINE j == pool[cursor]
    <3>1. started' = started \/ (j # NoJob /\ Startable(j) /\ started' = started \cup {j})
      BY <1>8, Zenon DEF SchedStep, StartJob
    <3>2. j \in JobIds \cup {NoJob}
      BY <1>8, ElementOfSeq DEF SchedStep, TypeOK, LoopTyped
    <3>3. "pending" # NoState
      BY DEF NoState
    <3>4. QED BY <3>1, <3>2, <3>3 DEF Startable, FlagsSound
  <2>3. QED BY <2>1, <2>2 DEF FlagsSound
<1>9. CASE Saving
  <2>1. ASSUME SaveStart PROVE FlagsSound'
    BY <2>1 DEF SaveStart, FlagsSound
  <2>2. ASSUME NEW ok \in BOOLEAN, SaveEnd(ok) PROVE FlagsSound'
    BY <2>2 DEF SaveEnd, FlagsSound, SavedJobsProtected
  <2>3. QED BY <1>9, <2>1, <2>2 DEF Saving
<1>10. QED BY <1>1, <1>2, <1>3, <1>4, <1>5, <1>6, <1>7, <1>8, <1>9 DEF StepKind

\* A step keeps the jobs of a background save in memory and out of reach of
\* cleanupJob().
LEMMA SavedStep ==
    ASSUME TypeOK, FlagsSound, SavedJobsProtected, StepKind
    PROVE  SavedJobsProtected'
<1>1. CASE Quiet \/ Still
  <2>1. UNCHANGED <<table, flagVars, saving>>
    BY <1>1, QuietEffect DEF Still
  <2>2. QED BY <2>1 DEF SavedJobsProtected
<1>2. ASSUME NEW j \in JobIds, NEW s \in JobStates, Moving(j, s) PROVE SavedJobsProtected'
  BY <1>2 DEF Moving, SavedJobsProtected
<1>3. ASSUME NEW F \in SUBSET deleted, Freeing(F) PROVE SavedJobsProtected'
  BY <1>3 DEF Freeing, CleanupJob, SavedJobsProtected
<1>4. ASSUME NEW F \in SUBSET deleted, NEW j \in JobIds, NEW r \in AddRequest,
             Adding(j, F, r)
      PROVE  SavedJobsProtected'
  BY <1>4, AddingEffect DEF SavedJobsProtected
<1>5. ASSUME NEW j \in JobIds, NEW s \in JobStates \cup {NoState}, NEW m \in ModRequest,
             Modifying(j, s, m)
      PROVE  SavedJobsProtected'
  BY <1>5 DEF Modifying, SavedJobsProtected
<1>6. ASSUME NEW j \in JobIds, Deleting(j) PROVE SavedJobsProtected'
  BY <1>6 DEF Deleting, SavedJobsProtected
<1>7. CASE ReleaseDeferred \/ SchedStep
  <2>1. UNCHANGED <<table, deleted, flushing, dirty, saving>>
    BY <1>7, Zenon DEF ReleaseDeferred, SchedStep
  <2>2. QED BY <2>1 DEF SavedJobsProtected
<1>8. CASE Saving
  <2>1. ASSUME SaveStart PROVE SavedJobsProtected'
    BY <2>1 DEF SaveStart, FlagsSound, SavedJobsProtected
  <2>2. ASSUME NEW ok \in BOOLEAN, SaveEnd(ok) PROVE SavedJobsProtected'
    BY <2>2 DEF SaveEnd, SavedJobsProtected
  <2>3. QED BY <1>8, <2>1, <2>2 DEF Saving
<1>9. QED BY <1>1, <1>2, <1>3, <1>4, <1>5, <1>6, <1>7, <1>8 DEF StepKind

\* A step keeps server.deleted at or above the number of deleted jobs.
LEMMA DeletedStep ==
    ASSUME TypeOK, DeletedJobsCounted, StepKind
    PROVE  DeletedJobsCounted'
<1>0. deleted \in SUBSET JobIds /\ deletedCount \in Int
      /\ IsFiniteSet(deleted) /\ Cardinality(deleted) \in Nat
  BY FiniteJobs DEF TypeOK, JobsTyped, CountsTyped
<1>1. CASE UNCHANGED <<deleted, deletedCount>>
  BY <1>1 DEF DeletedJobsCounted
<1>2. CASE Quiet \/ Still \/ ReleaseDeferred \/ SchedStep \/ Saving
  <2>1. ASSUME Saving PROVE UNCHANGED <<deleted, deletedCount>>
    BY <2>1 DEF Saving, SaveStart, SaveEnd
  <2>2. ASSUME ReleaseDeferred \/ SchedStep PROVE UNCHANGED <<deleted, deletedCount>>
    BY <2>2 DEF ReleaseDeferred, SchedStep
  <2>3. QED BY <1>1, <1>2, <2>1, <2>2, QuietEffect DEF Still
<1>3. ASSUME NEW j \in JobIds, NEW s \in JobStates, Moving(j, s) PROVE DeletedJobsCounted'
  <2>1. deletedCount' = deletedCount /\ deleted' \in SUBSET deleted
    BY <1>3 DEF Moving
  <2>2. Cardinality(deleted') <= Cardinality(deleted) /\ Cardinality(deleted') \in Nat
    BY <1>0, <2>1, FS_Subset, FiniteJobs
  <2>3. QED BY <1>0, <2>1, <2>2 DEF DeletedJobsCounted
<1>4. ASSUME NEW F \in SUBSET deleted, deleted' = deleted \ F, deletedCount' = DeletedLeft(F)
      PROVE  DeletedJobsCounted'
  BY <1>0, <1>4, CardinalityWithout DEF DeletedLeft, DeletedJobsCounted
<1>5. ASSUME NEW F \in SUBSET deleted, Freeing(F) PROVE DeletedJobsCounted'
  BY <1>4, <1>5 DEF Freeing, CleanupJob
<1>6. ASSUME NEW F \in SUBSET deleted, NEW j \in JobIds, NEW r \in AddRequest,
             Adding(j, F, r)
      PROVE  DeletedJobsCounted'
  BY <1>4, <1>6, AddingEffect
<1>7. ASSUME NEW j \in JobIds, NEW s \in JobStates \cup {NoState}, NEW m \in ModRequest,
             Modifying(j, s, m)
      PROVE  DeletedJobsCounted'
  BY <1>1, <1>7 DEF Modifying
<1>8. ASSUME NEW j \in JobIds, Deleting(j) PROVE DeletedJobsCounted'
  <2>1. deleted' = deleted \cup {j} /\ deletedCount' = deletedCount + 1 /\ j \notin deleted
    BY <1>8 DEF Deleting
  <2>2. Cardinality(deleted') = Cardinality(deleted) + 1
    BY <1>0, <2>1, FS_AddElement
  <2>3. QED BY <1>0, <2>1, <2>2 DEF DeletedJobsCounted
<1>9. QED BY <1>2, <1>3, <1>5, <1>6, <1>7, <1>8 DEF StepKind

==============================================================================
