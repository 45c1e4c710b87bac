------------------------ MODULE JobTableTypes_proofs -------------------------
(***************************************************************************)
(* What agents, the save, the clock and the signals of clients do to JobTable *)
(* keeps every variable well typed.                                        *)
(***************************************************************************)
EXTENDS JobTable, TLAPS

USE DEF jobVars, flagVars, poolVars, statVars, idVars, queueVars, agentVars,
        saveVars, loopVars

(***************************************************************************)
(* Jobs, counters and instances.                                           *)
(***************************************************************************)
\* jersd starts well typed.
LEMMA InitType == Init => TypeOK
<1> SUFFICES ASSUME Init PROVE TypeOK
  OBVIOUS
<1>1. NoNeeds \in Needs
  BY DEF NoNeeds, Needs
<1>2. << >> \in Seq(JobIds) /\ << >> \in Seq(JobIds \cup {NoJob})
  OBVIOUS
<1> USE JobIdsAssumption, QueuesAssumption
<1>3. JobsTyped
  BY <1>1 DEF Init, JobsTyped
<1>4. CountsTyped
  BY DEF Init, CountsTyped
<1>5. QueuesTyped
  BY LimitsAssumption DEF Init, QueuesTyped
<1>6. AgentsTyped
  BY DEF Init, AgentsTyped
<1>7. LoopTyped
  <2>1. recalc \in BOOLEAN /\ savePid \in BOOLEAN /\ readonly \in BOOLEAN
        /\ alive \in BOOLEAN
    BY DEF Init
  <2>2. at = "idle" /\ cursor \in Nat /\ quota \in Int /\ who \in Agents \cup {NoAgent}
        /\ todo \subseteq JobIds \X Phases /\ now \in Nat /\ poolSize \in Nat
    BY DEF Init
  <2>3. deferredList \in Seq(JobIds) /\ pool \in Seq(JobIds \cup {NoJob})
    BY <1>2 DEF Init
  <2>4. QED BY <2>1, <2>2, <2>3 DEF LoopTyped
<1>8. QED BY <1>3, <1>4, <1>5, <1>6, <1>7 DEF TypeOK

\* The variables of a group that a step leaves alone stay well typed.
LEMMA TypeFrame ==
    ASSUME TypeOK
    PROVE  /\ UNCHANGED <<jobVars, flagVars, saving>> => JobsTyped'
           /\ UNCHANGED <<statVars, idVars, inUse>> => CountsTyped'
           /\ UNCHANGED queueVars => QueuesTyped'
           /\ UNCHANGED <<agentVars, inst>> => AgentsTyped'
           /\ UNCHANGED <<deferredList, poolVars, savePid, readonly, now, loopVars,
                          alive>> => LoopTyped'
<1>1. UNCHANGED <<jobVars, flagVars, saving>> => JobsTyped'
  BY DEF TypeOK, JobsTyped
<1>2. UNCHANGED <<statVars, idVars, inUse>> => CountsTyped'
  BY DEF TypeOK, CountsTyped
<1>3. UNCHANGED queueVars => QueuesTyped'
  BY DEF TypeOK, QueuesTyped
<1>4. UNCHANGED <<agentVars, inst>> => AgentsTyped'
  BY DEF TypeOK, AgentsTyped
<1>5. UNCHANGED <<deferredList, poolVars, savePid, readonly, now, loopVars, alive>>
        => LoopTyped'
  BY DEF TypeOK, LoopTyped
<1>6. QED BY <1>1, <1>2, <1>3, <1>4, <1>5

\* changeJobState() keeps the job's fields and the counters well typed.
LEMMA MoveJobType ==
    ASSUME JobsTyped, CountsTyped,
           NEW j \in JobIds, NEW s \in JobStates \cup {NoState},
           NEW nq \in Queues \cup {NoQueue}, MoveJob(j, s, nq)
    PROVE  /\ state' \in [JobIds -> JobStates \cup {NoState}]
           /\ queue' \in [JobIds -> Queues]
           /\ jobStats' \in [JobStates -> Int]
           /\ queueStats' \in [Queues -> [JobStates -> Int]]
           /\ startPending' \in Int
           /\ queueStartPending' \in [Queues -> Int]
<1>1. \A x : \A f \in [JobStates -> Int] : /\ Less(f, x) \in [JobStates -> Int]
                                           /\ More(f, x) \in [JobStates -> Int]
  BY DEF Less, More, One
<1>2. /\ state' \in [JobIds -> JobStates \cup {NoState}]
      /\ queue' \in [JobIds -> Queues]
  BY DEF MoveJob, JobsTyped
<1>3. jobStats' \in [JobStates -> Int]
  BY <1>1 DEF MoveJob, CountsTyped
<1>4. queueStats' \in [Queues -> [JobStates -> Int]]
  BY <1>1 DEF MoveJob, MoveQueueStats, CountsTyped, JobsTyped
<1>5. startPending' \in Int /\ queueStartPending' \in [Queues -> Int]
  BY DEF MoveJob, CountsTyped, JobsTyped, One
<1>6. QED BY <1>2, <1>3, <1>4, <1>5

\* As MoveJobType, with the request for a new pool.
LEMMA ChangeJobStateType ==
    ASSUME TypeOK, NEW j \in JobIds, NEW s \in JobStates \cup {NoState},
           NEW nq \in Queues \cup {NoQueue}, ChangeJobState(j, s, nq)
    PROVE  /\ state' \in [JobIds -> JobStates \cup {NoState}]
           /\ queue' \in [JobIds -> Queues]
           /\ jobStats' \in [JobStates -> Int]
           /\ queueStats' \in [Queues -> [JobStates -> Int]]
           /\ startPending' \in Int
           /\ queueStartPending' \in [Queues -> Int]
           /\ recalc' \in BOOLEAN
<1>1. MoveJob(j, s, nq) /\ JobsTyped /\ CountsTyped
  BY DEF ChangeJobState, TypeOK
<1>2. recalc' \in BOOLEAN
  BY DEF ChangeJobState
<1>3. QED BY <1>1, <1>2, MoveJobType

\* deallocateRes() never takes in_use below zero.
LEMMA DeallocateResType ==
    ASSUME TypeOK, NEW j \in JobIds
    PROVE  DeallocateRes(j) \in [Resources -> Nat]
BY DEF DeallocateRes, TypeOK, JobsTyped, CountsTyped, Needs

\* An instance that moves between phases leaves the counts natural numbers.
LEMMA InstMovesType ==
    ASSUME TypeOK, NEW a \in Agents, NEW j \in JobIds,
           NEW f \in Phases, NEW g, InstMoves(a, j, f, g)
    PROVE  inst' \in [Agents -> [JobIds -> [Phases -> Nat]]]
<1> DEFINE new == [ph \in Phases |-> inst[a][j][ph] - One(ph = f) + One(ph = g)]
<1>1. new \in [Phases -> Nat]
  BY DEF InstMoves, TypeOK, AgentsTyped, One
<1>2. inst' = [inst EXCEPT ![a][j] = new]
  BY DEF InstMoves
<1>3. QED BY <1>1, <1>2 DEF TypeOK, AgentsTyped

\* Starting a candidate keeps what it changes well typed.
LEMMA StartJobType ==
    ASSUME TypeOK, NEW j \in JobIds, Startable(j), StartJob(j)
    PROVE  /\ inUse' \in [Resources -> Nat]
           /\ started' \subseteq JobIds
           /\ startPending' \in Int
           /\ queueStartPending' \in [Queues -> Int]
           /\ inst' \in [Agents -> [JobIds -> [Phases -> Nat]]]
<1> USE DEF TypeOK, JobsTyped, CountsTyped
<1>1. inUse' \in [Resources -> Nat]
  BY DEF StartJob, AllocateRes, Needs
<1>2. started' \subseteq JobIds /\ startPending' \in Int
      /\ queueStartPending' \in [Queues -> Int]
  BY DEF StartJob
<1>3. inst' \in [Agents -> [JobIds -> [Phases -> Nat]]]
  <2>1. qAgent[queue[j]] \in Agents
    BY DEF Startable, QueuesTyped
  <2>2. QED BY <2>1 DEF StartJob, AgentsTyped, Phases
<1>4. QED BY <1>1, <1>2, <1>3

(***************************************************************************)
(* Agents, the save, the clock and two commands.                           *)
(***************************************************************************)
\* An end of jersd keeps the types.
LEMMA TypeDie == ASSUME TypeOK, Die PROVE TypeOK'
<1>1. JobsTyped' /\ CountsTyped' /\ QueuesTyped' /\ AgentsTyped'
  BY TypeFrame DEF Die
<1>2. LoopTyped'
  BY DEF TypeOK, LoopTyped, Die
<1>3. QED BY <1>1, <1>2 DEF TypeOK

\* A connection keeps the types.
LEMMA TypeAgentConnect ==
    ASSUME TypeOK, NEW a \in Agents, AgentConnect(a)
    PROVE  TypeOK'
<1>1. JobsTyped' /\ CountsTyped' /\ QueuesTyped' /\ LoopTyped'
  BY TypeFrame DEF AgentConnect
<1>2. AgentsTyped'
  BY DEF TypeOK, AgentsTyped, AgentConnect
<1>3. QED BY <1>1, <1>2 DEF TypeOK

\* A login keeps the types.
LEMMA TypeAgentLogin ==
    ASSUME TypeOK, NEW a \in Agents, AgentLogin(a)
    PROVE  TypeOK'
<1>1. JobsTyped' /\ CountsTyped' /\ LoopTyped'
  BY TypeFrame DEF AgentLogin
<1>2. QueuesTyped'
  BY DEF TypeOK, QueuesTyped, AgentLogin
<1>3. AgentsTyped'
  BY DEF TypeOK, AgentsTyped, AgentLogin
<1>4. QED BY <1>1, <1>2, <1>3 DEF TypeOK

\* The start of a disconnect keeps the types.
LEMMA TypeAgentDisconnect ==
    ASSUME TypeOK, NEW a \in Agents, AgentDisconnect(a)
    PROVE  TypeOK'
<1>1. JobsTyped' /\ CountsTyped' /\ QueuesTyped' /\ AgentsTyped'
  BY TypeFrame DEF AgentDisconnect
<1>2. LoopTyped'
  BY DEF TypeOK, LoopTyped, AgentDisconnect
<1>3. QED BY <1>1, <1>2 DEF TypeOK

\* The start of a reconciliation keeps the types.
LEMMA TypeAgentRecon ==
    ASSUME TypeOK, NEW a \in Agents, AgentRecon(a)
    PROVE  TypeOK'
<1>1. JobsTyped' /\ CountsTyped' /\ QueuesTyped' /\ AgentsTyped'
  BY TypeFrame DEF AgentRecon
<1>2. LoopTyped'
  BY DEF TypeOK, LoopTyped, AgentRecon
<1>3. QED BY <1>1, <1>2 DEF TypeOK

\* So does its end.
LEMMA TypeReconEnd == ASSUME TypeOK, ReconEnd PROVE TypeOK'
<1>1. JobsTyped' /\ CountsTyped' /\ QueuesTyped'
  BY TypeFrame DEF ReconEnd
<1>2. who \in Agents
  BY DEF ReconEnd, TypeOK, LoopTyped
<1>3. inst' \in [Agents -> [JobIds -> [Phases -> Nat]]]
  BY <1>2 DEF ReconEnd, TypeOK, AgentsTyped, Phases
<1>4. AgentsTyped'
  BY <1>3 DEF ReconEnd, TypeOK, AgentsTyped
<1>5. LoopTyped'
  BY DEF ReconEnd, TypeOK, LoopTyped
<1>6. QED BY <1>1, <1>4, <1>5 DEF TypeOK

\* The end of a disconnect keeps the types.
LEMMA TypeMarkQueueStopped == ASSUME TypeOK, MarkQueueStopped PROVE TypeOK'
<1>1. JobsTyped' /\ CountsTyped'
  BY TypeFrame DEF MarkQueueStopped
<1>2. QueuesTyped'
  BY DEF MarkQueueStopped, TypeOK, QueuesTyped
<1>3. AgentsTyped'
  BY DEF MarkQueueStopped, TypeOK, AgentsTyped
<1>4. LoopTyped'
  BY DEF MarkQueueStopped, TypeOK, LoopTyped
<1>5. QED BY <1>1, <1>2, <1>3, <1>4 DEF TypeOK

\* What an agent does on its own keeps the types.
LEMMA TypeAgentUnheard ==
    ASSUME TypeOK, NEW a \in Agents, NEW j \in JobIds, AgentUnheard(a, j)
    PROVE  TypeOK'
<1>1. JobsTyped' /\ CountsTyped' /\ QueuesTyped' /\ LoopTyped'
  BY TypeFrame DEF AgentUnheard
<1>2. inst' \in [Agents -> [JobIds -> [Phases -> Nat]]]
  BY InstMovesType DEF AgentUnheard, Phases
<1>3. AgentsTyped'
  BY <1>2 DEF AgentUnheard, TypeOK, AgentsTyped
<1>4. QED BY <1>1, <1>3 DEF TypeOK

\* JOB_STARTED keeps the types.
LEMMA TypeAgentJobStart ==
    ASSUME TypeOK, NEW a \in Agents, NEW j \in JobIds, AgentJobStart(a, j)
    PROVE  TypeOK'
<1>1. inst' \in [Agents -> [JobIds -> [Phases -> Nat]]]
  BY InstMovesType DEF AgentJobStart, Phases
<1>2. /\ state' \in [JobIds -> JobStates \cup {NoState}]
      /\ queue' \in [JobIds -> Queues]
      /\ jobStats' \in [JobStates -> Int]
      /\ queueStats' \in [Queues -> [JobStates -> Int]]
      /\ startPending' \in Int
      /\ queueStartPending' \in [Queues -> Int]
      /\ recalc' \in BOOLEAN
  <2>1. CASE j \in table
    BY <2>1, ChangeJobStateType DEF AgentJobStart, JobStates
  <2>2. CASE j \notin table
    BY <2>2 DEF AgentJobStart, TypeOK, JobsTyped, CountsTyped, LoopTyped
  <2>3. QED BY <2>1, <2>2
<1>3. started' \subseteq JobIds /\ dirty' \subseteq JobIds
  BY DEF AgentJobStart, TypeOK, JobsTyped
<1>4. JobsTyped'
  BY <1>2, <1>3 DEF AgentJobStart, TypeOK, JobsTyped
<1>5. CountsTyped'
  BY <1>2 DEF AgentJobStart, TypeOK, CountsTyped
<1>6. QueuesTyped' /\ AgentsTyped'
  BY <1>1 DEF AgentJobStart, TypeOK, QueuesTyped, AgentsTyped
<1>7. LoopTyped'
  BY <1>2 DEF AgentJobStart, TypeOK, LoopTyped
<1>8. QED BY <1>4, <1>5, <1>6, <1>7 DEF TypeOK

\* JOB_COMPLETED keeps the types.
LEMMA TypeAgentJobCompleted ==
    ASSUME TypeOK, NEW a \in Agents, NEW j \in JobIds, NEW ok \in BOOLEAN,
           AgentJobCompleted(a, j, ok)
    PROVE  TypeOK'
<1>1. inst' \in [Agents -> [JobIds -> [Phases -> Nat]]]
  BY InstMovesType DEF AgentJobCompleted, Phases
<1>2. /\ state' \in [JobIds -> JobStates \cup {NoState}]
      /\ queue' \in [JobIds -> Queues]
      /\ jobStats' \in [JobStates -> Int]
      /\ queueStats' \in [Queues -> [JobStates -> Int]]
      /\ startPending' \in Int
      /\ queueStartPending' \in [Queues -> Int]
      /\ recalc' \in BOOLEAN
      /\ inUse' \in [Resources -> Nat]
  <2>1. CASE j \in table
    <3>1. (IF ok THEN "completed" ELSE "exited") \in JobStates
      BY DEF JobStates, Ended
    <3>2. QED BY <2>1, <3>1, ChangeJobStateType, DeallocateResType DEF AgentJobCompleted
  <2>2. CASE j \notin table
    BY <2>2 DEF AgentJobCompleted, TypeOK, JobsTyped, CountsTyped, LoopTyped
  <2>3. QED BY <2>1, <2>2
<1>3. started' \subseteq JobIds /\ dirty' \subseteq JobIds
  BY DEF AgentJobCompleted, TypeOK, JobsTyped
<1>4. JobsTyped'
  BY <1>2, <1>3 DEF AgentJobCompleted, TypeOK, JobsTyped
<1>5. CountsTyped'
  BY <1>2 DEF AgentJobCompleted, TypeOK, CountsTyped
<1>6. QueuesTyped' /\ AgentsTyped'
  BY <1>1 DEF AgentJobCompleted, TypeOK, QueuesTyped, AgentsTyped
<1>7. LoopTyped'
  BY <1>2 DEF AgentJobCompleted, TypeOK, LoopTyped
<1>8. QED BY <1>4, <1>5, <1>6, <1>7 DEF TypeOK

\* An entry of a reconciliation keeps the types.
LEMMA TypeReconItem ==
    ASSUME TypeOK, NEW j \in JobIds, NEW ph \in Phases, NEW ok \in BOOLEAN,
           ReconItem(j, ph, ok)
    PROVE  TypeOK'
<1>1. CASE Die
  BY <1>1, TypeDie
<1>2. CASE ~Die
  <2>1. /\ ph = "finished" =>
              ChangeJobState(j, IF ok THEN "completed" ELSE "exited", NoQueue)
              /\ dirty' = dirty \cup {j}
        /\ ph = "running" => ChangeJobState(j, "running", NoQueue) /\ dirty' = dirty
        /\ ph = "sent" => UNCHANGED <<state, queue, statVars, recalc, dirty>>
        /\ todo' = todo \ {<<j, ph>>}
    BY <1>2 DEF ReconItem
  <2>2. UNCHANGED <<table, deferTime, prio, req, deleted, started, flushing,
                    deferredList, pool, poolSize, idVars, inUse, queueVars,
                    agentVars, saveVars, now, at, cursor, quota, who, alive, inst>>
    BY <1>2 DEF ReconItem
  <2>3. /\ state' \in [JobIds -> JobStates \cup {NoState}]
        /\ queue' \in [JobIds -> Queues]
        /\ jobStats' \in [JobStates -> Int]
        /\ queueStats' \in [Queues -> [JobStates -> Int]]
        /\ startPending' \in Int
        /\ queueStartPending' \in [Queues -> Int]
        /\ recalc' \in BOOLEAN
        /\ dirty' \subseteq JobIds
    <3>1. CASE ph = "finished"
      <4>1. (IF ok THEN "completed" ELSE "exited") \in JobStates
        BY DEF JobStates, Ended
      <4>2. QED BY <2>1, <3>1, <4>1, ChangeJobStateType DEF TypeOK, JobsTyped
    <3>2. CASE ph = "running"
      BY <2>1, <3>2, ChangeJobStateType DEF TypeOK, JobsTyped, JobStates
    <3>3. CASE ph = "sent"
      BY <2>1, <3>3 DEF TypeOK, JobsTyped, CountsTyped, LoopTyped
    <3>4. QED BY <3>1, <3>2, <3>3 DEF Phases
  <2>4. JobsTyped'
    BY <2>2, <2>3 DEF TypeOK, JobsTyped
  <2>5. CountsTyped'
    BY <2>2, <2>3 DEF TypeOK, CountsTyped
  <2>6. QueuesTyped' /\ AgentsTyped'
    BY <2>2, TypeFrame
  <2>7. LoopTyped'
    BY <2>1, <2>2, <2>3 DEF TypeOK, LoopTyped
  <2>8. QED BY <2>4, <2>5, <2>6, <2>7 DEF TypeOK
<1>3. QED BY <1>1, <1>2

\* markJobsUnknown() keeps the types.
LEMMA TypeMarkJobUnknown ==
    ASSUME TypeOK, NEW j \in JobIds, MarkJobUnknown(j)
    PROVE  TypeOK'
<1>1. /\ state' \in [JobIds -> JobStates \cup {NoState}]
      /\ queue' \in [JobIds -> Queues]
      /\ jobStats' \in [JobStates -> Int]
      /\ queueStats' \in [Queues -> [JobStates -> Int]]
      /\ startPending' \in Int
      /\ queueStartPending' \in [Queues -> Int]
      /\ recalc' \in BOOLEAN
  BY ChangeJobStateType DEF MarkJobUnknown, JobStates, Ended
<1>2. JobsTyped'
  BY <1>1 DEF MarkJobUnknown, TypeOK, JobsTyped
<1>3. CountsTyped'
  BY <1>1 DEF MarkJobUnknown, TypeOK, CountsTyped
<1>4. QueuesTyped' /\ AgentsTyped'
  BY DEF MarkJobUnknown, TypeOK, QueuesTyped, AgentsTyped
<1>5. LoopTyped'
  BY <1>1 DEF MarkJobUnknown, TypeOK, LoopTyped
<1>6. QED BY <1>2, <1>3, <1>4, <1>5 DEF TypeOK

\* The start of a save keeps the types.
LEMMA TypeSaveStart == ASSUME TypeOK, SaveStart PROVE TypeOK'
<1>1. CountsTyped' /\ QueuesTyped' /\ AgentsTyped'
  BY TypeFrame DEF SaveStart
<1>2. JobsTyped'
  BY DEF TypeOK, JobsTyped, SaveStart
<1>3. LoopTyped'
  BY DEF TypeOK, LoopTyped, SaveStart
<1>4. QED BY <1>1, <1>2, <1>3 DEF TypeOK

\* So does its end.
LEMMA TypeSaveEnd == ASSUME TypeOK, NEW ok \in BOOLEAN, SaveEnd(ok) PROVE TypeOK'
<1>1. CountsTyped' /\ QueuesTyped' /\ AgentsTyped'
  BY TypeFrame DEF SaveEnd
<1>2. JobsTyped'
  BY DEF TypeOK, JobsTyped, SaveEnd
<1>3. LoopTyped'
  BY DEF TypeOK, LoopTyped, SaveEnd
<1>4. QED BY <1>1, <1>2, <1>3 DEF TypeOK

\* The clock keeps the types.
LEMMA TypeTick == ASSUME TypeOK, Tick PROVE TypeOK'
<1>1. JobsTyped' /\ CountsTyped' /\ QueuesTyped' /\ AgentsTyped'
  BY TypeFrame DEF Tick
<1>2. LoopTyped'
  BY DEF TypeOK, LoopTyped, Tick
<1>3. QED BY <1>1, <1>2 DEF TypeOK

\* command_mod_queue() keeps the types.
LEMMA TypeModQueue ==
    ASSUME TypeOK, NEW q \in Queues, NEW m \in QueueArgs, ModQueue(q, m)
    PROVE  TypeOK'
<1>1. m \in QueueRequest
  BY RequestsAssumption
<1>2. QueuesTyped'
  BY <1>1 DEF TypeOK, QueuesTyped, ModQueue, QueueRequest, Maybe
<1>3. JobsTyped' /\ CountsTyped' /\ AgentsTyped'
  BY DEF TypeOK, JobsTyped, CountsTyped, AgentsTyped, ModQueue
<1>4. LoopTyped'
  BY DEF TypeOK, LoopTyped, ModQueue
<1>5. QED BY <1>2, <1>3, <1>4 DEF TypeOK

\* command_sig_job() keeps the types.
LEMMA TypeSigJob ==
    ASSUME TypeOK, NEW j \in JobIds, SigJob(j)
    PROVE  TypeOK'
<1>1. CASE Die
  BY <1>1, TypeDie
<1>2. CASE ~Die
  <2>1. /\ ChangeJobState(j, "exited", NoQueue) /\ inUse' = DeallocateRes(j)
        /\ dirty' = dirty \cup {j}
        /\ UNCHANGED <<table, deferTime, prio, req, deleted, started, flushing,
                       deferredList, pool, poolSize, idVars, queueVars, agentVars,
                       saveVars, now, loopVars, alive, inst>>
    BY <1>2, Zenon DEF SigJob
  <2>2. /\ state' \in [JobIds -> JobStates \cup {NoState}]
        /\ queue' \in [JobIds -> Queues]
        /\ jobStats' \in [JobStates -> Int]
        /\ queueStats' \in [Queues -> [JobStates -> Int]]
        /\ startPending' \in Int
        /\ queueStartPending' \in [Queues -> Int]
        /\ recalc' \in BOOLEAN
        /\ inUse' \in [Resources -> Nat]
    BY <2>1, ChangeJobStateType, DeallocateResType DEF JobStates, Ended
  <2>3. JobsTyped'
    BY <2>1, <2>2 DEF TypeOK, JobsTyped
  <2>4. CountsTyped'
    BY <2>1, <2>2 DEF TypeOK, CountsTyped
  <2>5. QueuesTyped' /\ AgentsTyped'
    BY <2>1, TypeFrame
  <2>6. LoopTyped'
    BY <2>1, <2>2 DEF TypeOK, LoopTyped
  <2>7. QED BY <2>3, <2>4, <2>5, <2>6 DEF TypeOK
<1>3. QED BY <1>1, <1>2

==============================================================================
