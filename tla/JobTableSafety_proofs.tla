------------------------ MODULE JobTableSafety_proofs ------------------------
(***************************************************************************)
(* The safety invariants of JobTable hold of every server: any number of jobs, *)
(* queues, agents and requests.  None is inductive alone.  Each step lemma names *)
(* the invariants it needs of the state before; the theorems take them together. *)
(***************************************************************************)
EXTENDS JobTable_proofs, JobTableDeferred_proofs

USE DEF jobVars, flagVars, poolVars, statVars, idVars, queueVars, agentVars,
        saveVars, loopVars

(***************************************************************************)
(* The counters.                                                           *)
(***************************************************************************)
\* changeJobState() keeps every counter as close to its jobs as it was.
LEMMA MoveJobCounts ==
    ASSUME TypeOK, CountsSound, NEW j \in JobIds, NEW s \in JobStates \cup {NoState},
           NEW nq \in Queues \cup {NoQueue}, MoveJob(j, s, nq)
    PROVE  CountsSound'
<1> DEFINE q2 == IF nq = NoQueue THEN queue[j] ELSE nq
<1>1. /\ state \in [JobIds -> JobStates \cup {NoState}] /\ queue \in [JobIds -> Queues]
      /\ jobStats \in [JobStates -> Int] /\ queueStats \in [Queues -> [JobStates -> Int]]
      /\ q2 \in Queues
  BY DEF TypeOK, JobsTyped, CountsTyped
<1>2. /\ state' = [state EXCEPT ![j] = s] /\ queue' = [queue EXCEPT ![j] = q2]
      /\ jobStats' = More(Less(jobStats, state[j]), s)
      /\ queueStats' = MoveQueueStats(j, s, q2)
  BY DEF MoveJob
<1> HIDE DEF q2
<1>3. ASSUME NEW x \in JobStates
      PROVE  /\ jobStats'[x] - Cardinality(InState(x)') = jobStats[x] - Cardinality(InState(x))
             /\ Cardinality(InState(x)') \in Nat /\ Cardinality(InState(x)) \in Nat
             /\ jobStats'[x] \in Int /\ jobStats[x] \in Int
  <2>1. /\ jobStats'[x] = jobStats[x] - One(x = state[j]) + One(x = s)
        /\ jobStats[x] \in Int /\ jobStats'[x] \in Int
    BY <1>1, <1>2 DEF More, Less, One
  <2>2. InState(x)' = IF x = s THEN InState(x) \cup {j} ELSE InState(x) \ {j}
    BY <1>1, <1>2 DEF InState
  <2>3. j \in InState(x) <=> x = state[j]
    BY DEF InState
  <2>4. InState(x) \in SUBSET JobIds /\ (x = s) \in BOOLEAN
    BY DEF InState
  <2>5. /\ Cardinality(InState(x)') = Cardinality(InState(x)) - One(j \in InState(x)) + One(x = s)
        /\ Cardinality(InState(x)') \in Nat /\ Cardinality(InState(x)) \in Nat
    BY <2>2, <2>4, CardinalityMoves, Zenon
  <2>6. QED BY <2>1, <2>3, <2>5 DEF One
<1>4. ASSUME NEW q \in Queues, NEW x \in JobStates
      PROVE  /\ queueStats'[q][x] - Cardinality(InStateOn(q, x)')
                   = queueStats[q][x] - Cardinality(InStateOn(q, x))
             /\ Cardinality(InStateOn(q, x)') \in Nat /\ Cardinality(InStateOn(q, x)) \in Nat
             /\ queueStats'[q][x] \in Int /\ queueStats[q][x] \in Int
  <2>1. /\ queueStats'[q][x] = queueStats[q][x] - One(q = queue[j] /\ x = state[j])
                                + One(q = q2 /\ x = s)
        /\ queueStats[q][x] \in Int /\ queueStats'[q][x] \in Int
    <3>1. queueStats[q] \in [JobStates -> Int] /\ queue[j] \in Queues
      BY <1>1
    <3>2. CASE q = queue[j] /\ q = q2
      BY <1>1, <1>2, <3>1, <3>2 DEF MoveQueueStats, More, Less, One
    <3>3. CASE q = queue[j] /\ q # q2
      BY <1>1, <1>2, <3>1, <3>3 DEF MoveQueueStats, More, Less, One
    <3>4. CASE q # queue[j] /\ q = q2
      BY <1>1, <1>2, <3>1, <3>4 DEF MoveQueueStats, More, Less, One
    <3>5. CASE q # queue[j] /\ q # q2
      BY <1>1, <1>2, <3>1, <3>5 DEF MoveQueueStats, More, Less, One
    <3>6. QED BY <3>2, <3>3, <3>4, <3>5
  <2>2. InStateOn(q, x)' = IF q = q2 /\ x = s THEN InStateOn(q, x) \cup {j}
                           ELSE InStateOn(q, x) \ {j}
    BY <1>1, <1>2 DEF InStateOn
  <2>3. j \in InStateOn(q, x) <=> q = queue[j] /\ x = state[j]
    BY DEF InStateOn
  <2>4. InStateOn(q, x) \in SUBSET JobIds /\ (q = q2 /\ x = s) \in BOOLEAN
    BY DEF InStateOn
  <2>5. /\ Cardinality(InStateOn(q, x)') = Cardinality(InStateOn(q, x))
                                - One(j \in InStateOn(q, x)) + One(q = q2 /\ x = s)
        /\ Cardinality(InStateOn(q, x)') \in Nat /\ Cardinality(InStateOn(q, x)) \in Nat
    BY <2>2, <2>4, CardinalityMoves, Zenon
  <2>6. QED BY <2>1, <2>3, <2>5 DEF One
<1>5. Waiting \subseteq JobStates
  BY DEF JobStates
<1>6. ASSUME NEW x \in JobStates
      PROVE  /\ jobStats'[x] >= Cardinality(InState(x)')
             /\ x \in Waiting => jobStats'[x] = Cardinality(InState(x)')
  BY <1>3 DEF CountsSound
<1>7. ASSUME NEW q \in Queues, NEW x \in JobStates
      PROVE  /\ queueStats'[q][x] >= Cardinality(InStateOn(q, x)')
             /\ x \in Waiting => queueStats'[q][x] = Cardinality(InStateOn(q, x)')
  <2>1. /\ queueStats[q][x] >= Cardinality(InStateOn(q, x))
        /\ x \in Waiting => queueStats[q][x] = Cardinality(InStateOn(q, x))
    BY DEF CountsSound
  <2>2. /\ queueStats'[q][x] - Cardinality(InStateOn(q, x)')
              = queueStats[q][x] - Cardinality(InStateOn(q, x))
        /\ Cardinality(InStateOn(q, x)') \in Nat /\ Cardinality(InStateOn(q, x)) \in Nat
        /\ queueStats'[q][x] \in Int /\ queueStats[q][x] \in Int
    BY <1>4
  <2>3. QED BY <2>1, <2>2
<1>8. QED BY <1>5, <1>6, <1>7 DEF CountsSound

\* Freeing jobs changes no counter, and the freed jobs were in none of the
\* exact ones.
LEMMA FreeingCounts ==
    ASSUME TypeOK, FlagsSound, CountsSound, NEW F \in SUBSET deleted, Freeing(F)
    PROVE  CountsSound'
<1>1. /\ state' = Blank(state, F, NoState) /\ queue' = Blank(queue, F, DefaultQueue)
      /\ UNCHANGED <<jobStats, queueStats>>
  BY DEF Freeing, CleanupJob
<1>2. jobStats \in [JobStates -> Int] /\ queueStats \in [Queues -> [JobStates -> Int]]
  BY DEF TypeOK, CountsTyped
<1>3. NoState \notin JobStates /\ Waiting \subseteq JobStates
  BY DEF NoState, JobStates, Waiting, Ended
<1>4. \A x \in Waiting : \A j \in F : state[j] # x
  BY DEF FlagsSound
<1>5. \A S \in SUBSET JobIds :
         /\ Cardinality(S) \in Nat /\ Cardinality(S \ F) \in Nat
         /\ Cardinality(S \ F) <= Cardinality(S)
         /\ S \cap F = {} => Cardinality(S \ F) = Cardinality(S)
  <2>1. TAKE S \in SUBSET JobIds
  <2>2. IsFiniteSet(S) /\ Cardinality(S) \in Nat /\ Cardinality(S \ F) \in Nat
    BY FiniteJobs
  <2>3. Cardinality(S \ F) <= Cardinality(S)
    BY <2>2, FS_Subset
  <2>4. S \cap F = {} => S \ F = S
    OBVIOUS
  <2>5. QED BY <2>2, <2>3, <2>4
<1>6. ASSUME NEW x \in JobStates
      PROVE  /\ jobStats'[x] >= Cardinality(InState(x)')
             /\ x \in Waiting => jobStats'[x] = Cardinality(InState(x)')
  <2>1. InState(x)' = InState(x) \ F /\ InState(x) \in SUBSET JobIds
    BY <1>1, <1>3 DEF InState, Blank
  <2>2. x \in Waiting => InState(x) \cap F = {}
    BY <1>4 DEF InState
  <2>3. /\ jobStats'[x] = jobStats[x] /\ jobStats[x] \in Int
        /\ jobStats[x] >= Cardinality(InState(x))
        /\ x \in Waiting => jobStats[x] = Cardinality(InState(x))
    BY <1>1, <1>2 DEF CountsSound
  <2>4. /\ Cardinality(InState(x)) \in Nat /\ Cardinality(InState(x)') \in Nat
        /\ Cardinality(InState(x)') <= Cardinality(InState(x))
        /\ x \in Waiting => Cardinality(InState(x)') = Cardinality(InState(x))
    BY <1>5, <2>1, <2>2
  <2>5. QED BY <2>3, <2>4
<1>7. ASSUME NEW q \in Queues, NEW x \in JobStates
      PROVE  /\ queueStats'[q][x] >= Cardinality(InStateOn(q, x)')
             /\ x \in Waiting => queueStats'[q][x] = Cardinality(InStateOn(q, x)')
  <2>1. InStateOn(q, x)' = InStateOn(q, x) \ F /\ InStateOn(q, x) \in SUBSET JobIds
    BY <1>1, <1>3 DEF InStateOn, Blank
  <2>2. x \in Waiting => InStateOn(q, x) \cap F = {}
    BY <1>4 DEF InStateOn
  <2>3. /\ queueStats'[q][x] = queueStats[q][x] /\ queueStats[q][x] \in Int
        /\ queueStats[q][x] >= Cardinality(InStateOn(q, x))
        /\ x \in Waiting => queueStats[q][x] = Cardinality(InStateOn(q, x))
    BY <1>1, <1>2 DEF CountsSound
  <2>4. /\ Cardinality(InStateOn(q, x)) \in Nat /\ Cardinality(InStateOn(q, x)') \in Nat
        /\ Cardinality(InStateOn(q, x)') <= Cardinality(InStateOn(q, x))
        /\ x \in Waiting => Cardinality(InStateOn(q, x)') = Cardinality(InStateOn(q, x))
    BY <1>5, <2>1, <2>2
  <2>5. QED BY <2>3, <2>4
<1>8. QED BY <1>3, <1>6, <1>7 DEF CountsSound

\* addJob() counts the new job, whose id was free or has just been freed.
LEMMA AddingCounts ==
    ASSUME TypeOK, FlagsSound, CountsSound, NEW F \in SUBSET deleted, NEW j \in JobIds,
           NEW r \in AddRequest, Adding(j, F, r)
    PROVE  CountsSound'
<1> DEFINE s == IF r.defer # 0 THEN "deferred"
                ELSE IF r.hold THEN "holding" ELSE "pending"
<1>1. /\ jobStats' = [jobStats EXCEPT ![s] = @ + 1]
      /\ queueStats' = [queueStats EXCEPT ![r.queue][s] = @ + 1]
      /\ j \in F \/ j \notin table
  BY DEF Adding, AddToTable
<1>2. /\ jobStats \in [JobStates -> Int] /\ queueStats \in [Queues -> [JobStates -> Int]]
      /\ NoState \notin JobStates /\ Waiting \subseteq JobStates
      /\ s \in JobStates /\ r.queue \in Queues
  BY DEF TypeOK, CountsTyped, NoState, JobStates, Waiting, Ended, AddRequest
<1>3. /\ state'[j] = s /\ queue'[j] = r.queue
      /\ \A k \in JobIds \ {j} : /\ state'[k] = IF k \in F THEN NoState ELSE state[k]
                                 /\ queue'[k] = IF k \in F THEN DefaultQueue ELSE queue[k]
  BY AddingJobs
<1>4. \A x \in Waiting : \A k \in F : state[k] # x
  BY DEF FlagsSound
<1>5. j \in F \/ state[j] = NoState
  BY <1>1 DEF FlagsSound
<1> HIDE DEF s
<1>6. ASSUME NEW x \in JobStates
      PROVE  /\ jobStats'[x] >= Cardinality(InState(x)')
             /\ x \in Waiting => jobStats'[x] = Cardinality(InState(x)')
  <2>1. InState(x)' = IF x = s THEN (InState(x) \ F) \cup {j} ELSE InState(x) \ F
    BY <1>2, <1>3, <1>5 DEF InState
  <2>2. InState(x) \in SUBSET JobIds /\ j \notin InState(x) \ F
        /\ (x \in Waiting => InState(x) \cap F = {})
    BY <1>2, <1>4, <1>5 DEF InState
  <2>3. jobStats'[x] = (IF x = s THEN jobStats[x] + 1 ELSE jobStats[x])
        /\ jobStats[x] \in Int
    BY <1>1, <1>2
  <2>4. /\ jobStats[x] >= Cardinality(InState(x))
        /\ x \in Waiting => jobStats[x] = Cardinality(InState(x))
    BY DEF CountsSound
  <2>5. /\ Cardinality(InState(x)) \in Nat
        /\ Cardinality(InState(x) \ F) \in Nat
        /\ Cardinality(InState(x) \ F) <= Cardinality(InState(x))
        /\ x \in Waiting => Cardinality(InState(x) \ F) = Cardinality(InState(x))
        /\ Cardinality((InState(x) \ F) \cup {j}) = Cardinality(InState(x) \ F) + 1
    BY <2>2, CountFollows, Zenon
  <2>6. CASE x = s
    BY <2>1, <2>3, <2>4, <2>5, <2>6
  <2>7. CASE x # s
    BY <2>1, <2>3, <2>4, <2>5, <2>7
  <2>8. QED BY <2>6, <2>7
<1>7. ASSUME NEW q \in Queues, NEW x \in JobStates
      PROVE  /\ queueStats'[q][x] >= Cardinality(InStateOn(q, x)')
             /\ x \in Waiting => queueStats'[q][x] = Cardinality(InStateOn(q, x)')
  <2>1. InStateOn(q, x)' = IF q = r.queue /\ x = s THEN (InStateOn(q, x) \ F) \cup {j}
                           ELSE InStateOn(q, x) \ F
    BY <1>2, <1>3, <1>5 DEF InStateOn
  <2>2. InStateOn(q, x) \in SUBSET JobIds /\ j \notin InStateOn(q, x) \ F
        /\ (x \in Waiting => InStateOn(q, x) \cap F = {})
    BY <1>2, <1>4, <1>5 DEF InStateOn
  <2>3. queueStats'[q][x] = (IF q = r.queue /\ x = s THEN queueStats[q][x] + 1
                             ELSE queueStats[q][x])
        /\ queueStats[q][x] \in Int
    BY <1>1, <1>2
  <2>4. /\ queueStats[q][x] >= Cardinality(InStateOn(q, x))
        /\ x \in Waiting => queueStats[q][x] = Cardinality(InStateOn(q, x))
    BY DEF CountsSound
  <2>5. /\ Cardinality(InStateOn(q, x)) \in Nat
        /\ Cardinality(InStateOn(q, x) \ F) \in Nat
        /\ Cardinality(InStateOn(q, x) \ F) <= Cardinality(InStateOn(q, x))
        /\ x \in Waiting => Cardinality(InStateOn(q, x) \ F) = Cardinality(InStateOn(q, x))
        /\ Cardinality((InStateOn(q, x) \ F) \cup {j}) = Cardinality(InStateOn(q, x) \ F) + 1
    BY <2>2, CountFollows, Zenon
  <2>6. CASE q = r.queue /\ x = s
    BY <2>1, <2>3, <2>4, <2>5, <2>6
  <2>7. CASE ~(q = r.queue /\ x = s)
    BY <2>1, <2>3, <2>4, <2>5, <2>7
  <2>8. QED BY <2>6, <2>7
<1>8. QED BY <1>2, <1>6, <1>7 DEF CountsSound

\* A step keeps the counters sound.
LEMMA CountsStep ==
    ASSUME TypeOK, FlagsSound, DeferredListSound, CountsSound, StepKind
    PROVE  CountsSound'
<1>0. NoState \in JobStates \cup {NoState} /\ NoQueue \in Queues \cup {NoQueue}
  OBVIOUS
<1>1. CASE Quiet \/ Still \/ SchedStep \/ Saving
  <2>1. UNCHANGED <<state, queue, jobStats, queueStats>>
    <3>1. ASSUME Saving PROVE UNCHANGED <<state, queue, jobStats, queueStats>>
      BY <3>1 DEF Saving, SaveStart, SaveEnd
    <3>2. ASSUME SchedStep PROVE UNCHANGED <<state, queue, jobStats, queueStats>>
      BY <3>2 DEF SchedStep
    <3>3. QED BY <1>1, <3>1, <3>2, QuietEffect DEF Still
  <2>2. QED BY <2>1 DEF CountsSound, InState, InStateOn
<1>2. ASSUME NEW j \in JobIds, NEW s \in JobStates, Moving(j, s) PROVE CountsSound'
  BY <1>0, <1>2, MoveJobCounts DEF Moving
<1>3. ASSUME NEW F \in SUBSET deleted, Freeing(F) PROVE CountsSound'
  BY <1>3, FreeingCounts
<1>4. ASSUME NEW F \in SUBSET deleted, NEW j \in JobIds, NEW r \in AddRequest,
             Adding(j, F, r)
      PROVE  CountsSound'
  BY <1>4, AddingCounts
<1>5. ASSUME NEW j \in JobIds, NEW s \in JobStates \cup {NoState}, NEW m \in ModRequest,
             Modifying(j, s, m)
      PROVE  CountsSound'
  <2>1. MoveJob(j, s, m.queue) /\ m.queue \in Queues \cup {NoQueue}
    BY <1>5, Zenon DEF Modifying, ModRequest
  <2>2. QED BY <2>1, MoveJobCounts
<1>6. ASSUME NEW j \in JobIds, Deleting(j) PROVE CountsSound'
  BY <1>0, <1>6, MoveJobCounts DEF Deleting
<1>7. CASE ReleaseDeferred
  <2>1. Head(deferredList) \in JobIds /\ MoveJob(Head(deferredList), "pending", NoQueue)
    BY <1>7, DeferredHead DEF ReleaseDeferred
  <2>2. "pending" \in JobStates
    BY DEF JobStates, Waiting
  <2>3. QED BY <1>0, <2>1, <2>2, MoveJobCounts
<1>8. QED BY <1>1, <1>2, <1>3, <1>4, <1>5, <1>6, <1>7 DEF StepKind

(***************************************************************************)
(* The candidate pool.                                                     *)
(***************************************************************************)
\* Sorting by __comp() never yields a job twice.
LEMMA SortedDistinct ==
    ASSUME TypeOK, NEW p \in Sorted(Candidates), Cardinality(Candidates) \in Nat,
           NEW x \in 1 .. Cardinality(Candidates), NEW y \in 1 .. Cardinality(Candidates),
           p[x] = p[y]
    PROVE  x = y
<1>1. Candidates \subseteq JobIds
  BY DEF Candidates, TypeOK, JobsTyped
<1>2. p[x] \in JobIds /\ p[y] \in JobIds
  BY <1>1 DEF Sorted
<1>3. \A a \in JobIds : ~Before(a, a)
  <2>1. \A a \in JobIds : qPrio[queue[a]] \in Int /\ prio[a] \in Int
    BY DEF TypeOK, JobsTyped, QueuesTyped
  <2>2. \A a \in JobIds : a \in Int
    BY JobIdsAssumption DEF JobIds
  <2>3. QED BY <2>1, <2>2 DEF Before
<1>4. ~(x < y) /\ ~(y < x)
  BY <1>2, <1>3 DEF Sorted
<1>5. QED BY <1>4

\* The waiting jobs, by the counters, are at least as many as the candidates.
LEMMA CandidatesCounted ==
    ASSUME TypeOK, CountsSound
    PROVE  /\ Cardinality(Candidates) \in Nat
           /\ Cardinality(Candidates) <=
                 jobStats["pending"] + jobStats["deferred"] + jobStats["holding"]
           /\ jobStats["pending"] + jobStats["deferred"] + jobStats["holding"] \in Nat
<1>1. Candidates \in SUBSET InState("pending")
  BY DEF Candidates, InState, TypeOK, JobsTyped
<1>2. \A s \in Waiting : InState(s) \in SUBSET JobIds
  BY DEF InState
<1>3. \A s \in Waiting : /\ jobStats[s] = Cardinality(InState(s))
                         /\ Cardinality(InState(s)) \in Nat /\ IsFiniteSet(InState(s))
  BY <1>2, FiniteJobs DEF CountsSound
<1>4. /\ jobStats["pending"] = Cardinality(InState("pending"))
      /\ IsFiniteSet(InState("pending"))
      /\ jobStats["pending"] \in Nat /\ jobStats["deferred"] \in Nat
      /\ jobStats["holding"] \in Nat
  BY <1>3 DEF Waiting
<1>5. Cardinality(Candidates) \in Nat
  BY <1>1, <1>4, FS_Subset, FS_CardinalityType
<1>6. Cardinality(Candidates) <= Cardinality(InState("pending"))
  BY <1>1, <1>4, FS_Subset
<1>7. QED BY <1>4, <1>5, <1>6

PoolSound == PoolHoldsLiveJobs /\ PoolWithinCapacity

\* A new pool holds each candidate once and fits.
LEMMA GeneratedPoolSound ==
    ASSUME TypeOK, CountsSound, GenerateCandidatePool, UNCHANGED table
    PROVE  PoolSound'
<1> DEFINE total == jobStats["pending"] + jobStats["deferred"] + jobStats["holding"]
<1>1. /\ poolSize' \in Nat
      /\ pool' = << >> \/ (/\ pool' \in Sorted(Candidates)
                          /\ Len(pool') = Cardinality(Candidates)
                          /\ pool' \in Seq(Candidates))
  BY NewPool
<1>2. CASE pool' = << >>
  <2>1. Len(pool') = 0
    BY <1>2
  <2>2. QED BY <1>1, <2>1 DEF PoolSound, PoolHoldsLiveJobs, PoolWithinCapacity
<1>3. CASE /\ pool' \in Sorted(Candidates) /\ Len(pool') = Cardinality(Candidates)
           /\ pool' \in Seq(Candidates)
  <2>1. /\ Cardinality(Candidates) \in Nat /\ Cardinality(Candidates) <= total
        /\ total \in Nat
    BY CandidatesCounted
  <2>2. poolSize' = PoolRoom(total) /\ poolSize \in Nat
    BY DEF GenerateCandidatePool, TypeOK, LoopTyped
  <2> HIDE DEF total
  <2>3. total <= poolSize'
    BY <2>1, <2>2 DEF PoolRoom
  <2>4. PoolWithinCapacity'
    BY <1>1, <1>3, <2>1, <2>3 DEF PoolWithinCapacity
  <2>5. \A i \in 1 .. Len(pool') : pool'[i] \in table'
    BY <1>3, ElementOfSeq DEF Candidates
  <2>6. \A i, k \in 1 .. Len(pool') : pool'[i] = pool'[k] => i = k
    BY <1>3, <2>1, SortedDistinct
  <2>7. QED BY <2>4, <2>5, <2>6 DEF PoolSound, PoolHoldsLiveJobs
<1>4. QED BY <1>1, <1>2, <1>3

\* Freed jobs leave gaps, not stale entries.
LEMMA PoolWithoutSound ==
    ASSUME TypeOK, PoolSound, NEW F, pool' = PoolWithout(F), poolSize' = poolSize,
           table \ F \subseteq table'
    PROVE  PoolSound'
<1>1. Len(pool') = Len(pool)
  BY PoolWithoutType DEF TypeOK
<1>2. PoolWithinCapacity'
  BY <1>1 DEF PoolSound, PoolWithinCapacity
<1>3. \A i \in 1 .. Len(pool) : pool'[i] = IF pool[i] \in F THEN NoJob ELSE pool[i]
  BY DEF PoolWithout
<1>4. PoolHoldsLiveJobs'
  BY <1>1, <1>3 DEF PoolSound, PoolHoldsLiveJobs
<1>5. QED BY <1>2, <1>4 DEF PoolSound

\* A step keeps the pool on jobs in memory, without duplicates, and within the
\* array.
LEMMA PoolStep ==
    ASSUME TypeOK, FlagsSound, CountsSound, PoolSound, [Next]_vars, StepKind
    PROVE  PoolSound'
<1>1. CASE UNCHANGED <<pool, poolSize>> /\ table \subseteq table'
  BY <1>1 DEF PoolSound, PoolHoldsLiveJobs, PoolWithinCapacity
<1>2. CASE Quiet
  <2>1. CASE CheckJobs
    <3>1. UNCHANGED table
      BY <2>1 DEF CheckJobs
    <3>2. CASE recalc
      BY <2>1, <3>1, <3>2, GeneratedPoolSound DEF CheckJobs
    <3>3. CASE ~recalc
      BY <1>1, <2>1, <3>1, <3>3 DEF CheckJobs
    <3>4. QED BY <3>2, <3>3
  <2>2. CASE ~CheckJobs
    BY <1>1, <1>2, <2>2, QuietEffect, QuietPool
  <2>3. QED BY <2>1, <2>2
<1>3. CASE Still \/ ReleaseDeferred \/ SchedStep \/ Saving
  <2>1. ASSUME Saving PROVE UNCHANGED <<table, pool, poolSize>>
    BY <2>1 DEF Saving, SaveStart, SaveEnd
  <2>2. ASSUME ReleaseDeferred \/ SchedStep PROVE UNCHANGED <<table, pool, poolSize>>
    BY <2>2 DEF ReleaseDeferred, SchedStep
  <2>3. QED BY <1>1, <1>3, <2>1, <2>2 DEF Still
<1>4. ASSUME NEW j \in JobIds, NEW s \in JobStates, Moving(j, s) PROVE PoolSound'
  BY <1>1, <1>4 DEF Moving
<1>5. ASSUME NEW F \in SUBSET deleted, Freeing(F) PROVE PoolSound'
  BY <1>5, PoolWithoutSound DEF Freeing, CleanupJob
<1>6. ASSUME NEW F \in SUBSET deleted, NEW j \in JobIds, NEW r \in AddRequest,
             Adding(j, F, r)
      PROVE  PoolSound'
  BY <1>6, AddingEffect, PoolWithoutSound
<1>7. ASSUME NEW j \in JobIds, NEW s \in JobStates \cup {NoState}, NEW m \in ModRequest,
             Modifying(j, s, m)
      PROVE  PoolSound'
  BY <1>1, <1>7 DEF Modifying
<1>8. ASSUME NEW j \in JobIds, Deleting(j) PROVE PoolSound'
  BY <1>1, <1>8, Zenon DEF Deleting
<1>9. QED BY <1>2, <1>3, <1>4, <1>5, <1>6, <1>7, <1>8 DEF StepKind

(***************************************************************************)
(* All together.                                                           *)
(***************************************************************************)
IInv ==
    /\ TypeOK /\ FlagsSound /\ SavedJobsProtected /\ DeletedJobsCounted
    /\ DeferredListSound /\ CountsSound /\ PoolSound

\* The invariants hold when jersd starts without jobs.
LEMMA InitInv == Init => IInv
<1> SUFFICES ASSUME Init PROVE IInv
  OBVIOUS
<1>1. TypeOK
  BY InitType
<1>2. FlagsSound /\ SavedJobsProtected
  BY DEF Init, FlagsSound, SavedJobsProtected
<1>3. DeletedJobsCounted
  BY FS_EmptySet DEF Init, DeletedJobsCounted
<1>4. DeferredListSound /\ PoolSound
  BY DEF Init, DeferredListSound, PoolSound, PoolHoldsLiveJobs, PoolWithinCapacity
<1>5. CountsSound
  <2>1. NoState \notin JobStates /\ Waiting \subseteq JobStates
    BY DEF NoState, JobStates, Waiting, Ended
  <2>2. \A s \in JobStates : InState(s) = {} /\ \A q \in Queues : InStateOn(q, s) = {}
    BY <2>1 DEF Init, InState, InStateOn
  <2>3. \A s \in JobStates : jobStats[s] = 0 /\ \A q \in Queues : queueStats[q][s] = 0
    BY DEF Init
  <2>4. Cardinality({}) = 0
    BY FS_EmptySet
  <2>5. \A s \in JobStates :
           /\ Cardinality(InState(s)) = 0
           /\ \A q \in Queues : Cardinality(InStateOn(q, s)) = 0
    BY <2>2, <2>4
  <2>6. QED BY <2>1, <2>3, <2>5 DEF CountsSound
<1>6. QED BY <1>1, <1>2, <1>3, <1>4, <1>5 DEF IInv

\* Together the invariants are inductive.
LEMMA InvStep == IInv /\ [Next]_vars => IInv'
<1> SUFFICES ASSUME IInv, [Next]_vars PROVE IInv'
  OBVIOUS
<1> USE DEF IInv
<1>1. TypeOK'
  BY TypeStep
<1>2. StepKind
  BY StepKinds
<1>3. FlagsSound' /\ SavedJobsProtected' /\ DeletedJobsCounted'
  BY <1>2, FlagsStep, SavedStep, DeletedStep
<1>4. DeferredListSound' /\ CountsSound'
  BY <1>1, <1>2, DeferredStep, CountsStep
<1>5. PoolSound'
  BY <1>2, PoolStep
<1>6. QED BY <1>1, <1>3, <1>4, <1>5

\* They hold in every state.
LEMMA Invariant == Spec => []IInv
BY InitInv, InvStep, PTL DEF Spec

\* Flags, states and counters belong to jobs in memory, and a deleted job does
\* not wait again, whatever agents, saves and releases bring late.
THEOREM FlagsAlwaysSound == Spec => []FlagsSound
<1>1. IInv => FlagsSound
  BY DEF IInv
<1>2. QED BY <1>1, Invariant, PTL

\* The background save's jobs stay in memory until it has been reaped.
THEOREM SavedJobsSafe == Spec => []SavedJobsProtected
<1>1. IInv => SavedJobsProtected
  BY DEF IInv
<1>2. QED BY <1>1, Invariant, PTL

\* cleanupJobs() never gives up while a deleted job is left.
THEOREM DeletedJobsSafe == Spec => []DeletedJobsCounted
<1>1. IInv => DeletedJobsCounted
  BY DEF IInv
<1>2. QED BY <1>1, Invariant, PTL

\* releaseDeferred() may stop at the first job that is not due: the list is in
\* order, and has each job once and only jobs in memory.
THEOREM DeferredListSafe == Spec => []DeferredListSound
<1>1. IInv => DeferredListSound
  BY DEF IInv
<1>2. QED BY <1>1, Invariant, PTL

\* The counters of waiting jobs are exact and no counter misses a job.
THEOREM CountsSafe == Spec => []CountsSound
<1>1. IInv => CountsSound
  BY DEF IInv
<1>2. QED BY <1>1, Invariant, PTL

\* generateCandidatePool() never writes past its array, which it sizes from
\* the counters.
THEOREM PoolFits == Spec => []PoolWithinCapacity
<1>1. IInv => PoolWithinCapacity
  BY DEF IInv, PoolSound
<1>2. QED BY <1>1, Invariant, PTL

\* checkJobs() never follows a pointer to a freed job, and meets no job twice.
THEOREM PoolLive == Spec => []PoolHoldsLiveJobs
<1>1. IInv => PoolHoldsLiveJobs
  BY DEF IInv, PoolSound
<1>2. QED BY <1>1, Invariant, PTL

==============================================================================
