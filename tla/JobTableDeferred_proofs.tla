----------------------- MODULE JobTableDeferred_proofs -----------------------
(***************************************************************************)
(* Every step keeps the list of deferred jobs in order, without duplicates and *)
(* on jobs in memory.                                                      *)
(***************************************************************************)
EXTENDS JobTableSteps_proofs

USE DEF jobVars, flagVars, poolVars, statVars, idVars, queueVars, agentVars,
        saveVars, loopVars

(***************************************************************************)
(* What its two operations keep.                                           *)
(***************************************************************************)
ListSound(list, time, live) ==
    /\ \A i, k \in 1 .. Len(list) :
          i < k => time[list[i]] <= time[list[k]] /\ list[i] # list[k]
    /\ \A i \in 1 .. Len(list) : list[i] \in live /\ time[list[i]] # 0

\* Changes to jobs that are not in the list do not matter.
LEMMA ListSame ==
    ASSUME NEW list, NEW time, NEW time2, NEW live, NEW live2,
           ListSound(list, time, live),
           \A i \in 1 .. Len(list) : list[i] \in live2 /\ time2[list[i]] = time[list[i]]
    PROVE  ListSound(list, time2, live2)
BY DEF ListSound

\* removeDeferredJob() leaves a sound list without the job.
LEMMA ListRemove ==
    ASSUME NEW list \in Seq(JobIds), NEW time, NEW live, ListSound(list, time, live),
           NEW j \in JobIds, \E n \in 1 .. Len(list) : list[n] = j
    PROVE  /\ RemoveDeferredJob(list, j) \in Seq(JobIds)
           /\ ListSound(RemoveDeferredJob(list, j), time, live \ {j})
<1> DEFINE new == RemoveDeferredJob(list, j)
<1>1. PICK i \in 1 .. Len(list) :
         /\ list[i] = j /\ new \in Seq(JobIds) /\ Len(new) = Len(list) - 1
         /\ \A k \in 1 .. Len(list) - 1 : new[k] = IF k < i THEN list[k] ELSE list[k + 1]
  BY RemoveDeferredPlace
<1>2. Len(list) \in Nat
  BY LenProperties
<1> HIDE DEF new
<1> DEFINE old(k) == IF k < i THEN k ELSE k + 1
<1>3. \A k \in 1 .. Len(new) :
         new[k] = list[old(k)] /\ old(k) \in 1 .. Len(list) /\ old(k) # i
  BY <1>1, <1>2
<1>4. \A k, l \in 1 .. Len(new) : k < l => old(k) < old(l)
  BY <1>1, <1>2
<1> HIDE DEF old
<1>5. ASSUME NEW k \in 1 .. Len(new), NEW l \in 1 .. Len(new), k < l
      PROVE  time[new[k]] <= time[new[l]] /\ new[k] # new[l]
  <2>1. /\ old(k) \in 1 .. Len(list) /\ old(l) \in 1 .. Len(list) /\ old(k) < old(l)
        /\ new[k] = list[old(k)] /\ new[l] = list[old(l)]
    BY <1>3, <1>4, <1>5
  <2>2. time[list[old(k)]] <= time[list[old(l)]] /\ list[old(k)] # list[old(l)]
    BY <2>1 DEF ListSound
  <2>3. QED BY <2>1, <2>2
<1>6. ASSUME NEW k \in 1 .. Len(new)
      PROVE  new[k] \in live \ {j} /\ time[new[k]] # 0
  <2>1. old(k) \in 1 .. Len(list) /\ old(k) # i /\ new[k] = list[old(k)]
    BY <1>3
  <2>2. old(k) < i \/ i < old(k)
    BY <1>2, <2>1
  <2>3. list[old(k)] # list[i]
    BY <2>1, <2>2 DEF ListSound
  <2>4. QED BY <1>1, <2>1, <2>3 DEF ListSound
<1>7. ListSound(new, time, live \ {j})
  BY <1>5, <1>6 DEF ListSound
<1>8. QED BY <1>1, <1>7 DEF new

\* addDeferredJob() of a job that is not in the list leaves it sound.
LEMMA ListAdd ==
    ASSUME JobsTyped, NEW list \in Seq(JobIds), NEW live,
           ListSound(list, deferTime, live),
           NEW j \in JobIds, \A n \in 1 .. Len(list) : list[n] # j,
           NEW t \in Nat \ {0}, NEW time, time[j] = t,
           \A n \in 1 .. Len(list) : time[list[n]] = deferTime[list[n]]
    PROVE  ListSound(AddDeferredJob(list, j, t), time, live \cup {j})
<1> DEFINE new == AddDeferredJob(list, j, t)
           i == LowerBound(list, t)
           n == Len(list)
<1>1. /\ new \in Seq(JobIds) /\ Len(new) = n + 1
      /\ \A k \in 1 .. n + 1 :
            new[k] = IF k < i THEN list[k] ELSE IF k = i THEN j ELSE list[k - 1]
  <2>1. t \in Nat
    OBVIOUS
  <2>2. new \in Seq(JobIds) /\ Len(new) = n + 1
    BY <2>1, AddDeferredPlace
  <2>3. \A k \in 1 .. n + 1 :
           new[k] = IF k < i THEN list[k] ELSE IF k = i THEN j ELSE list[k - 1]
    BY <2>1, AddDeferredPlace
  <2>4. QED BY <2>2, <2>3
<1>2. /\ n \in Nat /\ i \in 1 .. n + 1
      /\ \A k \in 1 .. i - 1 : deferTime[list[k]] < t
      /\ i <= n => deferTime[list[i]] >= t
  BY LowerBoundPlace, LenProperties
<1> HIDE DEF new, i
<1>3. \A k \in 1 .. n : list[k] \in JobIds /\ deferTime[list[k]] \in Nat
  BY ElementOfSeq DEF JobsTyped
<1> HIDE DEF n
<1> DEFINE D(k) == deferTime[list[k]]
<1>4. \A k, l \in 1 .. n : k < l => D(k) <= D(l) /\ list[k] # list[l]
  BY DEF ListSound, n
<1>5. \A k \in 1 .. n : list[k] \in live /\ D(k) # 0 /\ time[list[k]] = D(k) /\ list[k] # j
  BY DEF ListSound, n
<1>6. \A k \in 1 .. n : /\ k < i => D(k) < t
                        /\ k >= i => D(k) >= t
  <2>1. ASSUME NEW k \in 1 .. n, k >= i PROVE D(k) >= t
    <3>1. i \in 1 .. n /\ D(i) >= t
      BY <1>2, <2>1
    <3>2. k = i \/ D(i) <= D(k)
      BY <1>2, <1>4, <2>1, <3>1
    <3>3. D(i) \in Nat /\ D(k) \in Nat
      BY <1>3, <3>1
    <3>4. QED BY <3>1, <3>2, <3>3
  <2>2. QED BY <1>2, <2>1
<1> HIDE DEF D
<1>7. ASSUME NEW k \in 1 .. n + 1
      PROVE  /\ k < i => k \in 1 .. n /\ new[k] = list[k] /\ time[new[k]] = D(k)
             /\ k = i => new[k] = j /\ time[new[k]] = t
             /\ k > i => k - 1 \in 1 .. n /\ k - 1 >= i /\ new[k] = list[k - 1]
                         /\ time[new[k]] = D(k - 1)
  BY <1>1, <1>2, <1>5
<1>8. ASSUME NEW k \in 1 .. n + 1, NEW l \in 1 .. n + 1, k < l
      PROVE  time[new[k]] <= time[new[l]] /\ new[k] # new[l]
  <2>0. \A x \in 1 .. n : D(x) \in Nat
    BY <1>3 DEF D
  <2>1. CASE l < i
    BY <1>2, <1>4, <1>7, <1>8, <2>1
  <2>2. CASE l = i
    BY <1>2, <1>5, <1>6, <1>7, <1>8, <2>0, <2>2
  <2>3. CASE l > i /\ k < i
    <3>1. k \in 1 .. n /\ l - 1 \in 1 .. n /\ k < l - 1 /\ new[k] = list[k]
          /\ new[l] = list[l - 1] /\ time[new[k]] = D(k) /\ time[new[l]] = D(l - 1)
      BY <1>2, <1>7, <2>3
    <3>2. QED BY <1>4, <3>1
  <2>4. CASE l > i /\ k = i
    <3>1. l - 1 \in 1 .. n /\ l - 1 >= i /\ new[l] = list[l - 1] /\ time[new[l]] = D(l - 1)
          /\ new[k] = j /\ time[new[k]] = t
      BY <1>2, <1>7, <2>4
    <3>2. D(l - 1) >= t /\ D(l - 1) \in Nat /\ list[l - 1] # j
      BY <1>5, <1>6, <2>0, <3>1
    <3>3. QED BY <3>1, <3>2
  <2>5. CASE k > i
    <3>1. k - 1 \in 1 .. n /\ l - 1 \in 1 .. n /\ k - 1 < l - 1 /\ new[k] = list[k - 1]
          /\ new[l] = list[l - 1] /\ time[new[k]] = D(k - 1) /\ time[new[l]] = D(l - 1)
      BY <1>2, <1>7, <1>8, <2>5
    <3>2. QED BY <1>4, <3>1
  <2>6. QED BY <1>2, <1>8, <2>1, <2>2, <2>3, <2>4, <2>5
<1>9. ASSUME NEW k \in 1 .. n + 1
      PROVE  new[k] \in live \cup {j} /\ time[new[k]] # 0
  <2>1. CASE k < i
    BY <1>5, <1>7, <2>1
  <2>2. CASE k = i
    BY <1>7, <2>2
  <2>3. CASE k > i
    BY <1>5, <1>7, <2>3
  <2>4. QED BY <1>2, <2>1, <2>2, <2>3
<1>10. ListSound(new, time, live \cup {j})
  BY <1>1, <1>8, <1>9 DEF ListSound
<1>11. QED BY <1>10 DEF new

(***************************************************************************)
(* Every kind of step.                                                     *)
(***************************************************************************)
DeferredSound == ListSound(deferredList, deferTime, table \ deleted)

\* What a sound deferred list has in it.
LEMMA DeferredMembers ==
    ASSUME TypeOK, DeferredSound
    PROVE  /\ deferredList \in Seq(JobIds) /\ JobsTyped
           /\ \A i \in 1 .. Len(deferredList) :
                 /\ deferredList[i] \in JobIds
                 /\ deferredList[i] \in table \ deleted
                 /\ deferTime[deferredList[i]] # 0
<1>1. deferredList \in Seq(JobIds) /\ JobsTyped
  BY DEF TypeOK, LoopTyped
<1>2. \A i \in 1 .. Len(deferredList) : deferredList[i] \in JobIds
  BY <1>1, ElementOfSeq
<1>3. QED BY <1>1, <1>2 DEF DeferredSound, ListSound

\* It is enough that the list stays and its members keep their times.
LEMMA DeferredKept ==
    ASSUME DeferredSound, deferredList' = deferredList,
           \A i \in 1 .. Len(deferredList) :
              /\ deferredList[i] \in table' \ deleted'
              /\ deferTime'[deferredList[i]] = deferTime[deferredList[i]]
    PROVE  DeferredSound'
<1>1. ListSound(deferredList, deferTime', table' \ deleted')
  BY ListSame DEF DeferredSound
<1>2. QED BY <1>1 DEF DeferredSound

\* The jobs cleanupJob() frees are not in the list.
LEMMA DeferredFreeing ==
    ASSUME TypeOK, DeferredSound, NEW F \in SUBSET deleted, Freeing(F)
    PROVE  DeferredSound'
<1>1. /\ deferredList' = deferredList /\ table' = table \ F
      /\ deleted' = deleted \ F /\ deferTime' = Blank(deferTime, F, 0)
  BY DEF Freeing, CleanupJob
<1>2. \A i \in 1 .. Len(deferredList) : /\ deferredList[i] \in JobIds
                                        /\ deferredList[i] \in table \ deleted
  BY DeferredMembers
<1>3. \A i \in 1 .. Len(deferredList) :
         /\ deferredList[i] \in table' \ deleted'
         /\ deferTime'[deferredList[i]] = deferTime[deferredList[i]]
  BY <1>1, <1>2 DEF Blank
<1>4. QED BY <1>1, <1>3, DeferredKept

\* A new job is in the list when it has a defer time, at its place.
LEMMA DeferredAdding ==
    ASSUME TypeOK, FlagsSound, DeferredSound, NEW F \in SUBSET deleted,
           NEW j \in JobIds, NEW r \in AddRequest, Adding(j, F, r)
    PROVE  DeferredSound'
<1>1. /\ table' = (table \ F) \cup {j} /\ deleted' = deleted \ F
      /\ deferredList' = IF r.defer # 0 THEN AddDeferredJob(deferredList, j, r.defer)
                         ELSE deferredList
      /\ j \in F \/ j \notin table
  BY AddingEffect
<1>2. \A i \in 1 .. Len(deferredList) :
         /\ deferredList[i] \in JobIds \ {j} /\ deferredList[i] \notin F
         /\ deferredList[i] \in (table \ deleted) \ {j}
         /\ deferredList[i] \in table' \ deleted'
  BY <1>1, DeferredMembers
<1>3. /\ deferTime'[j] = r.defer
      /\ \A k \in JobIds \ {j} : deferTime'[k] = IF k \in F THEN 0 ELSE deferTime[k]
  BY AddingJobs
<1>4. \A i \in 1 .. Len(deferredList) :
         deferTime'[deferredList[i]] = deferTime[deferredList[i]]
  BY <1>2, <1>3
<1>5. CASE r.defer = 0
  BY <1>1, <1>2, <1>4, <1>5, DeferredKept
<1>6. CASE r.defer # 0
  <2>1. r.defer \in Nat \ {0}
    BY <1>6 DEF AddRequest
  <2>2. ListSound(deferredList, deferTime, (table \ deleted) \ {j})
    BY <1>2, ListSame DEF DeferredSound
  <2>3. deferredList \in Seq(JobIds) /\ JobsTyped
    BY DeferredMembers
  <2>4. ListSound(AddDeferredJob(deferredList, j, r.defer), deferTime',
                  ((table \ deleted) \ {j}) \cup {j})
    BY <1>2, <1>3, <1>4, <2>1, <2>2, <2>3, ListAdd
  <2>5. ((table \ deleted) \ {j}) \cup {j} = table' \ deleted'
    BY <1>1 DEF FlagsSound
  <2>6. QED BY <1>1, <1>6, <2>4, <2>5 DEF DeferredSound
<1>7. QED BY <1>5, <1>6

\* command_mod_job() takes the job out and puts it back at its new place.
LEMMA DeferredModifying ==
    ASSUME TypeOK, DeferredSound, NEW j \in JobIds, NEW s, NEW m \in ModRequest,
           Modifying(j, s, m)
    PROVE  DeferredSound'
<1> DEFINE unlinked == IF deferTime[j] # 0
                       THEN RemoveDeferredJob(deferredList, j) ELSE deferredList
           live == table \ deleted
<1>1. /\ UNCHANGED <<table, deleted>> /\ j \in live
      /\ deferTime' = [deferTime EXCEPT ![j] = IF m.defer = Unset THEN @ ELSE m.defer]
      /\ m.defer = Unset => deferredList' = deferredList
      /\ m.defer # Unset =>
            /\ deferTime[j] # 0 => InDeferredList(j)
            /\ deferredList' = IF m.defer = 0 THEN unlinked
                               ELSE AddDeferredJob(unlinked, j, m.defer)
  BY DEF Modifying
<1>2. /\ deferredList \in Seq(JobIds) /\ JobsTyped /\ deferTime \in [JobIds -> Nat]
      /\ \A i \in 1 .. Len(deferredList) :
            /\ deferredList[i] \in JobIds /\ deferredList[i] \in live
            /\ deferTime[deferredList[i]] # 0
  BY DeferredMembers DEF JobsTyped
<1>3. CASE m.defer = Unset
  BY <1>1, <1>2, <1>3, DeferredKept
<1>4. CASE m.defer # Unset
  <2>1. unlinked \in Seq(JobIds) /\ ListSound(unlinked, deferTime, live \ {j})
    <3>1. CASE deferTime[j] # 0
      <4>1. \E i \in 1 .. Len(deferredList) : deferredList[i] = j
        BY <1>1, <1>2, <1>4, <3>1, LenProperties DEF InDeferredList
      <4>2. /\ RemoveDeferredJob(deferredList, j) \in Seq(JobIds)
            /\ ListSound(RemoveDeferredJob(deferredList, j), deferTime, live \ {j})
        BY <1>2, <4>1, ListRemove, Zenon DEF DeferredSound
      <4>3. QED BY <3>1, <4>2
    <3>2. CASE deferTime[j] = 0
      <4>1. \A i \in 1 .. Len(deferredList) : deferredList[i] \in live \ {j}
        BY <1>2, <3>2
      <4>2. ListSound(deferredList, deferTime, live \ {j})
        BY <4>1, ListSame DEF DeferredSound
      <4>3. QED BY <1>2, <3>2, <4>2
    <3>3. QED BY <3>1, <3>2
  <2>2. deferredList' = IF m.defer = 0 THEN unlinked
                        ELSE AddDeferredJob(unlinked, j, m.defer)
    BY <1>1, <1>4
  <2> HIDE DEF unlinked, live
  <2>3. \A i \in 1 .. Len(unlinked) :
           unlinked[i] # j /\ unlinked[i] \in JobIds /\ unlinked[i] \in live
    BY <2>1, ElementOfSeq DEF ListSound
  <2>4. /\ deferTime'[j] = m.defer
        /\ \A i \in 1 .. Len(unlinked) : deferTime'[unlinked[i]] = deferTime[unlinked[i]]
    BY <1>1, <1>2, <1>4, <2>3
  <2>5. live = table' \ deleted' /\ (live \ {j}) \cup {j} = live
    BY <1>1 DEF live
  <2>6. CASE m.defer = 0
    <3>1. ListSound(unlinked, deferTime', live)
      BY <2>1, <2>3, <2>4, ListSame
    <3>2. QED BY <2>2, <2>5, <2>6, <3>1 DEF DeferredSound
  <2>7. CASE m.defer # 0
    <3>1. m.defer \in Nat \ {0}
      BY <1>4, <2>7 DEF ModRequest, Maybe
    <3>2. ListSound(AddDeferredJob(unlinked, j, m.defer), deferTime', (live \ {j}) \cup {j})
      BY <1>2, <2>1, <2>3, <2>4, <3>1, ListAdd, Zenon
    <3>3. QED BY <2>2, <2>5, <2>7, <3>2 DEF DeferredSound
  <2>8. QED BY <2>6, <2>7
<1>5. QED BY <1>3, <1>4

\* deleteJob() takes the job out.
LEMMA DeferredDeleting ==
    ASSUME TypeOK, DeferredSound, NEW j \in JobIds, Deleting(j)
    PROVE  DeferredSound'
<1>1. /\ table' = table /\ deleted' = deleted \cup {j} /\ deferTime' = deferTime
      /\ deferTime[j] # 0 => InDeferredList(j)
      /\ deferredList' = IF deferTime[j] # 0
                         THEN RemoveDeferredJob(deferredList, j) ELSE deferredList
  BY DEF Deleting
<1>2. /\ deferredList \in Seq(JobIds)
      /\ \A i \in 1 .. Len(deferredList) : /\ deferredList[i] \in table \ deleted
                                           /\ deferTime[deferredList[i]] # 0
  BY DeferredMembers
<1>3. table' \ deleted' = (table \ deleted) \ {j}
  BY <1>1
<1>4. CASE deferTime[j] # 0
  <2>1. \E i \in 1 .. Len(deferredList) : deferredList[i] = j
    BY <1>1, <1>2, <1>4, LenProperties DEF InDeferredList
  <2>2. ListSound(RemoveDeferredJob(deferredList, j), deferTime, (table \ deleted) \ {j})
    BY <1>2, <2>1, ListRemove DEF DeferredSound
  <2>3. QED BY <1>1, <1>3, <1>4, <2>2 DEF DeferredSound
<1>5. CASE deferTime[j] = 0
  <2>1. \A i \in 1 .. Len(deferredList) : deferredList[i] \in table' \ deleted'
    BY <1>2, <1>3, <1>5
  <2>2. QED BY <1>1, <1>5, <2>1, DeferredKept
<1>6. QED BY <1>4, <1>5

\* releaseDeferred() takes the head off.
LEMMA DeferredReleasing ==
    ASSUME TypeOK, DeferredSound, ReleaseDeferred
    PROVE  DeferredSound'
<1> DEFINE h == Head(deferredList)
           tail == Tail(deferredList)
           n == Len(deferredList)
<1>1. /\ UNCHANGED <<table, deleted>> /\ deferredList' = tail
      /\ deferTime' = [deferTime EXCEPT ![h] = 0] /\ deferredList # << >>
  BY DEF ReleaseDeferred, Due
<1>2. /\ deferredList \in Seq(JobIds) /\ deferTime \in [JobIds -> Nat]
      /\ \A i \in 1 .. n : deferredList[i] \in JobIds
  BY DeferredMembers DEF JobsTyped
<1>3. /\ tail \in Seq(JobIds) /\ Len(tail) = n - 1
      /\ \A i \in 1 .. Len(tail) : tail[i] = deferredList[i + 1]
      /\ n \in Nat \ {0} /\ h = deferredList[1]
  BY <1>1, <1>2, HeadTailProperties, EmptySeq
<1>4. /\ \A i, k \in 1 .. n : i < k =>
            /\ deferTime[deferredList[i]] <= deferTime[deferredList[k]]
            /\ deferredList[i] # deferredList[k]
      /\ \A i \in 1 .. n : /\ deferredList[i] \in table \ deleted
                           /\ deferTime[deferredList[i]] # 0
  BY DEF DeferredSound, ListSound
<1> HIDE DEF tail, h, n
<1>5. \A i \in 1 .. Len(tail) : /\ i + 1 \in 1 .. n
                                /\ tail[i] = deferredList[i + 1]
                                /\ 1 \in 1 .. n /\ 1 < i + 1
  BY <1>3
<1>6. \A i \in 1 .. Len(tail) : tail[i] # h /\ tail[i] \in JobIds
  BY <1>2, <1>3, <1>4, <1>5
<1>7. \A i \in 1 .. Len(tail) : deferTime'[tail[i]] = deferTime[deferredList[i + 1]]
  BY <1>1, <1>2, <1>5, <1>6
<1>8. ASSUME NEW i \in 1 .. Len(tail), NEW k \in 1 .. Len(tail), i < k
      PROVE  deferTime'[tail[i]] <= deferTime'[tail[k]] /\ tail[i] # tail[k]
  <2>1. i + 1 \in 1 .. n /\ k + 1 \in 1 .. n /\ i + 1 < k + 1
    BY <1>5, <1>8
  <2>2. /\ deferTime[deferredList[i + 1]] <= deferTime[deferredList[k + 1]]
        /\ deferredList[i + 1] # deferredList[k + 1]
    BY <1>4, <2>1
  <2>3. QED BY <1>5, <1>7, <2>2
<1>9. ASSUME NEW i \in 1 .. Len(tail)
      PROVE  tail[i] \in table \ deleted /\ deferTime'[tail[i]] # 0
  BY <1>4, <1>5, <1>7
<1>10. ListSound(tail, deferTime', table \ deleted)
  BY <1>8, <1>9 DEF ListSound
<1>11. QED BY <1>1, <1>10 DEF DeferredSound

\* A step keeps the deferred list in order, without duplicates and on jobs in
\* memory.
LEMMA DeferredStep ==
    ASSUME TypeOK, FlagsSound, DeferredListSound, StepKind
    PROVE  DeferredListSound'
<1>1. /\ DeferredListSound <=> (alive => DeferredSound)
      /\ DeferredListSound' <=> (alive' => DeferredSound')
  BY DEF DeferredListSound, DeferredSound, ListSound
<1> SUFFICES ASSUME alive' PROVE DeferredSound'
  BY <1>1
<1>2. ASSUME alive, UNCHANGED <<table, deleted, deferTime, deferredList>>
      PROVE  DeferredSound'
  BY <1>1, <1>2 DEF DeferredSound
<1>3. CASE Quiet \/ Still
  BY <1>2, <1>3, QuietEffect, Zenon DEF Still
<1>4. CASE SchedStep
  BY <1>2, <1>4 DEF SchedStep
<1>5. CASE Saving
  <2>1. ASSUME SaveStart PROVE DeferredSound'
    BY <1>2, <2>1 DEF SaveStart, Idle
  <2>2. ASSUME NEW ok \in BOOLEAN, SaveEnd(ok) PROVE DeferredSound'
    BY <1>2, <2>2 DEF SaveEnd, Idle
  <2>3. QED BY <1>5, <2>1, <2>2 DEF Saving
<1>6. ASSUME NEW j \in JobIds, NEW s \in JobStates, Moving(j, s) PROVE DeferredSound'
  <2>1. /\ alive /\ deferredList' = deferredList /\ deferTime' = deferTime
        /\ table' = table /\ deleted' \subseteq deleted
    BY <1>6 DEF Moving
  <2>2. DeferredSound
    BY <1>1, <2>1
  <2>3. \A i \in 1 .. Len(deferredList) : deferredList[i] \in table' \ deleted'
    BY <2>1, <2>2, DeferredMembers
  <2>4. QED BY <2>1, <2>2, <2>3, DeferredKept
<1>7. ASSUME NEW F \in SUBSET deleted, Freeing(F) PROVE DeferredSound'
  <2>1. alive
    BY <1>7 DEF Freeing
  <2>2. QED BY <1>1, <1>7, <2>1, DeferredFreeing
<1>8. ASSUME NEW F \in SUBSET deleted, NEW j \in JobIds, NEW r \in AddRequest,
             Adding(j, F, r)
      PROVE  DeferredSound'
  <2>1. alive
    BY <1>8, AddingEffect, Zenon
  <2>2. QED BY <1>1, <1>8, <2>1, DeferredAdding
<1>9. ASSUME NEW j \in JobIds, NEW s \in JobStates \cup {NoState}, NEW m \in ModRequest,
             Modifying(j, s, m)
      PROVE  DeferredSound'
  <2>1. alive
    BY <1>9 DEF Modifying
  <2>2. QED BY <1>1, <1>9, <2>1, DeferredModifying
<1>10. ASSUME NEW j \in JobIds, Deleting(j) PROVE DeferredSound'
  <2>1. alive
    BY <1>10, Zenon DEF Deleting
  <2>2. QED BY <1>1, <1>10, <2>1, DeferredDeleting
<1>11. CASE ReleaseDeferred
  <2>1. alive
    BY <1>11 DEF ReleaseDeferred
  <2>2. QED BY <1>1, <1>11, <2>1, DeferredReleasing
<1>12. QED BY <1>3, <1>4, <1>5, <1>6, <1>7, <1>8, <1>9, <1>10, <1>11 DEF StepKind

==============================================================================
