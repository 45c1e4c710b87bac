------------------------ MODULE JobTableFacts_proofs -------------------------
(***************************************************************************)
(* Facts about numbers, sets and sequences, and about the operators of     *)
(* JobTable that work on them.                                             *)
(***************************************************************************)
EXTENDS JobTable, FiniteSetTheorems, SequenceTheorems, WellFoundedInduction, TLAPS

USE DEF jobVars, flagVars, poolVars, statVars, idVars, queueVars, agentVars,
        saveVars, loopVars

(***************************************************************************)
(* Numbers and sets.                                                       *)
(***************************************************************************)
\* Every set of natural numbers that is not empty has a least member.
LEMMA LeastNat ==
    ASSUME NEW T \in SUBSET Nat, T # {}
    PROVE  \E x \in T : \A y \in T : x <= y
<1> DEFINE U == {1 .. n : n \in T}
<1>1. \A n \in T : 1 .. n \in FiniteSubsetsOf(Nat)
  BY FS_Interval DEF FiniteSubsetsOf
<1>2. U \subseteq FiniteSubsetsOf(Nat) /\ U # {}
  BY <1>1
<1>3. PICK X \in U : \A Y \in U : ~(<<Y, X>> \in StrictSubsetOrdering(Nat))
  BY <1>2, WFMin, FS_StrictSubsetOrderingWellFounded, Zenon
<1>4. PICK x \in T : X = 1 .. x
  OBVIOUS
<1>5. ASSUME NEW y \in T, y < x PROVE FALSE
  <2>1. 1 .. y \in U
    OBVIOUS
  <2>2. 1 .. y \subseteq 1 .. x /\ 1 .. y # 1 .. x
    <3>1. x \in 1 .. x /\ x \notin 1 .. y
      BY <1>5
    <3>2. QED BY <3>1, <1>5
  <2>3. <<1 .. y, 1 .. x>> \in StrictSubsetOrdering(Nat)
    BY <2>2 DEF StrictSubsetOrdering
  <2>4. QED BY <2>1, <2>3, <1>3, <1>4
<1>6. QED BY <1>5

\* All sets of jobs are finite.
LEMMA FiniteJobs ==
    ASSUME NEW S \in SUBSET JobIds
    PROVE  IsFiniteSet(S) /\ Cardinality(S) \in Nat
<1>1. IsFiniteSet(JobIds)
  BY FS_Interval, JobIdsAssumption DEF JobIds
<1>2. QED BY <1>1, FS_Subset, FS_CardinalityType

\* The first free id after start_jobid is free.
LEMMA NextJobIDFree ==
    ASSUME NEW free \in SUBSET JobIds, free # {}, startJobId \in 0 .. MaxJobId
    PROVE  NextJobID(free) \in free
<1> DEFINE d(i) == (i - startJobId - 1) % MaxJobId
           T == {d(i) : i \in free}
<1>1. \A i \in free : d(i) \in Nat
  BY JobIdsAssumption DEF JobIds
<1>2. PICK x \in T : \A y \in T : x <= y
  <2>1. T \in SUBSET Nat /\ T # {}
    BY <1>1
  <2>2. QED BY <2>1, LeastNat
<1>3. PICK i \in free : x = d(i)
  OBVIOUS
<1>4. \A k \in free : d(i) <= d(k)
  BY <1>2, <1>3
<1>5. QED BY <1>3, <1>4 DEF NextJobID

\* Taking a subset away takes its size away.
LEMMA CardinalityWithout ==
    ASSUME NEW S \in SUBSET JobIds, NEW F \in SUBSET S
    PROVE  /\ Cardinality(S \ F) = Cardinality(S) - Cardinality(F)
           /\ Cardinality(S \ F) \in Nat /\ Cardinality(S) \in Nat /\ Cardinality(F) \in Nat
<1>1. IsFiniteSet(S) /\ Cardinality(S) \in Nat /\ Cardinality(F) \in Nat
      /\ Cardinality(S \ F) \in Nat
  BY FiniteJobs
<1>2. S \cap F = F
  OBVIOUS
<1>3. Cardinality(S \ F) = Cardinality(S) - Cardinality(S \cap F)
  BY <1>1, FS_Difference
<1>4. QED BY <1>1, <1>2, <1>3

\* One set of counters follows one job: from the set its state and queue put
\* it in to the one they put it in next.
LEMMA CardinalityMoves ==
    ASSUME NEW S \in SUBSET JobIds, NEW j \in JobIds, NEW to \in BOOLEAN
    PROVE  LET T == IF to THEN S \cup {j} ELSE S \ {j}
           IN  /\ Cardinality(T) = Cardinality(S) - One(j \in S) + One(to)
               /\ Cardinality(T) \in Nat /\ Cardinality(S) \in Nat
<1>1. IsFiniteSet(S) /\ Cardinality(S) \in Nat
  BY FiniteJobs
<1>2. CASE to
  <2>1. Cardinality(S \cup {j}) = IF j \in S THEN Cardinality(S) ELSE Cardinality(S) + 1
    BY <1>1, FS_AddElement
  <2>2. QED BY <1>1, <1>2, <2>1 DEF One
<1>3. CASE ~to
  <2>1. Cardinality(S \ {j}) = IF j \in S THEN Cardinality(S) - 1 ELSE Cardinality(S)
    BY <1>1, FS_RemoveElement
  <2>2. Cardinality(S \ {j}) \in Nat
    BY FiniteJobs
  <2>3. QED BY <1>1, <1>3, <2>1, <2>2 DEF One
<1>4. QED BY <1>2, <1>3

\* A set of jobs that loses some of its members and perhaps gains one.
LEMMA CountFollows ==
    ASSUME NEW S \in SUBSET JobIds, NEW F, NEW j \in JobIds, j \notin S \ F
    PROVE  /\ Cardinality(S) \in Nat
           /\ Cardinality(S \ F) \in Nat
           /\ Cardinality(S \ F) <= Cardinality(S)
           /\ S \cap F = {} => Cardinality(S \ F) = Cardinality(S)
           /\ Cardinality((S \ F) \cup {j}) = Cardinality(S \ F) + 1
<1>1. IsFiniteSet(S) /\ Cardinality(S) \in Nat
      /\ IsFiniteSet(S \ F) /\ Cardinality(S \ F) \in Nat
  BY FiniteJobs
<1>2. Cardinality(S \ F) <= Cardinality(S)
  BY <1>1, FS_Subset
<1>3. S \cap F = {} => S \ F = S
  OBVIOUS
<1>4. Cardinality((S \ F) \cup {j}) = Cardinality(S \ F) + 1
  BY <1>1, FS_AddElement
<1>5. QED BY <1>1, <1>2, <1>3, <1>4

(***************************************************************************)
(* Sequences and the candidate pool.                                       *)
(***************************************************************************)
\* A function on 1 .. n is a sequence of length n.
LEMMA FunctionIsSeq ==
    ASSUME NEW S, NEW n \in Nat, NEW f \in [1 .. n -> S]
    PROVE  f \in Seq(S) /\ Len(f) = n
<1>1. f \in Seq(S)
  BY SeqDef
<1>2. QED BY <1>1, LenProperties

\* Gaps in the pool leave it a pool of the same length.
LEMMA PoolWithoutType ==
    ASSUME LoopTyped, NEW F
    PROVE  /\ PoolWithout(F) \in Seq(JobIds \cup {NoJob})
           /\ Len(PoolWithout(F)) = Len(pool)
<1>1. Len(pool) \in Nat /\ pool \in [1 .. Len(pool) -> JobIds \cup {NoJob}]
  BY LenProperties DEF LoopTyped
<1>2. PoolWithout(F) \in [1 .. Len(pool) -> JobIds \cup {NoJob}]
  BY <1>1 DEF PoolWithout
<1>3. QED BY <1>1, <1>2, FunctionIsSeq

\* A new candidate pool is a sequence of jobs, one for each candidate.
LEMMA NewPool ==
    ASSUME TypeOK, GenerateCandidatePool
    PROVE  /\ poolSize' \in Nat
           /\ pool' \in Seq(JobIds \cup {NoJob})
           /\ pool' = << >> \/ (/\ pool' \in Sorted(Candidates)
                               /\ Len(pool') = Cardinality(Candidates)
                               /\ pool' \in Seq(Candidates))
<1>1. poolSize' \in Nat
  BY DEF TypeOK, LoopTyped, CountsTyped, JobStates, Waiting, GenerateCandidatePool, PoolRoom
<1>2. CASE pool' = << >>
  BY <1>1, <1>2
<1>3. CASE pool' \in Sorted(Candidates)
  <2>1. Cardinality(Candidates) \in Nat /\ Candidates \subseteq JobIds
    BY FiniteJobs DEF Candidates, TypeOK, JobsTyped
  <2>2. pool' \in [1 .. Cardinality(Candidates) -> Candidates]
    BY <1>3 DEF Sorted
  <2>3. pool' \in Seq(Candidates) /\ Len(pool') = Cardinality(Candidates)
    BY <2>1, <2>2, FunctionIsSeq
  <2>4. pool' \in Seq(JobIds \cup {NoJob})
    BY <2>1, <2>3, SeqMonotonic
  <2>5. QED BY <1>1, <1>3, <2>3, <2>4
<1>4. QED BY <1>2, <1>3 DEF GenerateCandidatePool

\* The jobs a cleanup frees are deleted jobs, not dirty and not being saved.
LEMMA CleanupFrees ==
    ASSUME NEW max, NEW D \in CleanupVisits(max)
    PROVE  /\ D \subseteq deleted
           /\ Cleanable(D) \subseteq deleted
           /\ Cleanable(D) \cap (dirty \cup flushing) = {}
BY DEF CleanupVisits, Cleanable

(***************************************************************************)
(* What addDeferredJob() and removeDeferredJob() do to the list.           *)
(***************************************************************************)
\* The place addDeferredJob() looks for exists.
LEMMA LowerBoundPlace ==
    ASSUME JobsTyped, NEW list \in Seq(JobIds), NEW t \in Nat
    PROVE  /\ LowerBound(list, t) \in 1 .. Len(list) + 1
           /\ \A k \in 1 .. LowerBound(list, t) - 1 : deferTime[list[k]] < t
           /\ LowerBound(list, t) <= Len(list) =>
                 deferTime[list[LowerBound(list, t)]] >= t
<1> DEFINE T == {i \in 1 .. Len(list) + 1 : i <= Len(list) => deferTime[list[i]] >= t}
<1>1. Len(list) \in Nat
  BY LenProperties
<1>2. T \in SUBSET Nat /\ Len(list) + 1 \in T
  BY <1>1
<1>3. PICK x \in T : \A y \in T : x <= y
  BY <1>2, LeastNat
<1>4. x \in 1 .. Len(list) + 1 /\ (x <= Len(list) => deferTime[list[x]] >= t)
  OBVIOUS
<1>5. ASSUME NEW k \in 1 .. x - 1 PROVE deferTime[list[k]] < t
  <2>1. k \in 1 .. Len(list) /\ k \notin T
    BY <1>1, <1>3, <1>4
  <2>2. deferTime[list[k]] \in Nat
    BY <2>1, ElementOfSeq DEF JobsTyped
  <2>3. QED BY <1>1, <2>1, <2>2
<1>6. QED BY <1>4, <1>5 DEF LowerBound

\* addDeferredJob() puts the job in one place and moves no other.
LEMMA AddDeferredPlace ==
    ASSUME JobsTyped, NEW list \in Seq(JobIds), NEW j \in JobIds, NEW t \in Nat
    PROVE  /\ AddDeferredJob(list, j, t) \in Seq(JobIds)
           /\ Len(AddDeferredJob(list, j, t)) = Len(list) + 1
           /\ \A k \in 1 .. Len(list) + 1 : AddDeferredJob(list, j, t)[k] =
                 IF k < LowerBound(list, t) THEN list[k]
                 ELSE IF k = LowerBound(list, t) THEN j ELSE list[k - 1]
<1> DEFINE i == LowerBound(list, t)
           left == SubSeq(list, 1, i - 1)
           right == SubSeq(list, i, Len(list))
<1>1. Len(list) \in Nat /\ i \in 1 .. Len(list) + 1
  BY LenProperties, LowerBoundPlace
<1> HIDE DEF i
<1>2. /\ left \in Seq(JobIds) /\ Len(left) = i - 1
      /\ \A k \in 1 .. i - 1 : left[k] = list[k]
  <2>1. \A k \in 1 .. i - 1 : list[k] \in JobIds
    BY <1>1, ElementOfSeq
  <2>2. QED BY <1>1, <2>1, SubSeqProperties
<1>3. /\ right \in Seq(JobIds) /\ Len(right) = Len(list) - i + 1
      /\ \A k \in 1 .. Len(list) - i + 1 : right[k] = list[i + k - 1]
  <2>1. \A k \in i .. Len(list) : list[k] \in JobIds
    BY <1>1, ElementOfSeq
  <2>2. QED BY <1>1, <2>1, SubSeqProperties
<1> HIDE DEF left, right
<1>4. <<j>> \in Seq(JobIds) /\ Len(<<j>>) = 1 /\ <<j>>[1] = j
  OBVIOUS
<1>5. /\ left \o <<j>> \in Seq(JobIds) /\ Len(left \o <<j>>) = i
      /\ \A k \in 1 .. i : (left \o <<j>>)[k] = IF k < i THEN list[k] ELSE j
  <2>1. /\ left \o <<j>> \in Seq(JobIds) /\ Len(left \o <<j>>) = (i - 1) + 1
        /\ \A k \in 1 .. (i - 1) + 1 : (left \o <<j>>)[k] =
              IF k <= i - 1 THEN left[k] ELSE <<j>>[k - (i - 1)]
    BY <1>2, <1>4, ConcatProperties
  <2>2. QED BY <1>1, <1>2, <1>4, <2>1
<1> DEFINE lj == left \o <<j>>
           new == lj \o right
<1> HIDE DEF lj
<1>6. /\ new \in Seq(JobIds) /\ Len(new) = i + (Len(list) - i + 1)
      /\ \A k \in 1 .. i + (Len(list) - i + 1) : new[k] =
            IF k <= i THEN lj[k] ELSE right[k - i]
  <2>1. lj \in Seq(JobIds) /\ Len(lj) = i /\ right \in Seq(JobIds)
    BY <1>3, <1>5 DEF lj
  <2>2. /\ new \in Seq(JobIds) /\ Len(new) = Len(lj) + Len(right)
        /\ \A k \in 1 .. Len(lj) + Len(right) : new[k] =
              IF k <= Len(lj) THEN lj[k] ELSE right[k - Len(lj)]
    BY <2>1, ConcatProperties
  <2>3. QED BY <1>3, <2>1, <2>2
<1> HIDE DEF new
<1>7. ASSUME NEW k \in 1 .. Len(list) + 1
      PROVE  new[k] = IF k < i THEN list[k] ELSE IF k = i THEN j ELSE list[k - 1]
  <2>1. CASE k <= i
    BY <1>1, <1>5, <1>6, <2>1 DEF lj
  <2>2. CASE k > i
    <3>1. k - i \in 1 .. Len(list) - i + 1 /\ i + (k - i) - 1 = k - 1
      BY <1>1, <2>2
    <3>2. right[k - i] = list[k - 1]
      BY <1>3, <3>1
    <3>3. k \in 1 .. i + (Len(list) - i + 1)
      BY <1>1
    <3>4. new[k] = right[k - i]
      BY <1>1, <1>6, <2>2, <3>3
    <3>5. QED BY <1>1, <2>2, <3>2, <3>4
  <2>3. QED BY <1>1, <2>1, <2>2
<1>8. AddDeferredJob(list, j, t) = new
  BY DEF AddDeferredJob, new, lj, left, right, i
<1>9. QED BY <1>1, <1>6, <1>7, <1>8 DEF i

\* removeDeferredJob() takes one entry out and keeps the others in order.
LEMMA RemoveDeferredPlace ==
    ASSUME NEW list \in Seq(JobIds), NEW j \in JobIds,
           \E n \in 1 .. Len(list) : list[n] = j
    PROVE  \E i \in 1 .. Len(list) :
             /\ list[i] = j
             /\ RemoveDeferredJob(list, j) \in Seq(JobIds)
             /\ Len(RemoveDeferredJob(list, j)) = Len(list) - 1
             /\ \A k \in 1 .. Len(list) - 1 : RemoveDeferredJob(list, j)[k] =
                   IF k < i THEN list[k] ELSE list[k + 1]
<1> DEFINE i == CHOOSE n \in 1 .. Len(list) : list[n] = j
           left == SubSeq(list, 1, i - 1)
           right == SubSeq(list, i + 1, Len(list))
<1>1. Len(list) \in Nat /\ i \in 1 .. Len(list) /\ list[i] = j
  BY LenProperties
<1> HIDE DEF i
<1>2. /\ left \in Seq(JobIds) /\ Len(left) = i - 1
      /\ \A k \in 1 .. i - 1 : left[k] = list[k]
  <2>1. \A k \in 1 .. i - 1 : list[k] \in JobIds
    BY <1>1, ElementOfSeq
  <2>2. QED BY <1>1, <2>1, SubSeqProperties
<1>3. /\ right \in Seq(JobIds) /\ Len(right) = Len(list) - i
      /\ \A k \in 1 .. Len(list) - i : right[k] = list[i + k]
  <2>1. \A k \in i + 1 .. Len(list) : list[k] \in JobIds
    BY <1>1, ElementOfSeq
  <2>2. /\ right \in Seq(JobIds)
        /\ Len(right) = IF i + 1 <= Len(list) THEN Len(list) - (i + 1) + 1 ELSE 0
        /\ \A k \in 1 .. Len(list) - (i + 1) + 1 : right[k] = list[(i + 1) + k - 1]
    BY <1>1, <2>1, SubSeqProperties
  <2>3. \A k \in Int : (i + 1) + k - 1 = i + k
    BY <1>1
  <2>4. QED BY <1>1, <2>2, <2>3
<1> DEFINE new == left \o right
<1> HIDE DEF left, right
<1>4. /\ new \in Seq(JobIds) /\ Len(new) = (i - 1) + (Len(list) - i)
      /\ \A k \in 1 .. (i - 1) + (Len(list) - i) : new[k] =
            IF k <= i - 1 THEN left[k] ELSE right[k - (i - 1)]
  BY <1>2, <1>3, ConcatProperties
<1> HIDE DEF new
<1>5. ASSUME NEW k \in 1 .. Len(list) - 1
      PROVE  new[k] = IF k < i THEN list[k] ELSE list[k + 1]
  <2>0. k \in 1 .. (i - 1) + (Len(list) - i)
    BY <1>1
  <2>1. CASE k < i
    <3>1. new[k] = left[k] /\ k \in 1 .. i - 1
      BY <1>1, <1>4, <2>0, <2>1
    <3>2. QED BY <1>2, <2>1, <3>1
  <2>2. CASE k >= i
    <3>1. k - (i - 1) \in 1 .. Len(list) - i /\ i + (k - (i - 1)) = k + 1
      BY <1>1, <2>2
    <3>2. right[k - (i - 1)] = list[k + 1]
      BY <1>3, <3>1
    <3>3. new[k] = right[k - (i - 1)]
      BY <1>1, <1>4, <2>0, <2>2
    <3>4. QED BY <1>1, <2>2, <3>2, <3>3
  <2>3. QED BY <1>1, <2>1, <2>2
<1>6. RemoveDeferredJob(list, j) = new
  BY DEF RemoveDeferredJob, new, left, right, i
<1>7. QED BY <1>1, <1>4, <1>5, <1>6

==============================================================================
