------------------------------ MODULE Registry ------------------------------
(***************************************************************************)
(* Queues and resources: their commands (command_queue.c,                   *)
(* command_resource.c, queue.c, resource.c), the jobs that point to them,   *)
(* the clean-up of deleted ones (event.c), and how they are saved, loaded   *)
(* and replayed (state.c).                                                  *)
(*                                                                          *)
(* A queue or resource has one attribute, `val'.  Queue names are numbers:  *)
(* the files are loaded in the order of the names.  A job points to the     *)
(* structures in memory: when one is freed, what the job points to is       *)
(* Freed.  The journal is as in module Journal, reduced to the commands of  *)
(* queues and resources; saves do not fail here.  A crash is explored while *)
(* there are no jobs: their own replay is module Journal's.                 *)
(***************************************************************************)
EXTENDS Naturals, Sequences, FiniteSets

CONSTANTS
  Queues,           \* names of queues, numbers
  Resources,        \* names of resources
  Jobs,             \* jobs
  Commands,         \* the commands in use
  None,             \* no such object, no such pointer
  Freed,            \* a pointer to memory that was freed
  MaxRecords,       \* bound: records in the journal
  MaxCrashes        \* bound: crashes of jersd

VARIABLES
  mode,             \* "up", "replay" or "dead": jersd ended in error_die
  obj,              \* obj[o]: the queue or resource o in memory, or None
  defaultQueue,     \* server.defaultQueue: None, a queue or Freed
  job,              \* job[j]: the job in memory, or None
  file,             \* file[o]: its state file, or None
  jobfile,          \* jobfile[j]: the queue and resource the job's file names, or None
  journal, mark,    \* the journal and the place of the last '*'
  save,             \* the background save, None when there is none
  cursor,           \* place of the replay
  wanted,           \* what the objects were when jersd crashed
  crashes

disk == <<file, jobfile, journal, mark>>
vars == <<mode, obj, defaultQueue, job, file, jobfile, journal, mark, save, cursor, wanted, crashes>>

Objects == Queues \cup Resources
Vals == {1, 2}
Live(o) == obj[o] # None /\ ~obj[o].deleted

(* What clients see: the live objects with their attribute, and the default.  *)
View == [objects |-> [o \in {x \in Objects : Live(x)} |-> obj[o].val],
         default |-> defaultQueue]

Init ==
  /\ mode = "up"
  /\ obj = [o \in Objects |-> None] /\ file = [o \in Objects |-> None]
  /\ defaultQueue = None
  /\ job = [j \in Jobs |-> None] /\ jobfile = [j \in Jobs |-> None]
  /\ journal = <<>> /\ mark = 0 /\ cursor = 0
  /\ save = None
  /\ wanted = View
  /\ crashes = 0

-----------------------------------------------------------------------------
(* What a command does to the objects.                                       *)

New(v) == [val |-> v, rev |-> 1, deleted |-> FALSE, dirty |-> TRUE, flushing |-> FALSE]

(* addQueue on a new or, when the name was deleted, a zeroed structure;       *)
(* addRes on a new one or on the deleted one.                                 *)
Added(o, v) ==
  IF o \in Resources /\ obj[o] # None
  THEN [obj[o] EXCEPT !.val = v, !.rev = @ + 1, !.deleted = FALSE, !.dirty = TRUE]
  ELSE New(v)

Modified(o, v) == [obj[o] EXCEPT !.val = v, !.rev = @ + 1, !.dirty = TRUE]

-----------------------------------------------------------------------------
(* Commands of clients, journalled when they succeed.                        *)

Log(cmd, o, v, rev) ==
  /\ mode = "up" /\ cmd \in Commands /\ Len(journal) < MaxRecords
  /\ journal' = Append(journal, [cmd |-> cmd, o |-> o, val |-> v, rev |-> rev])
  /\ UNCHANGED <<mode, file, jobfile, mark, save, cursor, wanted, crashes>>

Add(o, v) ==
  /\ ~Live(o)
  /\ obj' = [obj EXCEPT ![o] = Added(o, v)]
  /\ Log("add", o, v, Added(o, v).rev)
  /\ UNCHANGED <<job, defaultQueue>>

AddQueue(q, v) == Add(q, v)
AddResource(r, v) == Add(r, v)

(* command_add_queue with a host that is not known: the structure of a        *)
(* deleted queue was already taken out of the table and is freed.             *)
AddRefused(q) ==
  /\ "refused" \in Commands /\ mode = "up"
  /\ obj[q] # None /\ obj[q].deleted
  /\ obj' = [obj EXCEPT ![q] = None]
  /\ job' = [j \in Jobs |-> IF job[j] # None /\ job[j].queue = q
                            THEN [job[j] EXCEPT !.queue = Freed] ELSE job[j]]
  /\ defaultQueue' = IF defaultQueue = q THEN Freed ELSE defaultQueue
  /\ UNCHANGED <<mode, file, jobfile, journal, mark, save, cursor, wanted, crashes>>

Mod(o, v) ==
  /\ obj' = [obj EXCEPT ![o] = Modified(o, v)]
  /\ Log("mod", o, v, obj[o].rev + 1)
  /\ UNCHANGED <<job, defaultQueue>>

(* A deleted queue can be modified, a deleted resource cannot.                *)
ModQueue(q, v) == obj[q] # None /\ Mod(q, v)
ModResource(r, v) == Live(r) /\ Mod(r, v)

(* command_mod_queue with default_queue: setDefaultQueue.                     *)
SetDefault(q) ==
  /\ obj[q] # None
  /\ obj' = [obj EXCEPT ![q] = Modified(q, @.val)]
  /\ defaultQueue' = q
  /\ Log("default", q, obj[q].val, obj[q].rev + 1)
  /\ UNCHANGED job

InUseMut(o) == \E j \in Jobs : job[j] # None /\ job[j].queue = o /\ ~job[j].deleted

(* A job that is not deleted points to the object.                            *)
InUse(o) == \E j \in Jobs : job[j] # None /\ o \in {job[j].queue, job[j].res} /\ ~job[j].deleted

(* command_del_queue and command_del_resource set a flag and nothing else.    *)
Del(o) ==
  /\ Live(o) /\ ~InUse(o)
  /\ obj' = [obj EXCEPT ![o].deleted = TRUE]
  /\ Log("del", o, 0, 0)
  /\ UNCHANGED <<job, defaultQueue>>

DelQueue(q) == Del(q)
DelResource(r) == Del(r)

-----------------------------------------------------------------------------
(* Jobs, as far as they point to queues and resources.                       *)

(* The job is given what is deleted already: a default queue is taken as it   *)
(* is, MOD_JOB looks a queue up and a resource is only looked up.             *)
Late(q, r) == q = Freed \/ ~Live(q) \/ (r # None /\ ~Live(r))

KnownResources == {None} \cup {r \in Resources : obj[r] # None}

(* command_add_job: a named queue must be live.                               *)
AddJob(j) ==
  /\ mode = "up" /\ job[j] = None /\ "job" \in Commands
  /\ \E q \in ({defaultQueue} \ {None}) \cup {x \in Queues : Live(x)}, r \in KnownResources :
       job' = [job EXCEPT ![j] = [queue |-> q, res |-> r, late |-> Late(q, r), deleted |-> FALSE,
                                  dirty |-> TRUE, flushing |-> FALSE]]
  /\ UNCHANGED <<mode, obj, defaultQueue, file, jobfile, journal, mark, save, cursor, wanted, crashes>>

(* command_mod_job with a queue and resources.                                *)
ModJob(j) ==
  /\ mode = "up" /\ job[j] # None /\ ~job[j].deleted /\ "movejob" \in Commands
  /\ \E q \in {x \in Queues : obj[x] # None}, r \in KnownResources :
       job' = [job EXCEPT ![j].queue = q, ![j].res = r, ![j].late = @ \/ Late(q, r),
                          ![j].dirty = TRUE]
  /\ UNCHANGED <<mode, obj, defaultQueue, file, jobfile, journal, mark, save, cursor, wanted, crashes>>

(* command_del_job, and deleteJob of autoCleanup: the job stays in memory.    *)
DelJob(j) ==
  /\ mode = "up" /\ job[j] # None /\ ~job[j].deleted
  /\ job' = [job EXCEPT ![j].deleted = TRUE]
  /\ UNCHANGED <<mode, obj, defaultQueue, file, jobfile, journal, mark, save, cursor, wanted, crashes>>

-----------------------------------------------------------------------------
(* cleanupEvent: cleanupJobs, cleanupQueues and cleanupResources remove the  *)
(* files and free the structures; max_clean is more than there is to clean.  *)

CleanableMut(x) == x # None /\ x.deleted /\ ~x.dirty

(* Deleted, and neither to be saved nor being saved.                          *)
Cleanable(x) == x # None /\ x.deleted /\ ~x.dirty /\ ~x.flushing

CleanupQueues == {q \in Queues : Cleanable(obj[q])}
CleanupResources == {r \in Resources : Cleanable(obj[r])}

CleanupEvent ==
  LET jobs == {j \in Jobs : Cleanable(job[j])}
      gone == CleanupQueues \cup CleanupResources
      Points(p) == IF p \in gone THEN Freed ELSE p
  IN /\ mode = "up" /\ jobs \cup gone # {}
     /\ job' = [j \in Jobs |-> IF job[j] = None \/ j \in jobs THEN None
                               ELSE [job[j] EXCEPT !.queue = Points(@), !.res = Points(@)]]
     /\ jobfile' = [j \in Jobs |-> IF j \in jobs THEN None ELSE jobfile[j]]
     /\ obj' = [o \in Objects |-> IF o \in gone THEN None ELSE obj[o]]
     /\ file' = [o \in Objects |-> IF o \in gone THEN None ELSE file[o]]
     /\ defaultQueue' = Points(defaultQueue)
     /\ UNCHANGED <<mode, journal, mark, save, cursor, wanted, crashes>>

-----------------------------------------------------------------------------
(* stateSaveToDisk and stateSaveToDiskChild.                                 *)

DirtyObjects == {o \in Objects : obj[o] # None /\ obj[o].dirty}
DirtyJobs == {j \in Jobs : job[j] # None /\ job[j].dirty}
Flushing(x) == [x EXCEPT !.dirty = FALSE, !.flushing = TRUE]

(* What stateSaveQueue, stateSaveResource and stateSaveJob write: a queue's   *)
(* file says whether it is the default queue.                                 *)
QueueFile(q) == [val |-> obj[q].val, rev |-> obj[q].rev, default |-> defaultQueue = q]
ResourceFile(r) == [val |-> obj[r].val, rev |-> obj[r].rev, default |-> FALSE]
JobFile(j) == [queue |-> job[j].queue, res |-> job[j].res]

(* The lists of dirty objects are made and the child is forked with memory as *)
(* it is.                                                                     *)
SaveStart ==
  /\ mode = "up" /\ save = None /\ DirtyObjects \cup DirtyJobs # {}
  /\ save' = [todo |-> DirtyObjects \cup DirtyJobs, commit |-> Len(journal),
              objects |-> [o \in DirtyObjects |->
                            IF o \in Queues THEN QueueFile(o) ELSE ResourceFile(o)],
              jobs |-> [j \in DirtyJobs |-> JobFile(j)]]
  /\ obj' = [o \in Objects |-> IF o \in DirtyObjects THEN Flushing(obj[o]) ELSE obj[o]]
  /\ job' = [j \in Jobs |-> IF j \in DirtyJobs THEN Flushing(job[j]) ELSE job[j]]
  /\ UNCHANGED <<mode, defaultQueue, file, jobfile, journal, mark, cursor, wanted, crashes>>

MayWriteMut(x) == x \in Queues => save.todo \cap Resources = {}

(* The order of stateSaveToDiskChild: resources, queues, jobs.                *)
MayWrite(x) ==
  /\ x \in Queues => save.todo \cap Resources = {}
  /\ x \in Jobs => save.todo \cap Objects = {}

(* stateSaveResource, stateSaveQueue and stateSaveJob: a rename puts the new  *)
(* file in place.                                                             *)
ChildWrite(x) ==
  /\ mode = "up" /\ save # None /\ x \in save.todo /\ MayWrite(x)
  /\ file' = IF x \in Objects THEN [file EXCEPT ![x] = save.objects[x]] ELSE file
  /\ jobfile' = IF x \in Jobs THEN [jobfile EXCEPT ![x] = save.jobs[x]] ELSE jobfile
  /\ save' = [save EXCEPT !.todo = @ \ {x}]
  /\ UNCHANGED <<mode, obj, defaultQueue, job, journal, mark, cursor, wanted, crashes>>

SaveEndMut ==
  /\ mode = "up" /\ save # None /\ save.todo = {}
  /\ mark' = Len(journal)
  /\ obj' = [o \in Objects |-> IF o \in DOMAIN save.objects /\ obj[o] # None
                               THEN [obj[o] EXCEPT !.flushing = FALSE] ELSE obj[o]]
  /\ job' = [j \in Jobs |-> IF j \in DOMAIN save.jobs /\ job[j] # None
                            THEN [job[j] EXCEPT !.flushing = FALSE] ELSE job[j]]
  /\ save' = None
  /\ UNCHANGED <<mode, defaultQueue, file, jobfile, journal, cursor, wanted, crashes>>

(* The child's '*' and its end, and jersd that clears the flushing flags      *)
(* through the pointers of its lists.                                         *)
SaveEnd ==
  /\ mode = "up" /\ save # None /\ save.todo = {}
  /\ mark' = save.commit
  /\ obj' = [o \in Objects |-> IF o \in DOMAIN save.objects /\ obj[o] # None
                               THEN [obj[o] EXCEPT !.flushing = FALSE] ELSE obj[o]]
  /\ job' = [j \in Jobs |-> IF j \in DOMAIN save.jobs /\ job[j] # None
                            THEN [job[j] EXCEPT !.flushing = FALSE] ELSE job[j]]
  /\ save' = None
  /\ UNCHANGED <<mode, defaultQueue, file, jobfile, journal, cursor, wanted, crashes>>

-----------------------------------------------------------------------------
(* A crash, the load of the files and the replay.                            *)

Loaded(f) == [val |-> f.val, rev |-> f.rev + 1, deleted |-> FALSE, dirty |-> FALSE,
              flushing |-> FALSE]

(* stateLoadQueues in the order of the names: the last default wins.          *)
LoadedDefault ==
  LET d == {q \in Queues : file[q] # None /\ file[q].default}
  IN IF d = {} THEN None ELSE CHOOSE q \in d : \A p \in d : p <= q

(* jersd ends at any point and starts again: queues and resources are loaded  *)
(* and the replay starts after the last '*'.                                  *)
Crash ==
  /\ mode = "up" /\ crashes < MaxCrashes
  /\ \A j \in Jobs : job[j] = None /\ jobfile[j] = None
  /\ mode' = "replay" /\ crashes' = crashes + 1
  /\ wanted' = View
  /\ save' = None
  /\ obj' = [o \in Objects |-> IF file[o] = None THEN None ELSE Loaded(file[o])]
  /\ defaultQueue' = LoadedDefault
  /\ cursor' = mark + 1
  /\ UNCHANGED <<disk, job>>

(* What the command of record x answers when it is replayed.                  *)
Skipped(x) ==
  CASE x.cmd = "add" -> x.o \in Resources /\ obj[x.o] # None
    [] x.cmd = "del" -> x.o \in Queues /\ ~Live(x.o)
    [] OTHER -> obj[x.o] # None /\ (x.o \in Resources => Live(x.o)) /\ obj[x.o].rev >= x.rev

RefusedMut(x) ==
  CASE x.cmd = "add" -> Live(x.o)
    [] x.cmd = "del" -> x.o \in Resources /\ ~Live(x.o)
    [] OTHER -> obj[x.o] = None \/ (x.o \in Resources /\ ~Live(x.o))

Refused(x) ==
  CASE x.cmd = "add" -> x.o \in Queues /\ Live(x.o)
    [] x.cmd = "del" -> x.o \in Resources /\ ~Live(x.o)
    [] OTHER -> obj[x.o] = None \/ (x.o \in Resources /\ ~Live(x.o))

Applied(x) ==
  CASE x.cmd = "add" -> Added(x.o, x.val)
    [] x.cmd = "del" -> [obj[x.o] EXCEPT !.deleted = TRUE]
    [] OTHER -> Modified(x.o, x.val)

(* replayCommand: a command that fails ends jersd.                            *)
Replay ==
  /\ mode = "replay" /\ cursor <= Len(journal)
  /\ LET x == journal[cursor]
     IN \/ /\ Refused(x)
           /\ mode' = "dead"
           /\ UNCHANGED <<obj, defaultQueue>>
        \/ /\ ~Refused(x) /\ Skipped(x)
           /\ UNCHANGED <<mode, obj, defaultQueue>>
        \/ /\ ~Refused(x) /\ ~Skipped(x)
           /\ obj' = [obj EXCEPT ![x.o] = Applied(x)]
           /\ defaultQueue' = IF x.cmd = "default" THEN x.o ELSE defaultQueue
           /\ UNCHANGED mode
  /\ cursor' = cursor + 1
  /\ UNCHANGED <<job, file, jobfile, journal, mark, save, wanted, crashes>>

ReplayComplete ==
  /\ mode = "replay" /\ cursor > Len(journal)
  /\ mode' = "up"
  /\ UNCHANGED <<obj, defaultQueue, job, file, jobfile, journal, mark, save, cursor, wanted, crashes>>

Next ==
  \/ \E q \in Queues :
       \/ DelQueue(q) \/ SetDefault(q) \/ AddRefused(q)
       \/ \E v \in Vals : AddQueue(q, v) \/ ModQueue(q, v)
  \/ \E r \in Resources :
       DelResource(r) \/ \E v \in Vals : AddResource(r, v) \/ ModResource(r, v)
  \/ \E j \in Jobs : AddJob(j) \/ ModJob(j) \/ DelJob(j)
  \/ \E x \in Objects \cup Jobs : ChildWrite(x)
  \/ CleanupEvent \/ SaveStart \/ SaveEnd \/ Crash \/ Replay \/ ReplayComplete

Spec == Init /\ [][Next]_vars

-----------------------------------------------------------------------------
TypeOK ==
  /\ mode \in {"up", "replay", "dead"}
  /\ \A o \in Objects : obj[o] = None \/ obj[o].val \in Vals
  /\ defaultQueue \in Queues \cup {None, Freed}
  /\ mark \in 0..Len(journal) /\ cursor \in 0..(Len(journal) + 1)

(* What a job uses is never deleted under it: the queue and the resource of a *)
(* job that is not deleted are live, unless the job was given one that was    *)
(* deleted already.                                                           *)
JobsHaveTheirObjects ==
  \A j \in Jobs : job[j] # None /\ ~job[j].deleted /\ ~job[j].late =>
    job[j].queue # Freed /\ Live(job[j].queue) /\ (job[j].res # None => Live(job[j].res))

SavedIsInMemory ==
  save # None => /\ \A o \in DOMAIN save.objects : obj[o] # None
                 /\ \A j \in DOMAIN save.jobs : job[j] # None

(* What a running save points to is still in memory when the save ends; only  *)
(* an ADD_QUEUE that is refused for its host frees a queue that is being      *)
(* saved.                                                                     *)
SavesKeepTheirObjects ==
  [][SavedIsInMemory /\ ~SavedIsInMemory' => \E q \in Queues : AddRefused(q)]_vars

Deletions == {journal[i].o : i \in {k \in 1..Len(journal) : journal[k].cmd = "del"}}

(* A job's file that names a queue or a resource without a file ends the next *)
(* start: it names only objects that have a file, or that were deleted.       *)
FilesResolve ==
  \A j \in Jobs : jobfile[j] # None =>
    \A o \in {jobfile[j].queue, jobfile[j].res} \cap Objects : file[o] # None \/ o \in Deletions

(* The same without the exception: state.c:895-897 saves the queues and       *)
(* resources first, "to avoid having to handle situations where we might have *)
(* to recover jobs that reference queues and resources that don't exist".     *)
FilesAlwaysResolve ==
  \A j \in Jobs : jobfile[j] # None =>
    \A o \in {jobfile[j].queue, jobfile[j].res} \cap Objects : file[o] # None

(* A start that gives up on its own journal does so at the ADD_QUEUE of a     *)
(* queue that a save wrote and had not marked, or at a resource that was      *)
(* deleted; at no other record.                                               *)
ReplayDiesOnly ==
  mode = "dead" =>
    LET x == journal[cursor - 1]
    IN \/ x.cmd = "add" /\ x.o \in Queues /\ file[x.o] # None
       \/ x.o \in Resources \cap Deletions

ReplayNeverDies == mode # "dead"

Since(o) == {journal[i].cmd : i \in {k \in (mark + 1)..Len(journal) : journal[k].o = o}}

(* What was there when jersd crashed is there after the replay, unless it was *)
(* deleted before, or modified since the last '*'.                            *)
AddsRestored ==
  mode = "replay" /\ cursor > Len(journal) =>
    \A o \in DOMAIN wanted.objects \ Deletions :
      Since(o) \subseteq {"add"} => Live(o) /\ obj[o].val = wanted.objects[o]
=============================================================================
