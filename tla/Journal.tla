------------------------------ MODULE Journal ------------------------------
(***************************************************************************)
(* How jersd keeps its jobs across a crash: every accepted command is      *)
(* appended to a journal; a forked child writes the changed jobs to their  *)
(* state files and then puts a '*' on the journal record that was the last *)
(* one when it was forked; a restart loads the files and runs the records  *)
(* after the last '*' again.                                               *)
(*                                                                         *)
(* A job is reduced to its state (completed and exited are "done"), one    *)
(* attribute that marks it changed (val), one that does not (env) and one  *)
(* tag.  Queues and resources are saved and replayed the same way and are  *)
(* left out, and so is the daily change of journal file: the journal is    *)
(* one sequence.  A request that is refused without an error status is     *)
(* journalled too, with revision 0, which its replay skips: left out.      *)
(*                                                                         *)
(* `since' (see DurableJobs) is history: the code has no such state.       *)
(***************************************************************************)
EXTENDS Integers, Sequences, FiniteSets

CONSTANTS
    Jobs,       \* job ids
    ModArgs,    \* jersJobMod requests clients send, records of ModRequest
    TagValues,  \* values of the tag
    Commands,   \* the commands that are used
    Defer,      \* server.flush.defer
    NoJob,      \* NULL, or no file
    NoSave,     \* no background save
    Unset,      \* a field a request does not have, a tag a job does not have
    MaxRecords, \* bound: commands are taken while the journal is shorter
    MaxRev,     \* bound: changes without a record stop at this revision
    MaxCrashes, \* bound: crashes
    MaxFails    \* bound: saves that fail or cannot write their '*'

VARIABLES
    mode,     \* "up", "down", "replay", or "dead": a replay called error_die
    mem,      \* server.jobTable
    file,     \* the state files
    journal,  \* the records on disk or in the page cache
    mark,     \* place of the last '*', 0 if there is none
    synced,   \* records known to be on disk
    save,     \* the background save, its memory image taken at the fork
    readonly, \* server.readonly is READONLY_BGSAVE
    cursor,   \* the record to replay next
    crashes, fails, \* counters for the bounds
    since

vars == <<mode, mem, file, journal, mark, synced, save, readonly, cursor,
          crashes, fails, since>>

Ended == {"done", "unknown"}
States == {"pending", "running", "none"} \cup Ended
Vals == {0, 1}
ModRequest == [val : Vals \cup {Unset}, env : Vals \cup {Unset}, restart : BOOLEAN]
Tags == TagValues \cup {Unset}

Content == [st : States, val : Vals, env : Vals, tag : Tags, rev : Nat]
Image(m) == [st |-> m.st, val |-> m.val, env |-> m.env, tag |-> m.tag,
             rev |-> m.rev]

Exists(j) == mem[j] # NoJob
Live(m) == m # NoJob /\ ~m.deleted

\* What a job is to a client.  A running job is unknown after a restart, and
\* also whenever its agent is away: the two are not told apart.
View(m) ==
    IF Live(m)
    THEN [st |-> IF m.st = "running" THEN "unknown" ELSE m.st,
          val |-> m.val, env |-> m.env, tag |-> m.tag]
    ELSE NoJob

Init ==
    /\ mode = "up"
    /\ mem = [j \in Jobs |-> NoJob]
    /\ file = [j \in Jobs |-> NoJob]
    /\ journal = <<>>
    /\ mark = 0 /\ synced = 0
    /\ save = NoSave
    /\ readonly = FALSE
    /\ cursor = 0
    /\ crashes = 0 /\ fails = 0
    /\ since = [j \in Jobs |-> {NoJob}]

-----------------------------------------------------------------------------
(* What commands do to a job, when they are accepted and when replayed.    *)

Update(m, dirty) == [m EXCEPT !.rev = @ + 1, !.dirty = @ \/ dirty]

FreshMut == [st |-> "pending", val |-> 0, env |-> 0, tag |-> Unset, rev |-> 1,
             deleted |-> FALSE, dirty |-> FALSE, flushing |-> FALSE]

Fresh == [st |-> "pending", val |-> 0, env |-> 0, tag |-> Unset, rev |-> 1,
          deleted |-> FALSE, dirty |-> TRUE, flushing |-> FALSE]

Given(x, old) == IF x = Unset THEN old ELSE x

\* New values for envs, unlike other fields, do not mark the job dirty.
Modified(m, a) ==
    LET restarted == m.st \in Ended /\ a.restart
        st == IF m.st \in Ended /\ ~restarted THEN m.st ELSE "pending"
    IN  Update([m EXCEPT !.st = st, !.val = Given(a.val, @), !.env = Given(a.env, @)],
               a.val # Unset \/ restarted \/ st # m.st)

Modifiable(m) == Live(m) /\ m.st # "running"

Deleted(m) == Update([m EXCEPT !.deleted = TRUE, !.st = "none"], FALSE)
Tagged(m, t) == Update([m EXCEPT !.tag = t], TRUE)
Untagged(m) == Tagged(m, Unset)
InStateMut(m, st) == Update([m EXCEPT !.st = st], FALSE)
InState(m, st) == Update([m EXCEPT !.st = st], TRUE)

-----------------------------------------------------------------------------
(* Commands.                                                               *)

\* since' after job j became m.
Noted(j, m) ==
    since' = [since EXCEPT ![j] = IF Defer THEN @ \cup {View(m)} ELSE {View(m)}]

\* Job j becomes m and the command is journalled.
Log(cmd, j, m, rev, arg) ==
    /\ mode = "up" /\ cmd \in Commands /\ Len(journal) < MaxRecords
    /\ journal' = Append(journal, [cmd |-> cmd, job |-> j, rev |-> rev, arg |-> arg])
    /\ synced' = IF Defer THEN synced ELSE Len(journal')
    /\ mem' = [mem EXCEPT ![j] = m]
    /\ Noted(j, m)
    /\ UNCHANGED <<mode, mark, save, readonly, cursor, crashes, fails>>

Cleanable(m) == m # NoJob /\ m.deleted /\ ~m.dirty /\ ~m.flushing

\* A deleted job whose id is asked for is cleaned up first.
AddJob(j) ==
    /\ ~readonly
    /\ ~Exists(j) \/ Cleanable(mem[j])
    /\ file' = [file EXCEPT ![j] = IF Exists(j) THEN NoJob ELSE @]
    /\ Log("add", j, Fresh, 1, Unset)

ModJob(j, a) ==
    /\ ~readonly
    /\ Modifiable(mem[j])
    /\ LET m == Modified(mem[j], a) IN Log("mod", j, m, m.rev, a)
    /\ UNCHANGED file

DelJob(j) ==
    /\ ~readonly
    /\ Live(mem[j])
    /\ Log("del", j, Deleted(mem[j]), 0, Unset)
    /\ UNCHANGED file

\* The tag commands do not look at the deleted flag.
SetTag(j, t) ==
    /\ ~readonly
    /\ Exists(j)
    /\ LET m == Tagged(mem[j], t) IN Log("settag", j, m, m.rev, t)
    /\ UNCHANGED file

DelTag(j) ==
    /\ ~readonly
    /\ Exists(j) /\ mem[j].tag # Unset
    /\ LET m == Untagged(mem[j]) IN Log("deltag", j, m, m.rev, Unset)
    /\ UNCHANGED file

\* Messages of the agent about a job it was sent, which may have been deleted
\* since: it has started, it has finished.
JobStarted(j) ==
    /\ Exists(j) /\ mem[j].st \in {"pending", "none"}
    /\ Log("start", j, InState(mem[j], "running"), 0, Unset)
    /\ UNCHANGED file

JobCompleted(j) ==
    /\ Exists(j) /\ mem[j].st \in {"running", "unknown", "none"}
    /\ Log("complete", j, InState(mem[j], "done"), 0, Unset)
    /\ UNCHANGED file

\* Job j becomes m and nothing is journalled.
Unlogged(cmd, j, m) ==
    /\ mode = "up" /\ cmd \in Commands /\ m.rev <= MaxRev
    /\ mem' = [mem EXCEPT ![j] = m]
    /\ Noted(j, m)
    /\ UNCHANGED <<mode, file, journal, mark, save, readonly, cursor, crashes, fails>>

\* The agent's connection is lost: a job that runs, or that was sent to the
\* agent, is unknown, and all its internal flags are cleared.
MarkUnknown(j) ==
    /\ Exists(j)
    /\ LET m == InState([mem[j] EXCEPT !.deleted = FALSE, !.flushing = FALSE], "unknown")
       IN  \/ mem[j].st = "running" /\ Unlogged("lost", j, m)
           \/ mem[j].st \in {"pending", "none"} /\ Unlogged("unsent", j, m)
    /\ UNCHANGED synced

\* A signal for an unknown job ends it.
SigJob(j) ==
    /\ Live(mem[j]) /\ mem[j].st = "unknown"
    /\ Unlogged("sig", j, InState(mem[j], "done"))
    /\ UNCHANGED synced

\* The agent is back: it still runs the job, or has finished it.  What the
\* job has become meanwhile is not looked at.
Recon(j) ==
    /\ Exists(j)
    /\ \/ Unlogged("recon", j, Update([mem[j] EXCEPT !.st = "running"], FALSE))
       \/ Unlogged("recon", j, InState(mem[j], "done"))
    /\ synced' = Len(journal)

-----------------------------------------------------------------------------
(* The journal flush and the background save.                              *)

Flushed == since' = [j \in Jobs |-> {View(mem[j])}]

FlushJournal ==
    /\ mode = "up" /\ synced < Len(journal)
    /\ synced' = Len(journal)
    /\ Flushed
    /\ UNCHANGED <<mode, mem, file, journal, mark, save, readonly, cursor, crashes, fails>>

Dirty == {j \in Jobs : Exists(j) /\ mem[j].dirty}

\* The child sees memory as it is now: also the place of the last record.
SaveStart ==
    /\ mode = "up" /\ save = NoSave /\ Dirty # {}
    /\ save' = [todo |-> Dirty, all |-> Dirty, commit |-> Len(journal), status |-> "writing",
                img |-> [j \in Dirty |-> Image(mem[j])]]
    /\ mem' = [j \in Jobs |-> IF j \in Dirty
                              THEN [mem[j] EXCEPT !.dirty = FALSE, !.flushing = TRUE]
                              ELSE mem[j]]
    /\ UNCHANGED <<mode, file, journal, mark, synced, readonly, cursor, crashes, fails, since>>

Saving == mode = "up" /\ save # NoSave /\ save.status = "writing"

\* One file: written aside, synced and renamed over the old one.
ChildWrite(j) ==
    /\ Saving /\ j \in save.todo
    /\ file' = [file EXCEPT ![j] = save.img[j]]
    /\ save' = [save EXCEPT !.todo = @ \ {j}]
    /\ UNCHANGED <<mode, mem, journal, mark, synced, readonly, cursor, crashes, fails, since>>

ChildFail ==
    /\ Saving /\ fails < MaxFails
    /\ fails' = fails + 1
    /\ save' = [save EXCEPT !.status = "failed"]
    /\ UNCHANGED <<mode, mem, file, journal, mark, synced, readonly, cursor, crashes, since>>

ChildMarkUnsyncedMut ==
    /\ Saving /\ save.todo = {}
    /\ mark' = save.commit /\ UNCHANGED fails
    /\ save' = [save EXCEPT !.status = "ok"]
    /\ UNCHANGED <<mode, mem, file, journal, synced, readonly, cursor, crashes, since>>

\* All files are written: the '*', which may fail, and a sync of the journal.
ChildMark ==
    /\ Saving /\ save.todo = {}
    /\ \/ mark' = save.commit /\ UNCHANGED fails
       \/ fails < MaxFails /\ fails' = fails + 1 /\ UNCHANGED mark
    /\ save' = [save EXCEPT !.status = "ok"]
    /\ synced' = Len(journal)
    /\ Flushed
    /\ UNCHANGED <<mode, mem, file, journal, readonly, cursor, crashes>>

SaveEndMut ==
    /\ mode = "up" /\ save # NoSave /\ save.status # "writing"
    /\ readonly' = (save.status = "failed")
    /\ mem' = [j \in Jobs |-> IF j \in save.all /\ Exists(j) THEN [mem[j] EXCEPT !.flushing = FALSE]
                                               ELSE mem[j]]
    /\ save' = NoSave
    /\ UNCHANGED <<mode, file, journal, mark, synced, cursor, crashes, fails, since>>

\* jersd finds that the child has ended.
SaveEnd ==
    /\ mode = "up" /\ save # NoSave /\ save.status # "writing"
    /\ LET failed == save.status = "failed"
       IN  /\ readonly' = failed
           /\ mem' = [j \in Jobs |-> IF j \in save.all /\ Exists(j)
                                     THEN [mem[j] EXCEPT !.flushing = FALSE, !.dirty = @ \/ failed]
                                     ELSE mem[j]]
    /\ save' = NoSave
    /\ UNCHANGED <<mode, file, journal, mark, synced, cursor, crashes, fails, since>>

\* A deleted job is forgotten, and only now its file is removed.
CleanupJob(j) ==
    /\ mode = "up" /\ Cleanable(mem[j])
    /\ mem' = [mem EXCEPT ![j] = NoJob]
    /\ file' = [file EXCEPT ![j] = NoJob]
    /\ UNCHANGED <<mode, journal, mark, synced, save, readonly, cursor, crashes, fails, since>>

-----------------------------------------------------------------------------
(* Crash and recovery.                                                     *)

\* jersd ends, cleanly or not, and its child with it.  Records that were not
\* flushed may be lost from the end of the journal.
Crash ==
    /\ mode = "up" /\ crashes < MaxCrashes
    /\ \E k \in synced .. Len(journal) :
          /\ journal' = SubSeq(journal, 1, k)
          /\ synced' = k
    /\ mode' = "down"
    /\ crashes' = crashes + 1
    /\ mem' = [j \in Jobs |-> NoJob]
    /\ save' = NoSave
    /\ readonly' = FALSE
    /\ UNCHANGED <<file, mark, cursor, fails, since>>

LoadedMut(f) ==
    [st |-> IF f.st \in {"none", "running"} THEN "pending" ELSE f.st, val |-> f.val,
     env |-> f.env, tag |-> f.tag, rev |-> f.rev + 1,
     deleted |-> FALSE, dirty |-> FALSE, flushing |-> FALSE]

\* addJob counts one revision more than the file has.
Loaded(f) ==
    [st |-> IF f.st = "none" THEN "pending" ELSE f.st, val |-> f.val, env |-> f.env,
     tag |-> f.tag, rev |-> f.rev + 1,
     deleted |-> FALSE, dirty |-> FALSE, flushing |-> FALSE]

Load ==
    /\ mode = "down"
    /\ mode' = "replay"
    /\ cursor' = mark + 1
    /\ mem' = [j \in Jobs |-> IF file[j] = NoJob THEN NoJob ELSE Loaded(file[j])]
    /\ UNCHANGED <<file, journal, mark, synced, save, readonly, crashes, fails, since>>

\* The record at the cursor makes its job m.
Redo(m) == mem' = [mem EXCEPT ![journal[cursor].job] = m]

ReplayCommand(r, m) ==
    \/ r.cmd = "add" /\ IF m = NoJob THEN Redo(Fresh) ELSE UNCHANGED mem
    \/ r.cmd = "mod" /\ IF Modifiable(m) /\ m.rev < r.rev THEN Redo(Modified(m, r.arg))
                                                           ELSE UNCHANGED mem
    \/ r.cmd = "del" /\ IF Live(m) THEN Redo(Deleted(m)) ELSE UNCHANGED mem
    \/ r.cmd = "settag" /\ m # NoJob /\ Redo(Tagged(m, r.arg))
    \/ r.cmd = "deltag" /\ m # NoJob /\ m.tag # Unset /\ Redo(Untagged(m))
    \/ r.cmd = "start" /\ IF m = NoJob THEN UNCHANGED mem ELSE Redo(InState(m, "running"))
    \/ r.cmd = "complete" /\ IF m = NoJob THEN UNCHANGED mem ELSE Redo(InState(m, "done"))
    \/ r.cmd = "end" /\ UNCHANGED mem

ReplayFailsMut(r, m) ==
    \/ r.cmd = "settag" /\ m = NoJob
    \/ r.cmd = "deltag" /\ (m # NoJob => m.tag = Unset)
    \/ r.cmd = "del" /\ ~Live(m)

\* A tag command whose job or tag is not there returns an error.
ReplayFails(r, m) ==
    \/ r.cmd = "settag" /\ m = NoJob
    \/ r.cmd = "deltag" /\ (m # NoJob => m.tag = Unset)

Replaying == mode = "replay" /\ cursor <= Len(journal)

ReplayStep ==
    /\ Replaying
    /\ LET r == journal[cursor] IN ReplayCommand(r, IF r.job \in Jobs THEN mem[r.job] ELSE NoJob)
    /\ cursor' = cursor + 1
    /\ UNCHANGED <<mode, file, journal, mark, synced, save, readonly, crashes, fails, since>>

ReplayDie ==
    /\ Replaying
    /\ LET r == journal[cursor] IN r.job \in Jobs /\ ReplayFails(r, mem[r.job])
    /\ mode' = "dead"
    /\ UNCHANGED <<mem, file, journal, mark, synced, save, readonly, cursor, crashes,
                   fails, since>>

\* Jobs that ran are unknown now, and a dummy record opens the journal.
ReplayEnd ==
    /\ mode = "replay" /\ cursor > Len(journal)
    /\ mode' = "up"
    /\ cursor' = 0
    /\ mem' = [j \in Jobs |-> IF Exists(j) /\ mem[j].st = "running"
                              THEN InState(mem[j], "unknown") ELSE mem[j]]
    /\ journal' = Append(journal, [cmd |-> "end", job |-> NoJob, rev |-> 0, arg |-> Unset])
    /\ synced' = IF Defer THEN synced ELSE Len(journal')
    /\ since' = [j \in Jobs |-> {View(mem[j])}]
    /\ UNCHANGED <<file, mark, save, readonly, crashes, fails>>

Client(j) ==
    \/ AddJob(j) \/ DelJob(j) \/ DelTag(j) \/ SigJob(j)
    \/ \E a \in ModArgs : ModJob(j, a)
    \/ \E t \in TagValues : SetTag(j, t)
Agent(j) == JobStarted(j) \/ JobCompleted(j) \/ MarkUnknown(j) \/ Recon(j)
Child == (\E j \in Jobs : ChildWrite(j)) \/ ChildFail \/ ChildMark
Recovery == Load \/ ReplayStep \/ ReplayDie \/ ReplayEnd

Next ==
    \/ \E j \in Jobs : Client(j) \/ Agent(j) \/ CleanupJob(j)
    \/ FlushJournal \/ SaveStart \/ Child \/ SaveEnd \/ Crash \/ Recovery

Spec == Init /\ [][Next]_vars

\* Every step of the daemon and of its child that is due is taken; MaxFails
\* stands for a disk that fails only finitely often.
Fairness ==
    /\ WF_vars(SaveStart) /\ WF_vars(SaveEnd) /\ WF_vars(ChildMark)
    /\ \A j \in Jobs : WF_vars(ChildWrite(j))
    /\ WF_vars(Recovery)

FairSpec == Spec /\ Fairness

-----------------------------------------------------------------------------
(* Properties.                                                             *)

Held == Content \cup {NoJob}
Records == [cmd : Commands \cup {"end"}, job : Jobs \cup {NoJob}, rev : Nat,
            arg : ModArgs \cup Tags]

\* Types.  A save in progress has an image of every job it still has to write,
\* and the cursor of a replay stays within the journal.
TypeOK ==
    /\ mode \in {"up", "down", "replay", "dead"}
    /\ \A j \in Jobs :
          /\ mem[j] # NoJob => Image(mem[j]) \in Content
          /\ file[j] \in Held
    /\ \A i \in 1 .. Len(journal) : journal[i] \in Records
    /\ save # NoSave => /\ save.todo \subseteq save.all
                        /\ \A j \in save.todo : save.img[j] \in Content
    /\ readonly \in BOOLEAN
    /\ cursor \in 0 .. Len(journal) + 1

\* The '*' is on a record that is on disk, so that a crash never leaves the
\* replay to begin behind the end of the journal.
MarkOnDisk == mark <= synced /\ synced <= Len(journal)

\* Records about job j with one of these commands, by their place.
Places(j, cmds) == {i \in 1 .. Len(journal) : journal[i].job = j /\ journal[i].cmd \in cmds}
Last(S) == IF S = {} THEN 0 ELSE CHOOSE i \in S : \A k \in S : k <= i

\* The '*' tells the truth: when every record about a job is at or before
\* the last '*', the job's file holds the job as it is.
\* (stateSaveToDisk: the child marks the record that was last at the fork.)
MarkSound ==
    mode = "up" => \A j \in Jobs :
        Live(mem[j]) /\ Last(Places(j, Commands)) \in 1 .. mark =>
            file[j] # NoJob /\ View(Loaded(file[j])) = View(mem[j])

\* A job that was added and not deleted is there, however often jersd has
\* crashed, unless its id was used before.  (command_add_job, live and
\* replayed, where the record of a job that is there is skipped.)
AddsSurvive ==
    mode = "up" => \A j \in Jobs :
        Cardinality(Places(j, {"add"})) = 1 /\ Places(j, {"del"}) = {} => Live(mem[j])

\* A job that was deleted and not added again is gone, however often jersd
\* has crashed.  (command_del_job, live and replayed.)
DeletesStay ==
    mode = "up" => \A j \in Jobs :
        LET last == Last(Places(j, {"add", "del"}))
        IN  last # 0 /\ journal[last].cmd = "del" => ~Live(mem[j])

\* A job whose start is in the journal does not wait to be started again,
\* unless a later command asked for a restart or one deleted it.  (command_agent_jobstart,
\* live and replayed; stateReplayJournal's change of RUNNING to UNKNOWN.)
NeverRunAgain ==
    mode = "up" => \A j \in Jobs :
        LET asked == {i \in Places(j, {"mod"}) : journal[i].arg.restart}
            last == Last(Places(j, {"add", "start"}) \cup asked)
        IN  /\ last # 0 /\ journal[last].cmd = "start"
            /\ Live(mem[j]) /\ Places(j, {"del"}) = {}
            => mem[j].st # "pending"

\* A replay that gives up does so at a tag command, whose job or tag is not
\* there any more because a later state of the job was loaded; at no other
\* record.  (replayCommand.)
ReplayDiesAtTags ==
    mode = "dead" => journal[cursor].cmd \in {"settag", "deltag"} /\ mark < cursor

\* The journal can always be replayed to its end.
ReplayNeverDies == mode # "dead"

\* After a failed save jersd refuses updates, but not for ever: the jobs of
\* the failed save are saved again.  (stateSaveToDisk, the failed status.)
ReadonlyEnds == readonly ~> ~readonly

\* The commands after the last '*' bring every job back to what it was, or
\* had been since the last flush.  (stateReplayJournal.)
RecoversJobs ==
    [][mode = "replay" /\ mode' = "up" =>
           \A j \in Jobs : View(mem'[j]) \in since[j]]_vars

Durable == INSTANCE DurableJobs WITH
    Values <- {NoJob} \cup [st : {"pending", "unknown", "done"}, val : Vals, env : Vals, tag : Tags],
    up <- mode = "up",
    value <- [j \in Jobs |-> IF mode = "up" THEN View(mem[j]) ELSE NoJob]

\* What a client can see of the jobs changes as DurableJobs allows: nothing
\* flushed is lost by a crash, nothing is made up by a replay.
DurableSpec == Durable!Spec
=============================================================================
