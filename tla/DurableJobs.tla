---------------------------- MODULE DurableJobs ----------------------------
(***************************************************************************)
(* What jersd's journal and state files promise: a change that reached the *)
(* disk survives a crash, and a change that had not may be lost but is     *)
(* never replaced by something else.  `since' holds, for every job, what   *)
(* it has been since the last flush of the journal.  With flush.defer off  *)
(* every change is flushed before its command is answered.                 *)
(***************************************************************************)
CONSTANTS
    Jobs,   \* job ids
    Values, \* what a job can be, "no job" among them
    NoJob,  \* a job that does not exist
    Defer   \* server.flush.defer: changes are flushed later

VARIABLES
    up,    \* jersd runs
    value, \* what each job is while jersd runs, NoJob while it does not
    since  \* what each job may be found to be after a crash

vars == <<up, value, since>>

Init ==
    /\ up = TRUE
    /\ value = [j \in Jobs |-> NoJob]
    /\ since = [j \in Jobs |-> {NoJob}]

Change(j) ==
    /\ up
    /\ \E v \in Values :
          /\ value' = [value EXCEPT ![j] = v]
          /\ since' = [since EXCEPT ![j] = IF Defer THEN @ \cup {v} ELSE {v}]
    /\ UNCHANGED up

Flush ==
    /\ up
    /\ since' = [j \in Jobs |-> {value[j]}]
    /\ UNCHANGED <<up, value>>

Crash ==
    /\ up
    /\ up' = FALSE
    /\ value' = [j \in Jobs |-> NoJob]
    /\ UNCHANGED since

Recover ==
    /\ ~up
    /\ up' = TRUE
    /\ value' \in [Jobs -> Values]
    /\ \A j \in Jobs : value'[j] \in since[j]
    /\ since' = [j \in Jobs |-> {value'[j]}]

Next == (\E j \in Jobs : Change(j)) \/ Flush \/ Crash \/ Recover

Spec == Init /\ [][Next]_vars
=============================================================================
