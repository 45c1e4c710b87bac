------------------------------- MODULE JobRun -------------------------------
(***************************************************************************)
(* The processes of one host: jers_agentd, and for every job a fork of it  *)
(* (jersRunJob, here "the wrapper") that runs the job, waits for it and    *)
(* reports its completion over a socket pair.  When the agent dies the     *)
(* wrappers live on; the next agent finds them in /proc and adopts them,   *)
(* and a wrapper that cannot write to its socket pair any more connects to *)
(* the new agent's adoption socket.                                        *)
(*                                                                         *)
(* A job here is started once.  The job's processes are one process group  *)
(* that ends at some time.  Logs, users, environment and the temporary     *)
(* script are left out, apart from the failures they cause.                *)
(***************************************************************************)
EXTENDS Naturals, FiniteSets

CONSTANTS
    Jobs,       \* job ids
    MaxCrashes  \* bound: deaths of the agent

VARIABLES
    agent,    \* "up", "scan" (adoptionScan) or "down"
    entry,    \* agent.jobs: "none", "child" or "adopted"
    todo,     \* processes adoptionScan has still to look at
    trying,   \* jobs whose adopt file adoptionScan could not load so far
    reported, \* send_completion was called
    phase,    \* where the wrapper is, "none" before and an exit after it lived
    proc,     \* the job's processes: "none", "live", "zombie" or "gone"
    killed,   \* the wrapper's flag of that name
    file,     \* the adopt file exists
    readers,  \* who has the agent's end of the job's socket pair open
    inbox,    \* the completion is in the socket pair
    conn,     \* the completion is in a connection to the adoption socket
    orphans,  \* wrappers whose parent is init
    crashes   \* counter for the bound

vars == <<agent, entry, todo, trying, reported, phase, proc, killed, file, readers,
          inbox, conn, orphans, crashes>>

agentVars == <<agent, entry, todo, trying, reported, crashes>>
wrapperVars == <<phase, killed, file>>
sockets == <<readers, inbox, conn, orphans>>

Agent == "agent" \* the reader that is not a wrapper
Exits == {"exit0", "exitFail", "exitSignal"}
Phases == {"none", "init", "forked", "wait", "blocked", "drain", "waited", "spin", "ended", "orphan",
           "closing", "exiting"} \cup Exits
Alive(j) == phase[j] \notin {"none"} \cup Exits

All(v) == [j \in Jobs |-> v]

Init ==
    /\ agent = "up" /\ entry = All("none") /\ todo = {} /\ trying = {}
    /\ reported = All(FALSE)
    /\ phase = All("none") /\ proc = All("none") /\ killed = All(FALSE) /\ file = All(FALSE)
    /\ readers = All({}) /\ inbox = All(FALSE) /\ conn = All(FALSE) /\ orphans = {}
    /\ crashes = 0

-----------------------------------------------------------------------------
(* The wrapper, jersRunJob.                                                *)

Step(j, from, to) == phase[j] = from /\ phase' = [phase EXCEPT ![j] = to]

\* The fork inherits the agent's end of the socket pair of every job the
\* agent has, closes its own and keeps the others.
Inherited(j) ==
    [k \in Jobs |-> CASE k = j -> {Agent}
                      [] k # j /\ Agent \in readers[k] -> readers[k] \cup {j}
                      [] OTHER -> readers[k]]

SpawnJob(j) ==
    /\ agent = "up"
    /\ Step(j, "none", "init")
    /\ entry' = [entry EXCEPT ![j] = "child"]
    /\ readers' = Inherited(j)
    /\ UNCHANGED <<agent, todo, trying, reported, proc, killed, file, inbox, conn, orphans,
                   crashes>>

\* A wrapper that ends closes what it has open.
Gone(j) == readers' = [k \in Jobs |-> readers[k] \ {j}]

LaunchFailMut(j) ==
    /\ Step(j, "init", "exit0")
    /\ file' = [file EXCEPT ![j] = FALSE]
    /\ Gone(j)
    /\ UNCHANGED <<agentVars, proc, killed, inbox, conn, orphans>>

\* Everything up to the fork may fail.
LaunchFail(j) ==
    /\ Step(j, "init", "exitFail")
    /\ file' = [file EXCEPT ![j] = FALSE]
    /\ Gone(j)
    /\ UNCHANGED <<agentVars, proc, killed, inbox, conn, orphans>>

ForkJob(j) ==
    /\ Step(j, "init", "forked")
    /\ proc' = [proc EXCEPT ![j] = "live"]
    /\ UNCHANGED <<agentVars, killed, file, sockets>>

\* The adopt file, the signal handler and the pid for the agent.
CreateAdoptFile(j) ==
    /\ Step(j, "forked", "wait")
    /\ file' = [file EXCEPT ![j] = TRUE]
    /\ UNCHANGED <<agentVars, proc, killed, sockets>>

ProcessesEnd(j) ==
    /\ proc[j] = "live"
    /\ proc' = [proc EXCEPT ![j] = "zombie"]
    /\ UNCHANGED <<agentVars, wrapperVars, sockets>>

Wait4(j) ==
    /\ Step(j, "wait", "blocked")
    /\ UNCHANGED <<agentVars, proc, killed, file, sockets>>

\* wait4 returns: the job has ended.
WaitReturns(j) ==
    /\ proc[j] = "zombie"
    /\ Step(j, "blocked", "waited")
    /\ proc' = [proc EXCEPT ![j] = "gone"]
    /\ UNCHANGED <<agentVars, killed, file, sockets>>

\* The wait is over: was the job killed?
WaitOver(j) ==
    /\ Step(j, "waited", IF killed[j] THEN "drain" ELSE "ended")
    /\ UNCHANGED <<agentVars, proc, killed, file, sockets>>

DrainedMut(j) ==
    /\ Step(j, "drain", "ended")
    /\ proc' = [proc EXCEPT ![j] = IF @ = "zombie" THEN "gone" ELSE @]
    /\ UNCHANGED <<agentVars, killed, file, sockets>>

\* No process is left in the group.  The second wait4 is repeated as long as
\* it fails, also when there is no child any more.
Drained(j) ==
    /\ proc[j] # "live"
    /\ Step(j, "drain", IF proc[j] = "zombie" THEN "ended" ELSE "spin")
    /\ proc' = [proc EXCEPT ![j] = "gone"]
    /\ UNCHANGED <<agentVars, killed, file, sockets>>

WrapperSendMut(j) ==
    /\ \/ /\ readers[j] # {}
          /\ Step(j, "ended", "closing")
          /\ inbox' = [inbox EXCEPT ![j] = TRUE]
       \/ /\ readers[j] = {}
          /\ Step(j, "ended", IF j \in orphans THEN "orphan" ELSE "closing")
          /\ UNCHANGED inbox
    /\ file' = [file EXCEPT ![j] = FALSE]
    /\ UNCHANGED <<agentVars, proc, killed, readers, conn, orphans>>

\* The completion goes to the socket pair if anyone has its other end open.
WrapperSend(j) ==
    /\ \/ /\ readers[j] # {}
          /\ Step(j, "ended", "closing")
          /\ inbox' = [inbox EXCEPT ![j] = TRUE]
       \/ /\ readers[j] = {}
          /\ Step(j, "ended", IF j \in orphans THEN "orphan" ELSE "closing")
          /\ UNCHANGED inbox
    /\ UNCHANGED <<agentVars, proc, killed, file, readers, conn, orphans>>

\* An orphan tries until it can connect to the adoption socket.
OrphanSend(j) ==
    /\ agent = "up"
    /\ Step(j, "orphan", "closing")
    /\ conn' = [conn EXCEPT ![j] = TRUE]
    /\ UNCHANGED <<agentVars, proc, killed, file, readers, inbox, orphans>>

DeleteAdoptFile(j) ==
    /\ Step(j, "closing", "exiting")
    /\ file' = [file EXCEPT ![j] = FALSE]
    /\ UNCHANGED <<agentVars, proc, killed, sockets>>

WrapperExit(j) ==
    /\ Step(j, "exiting", "exit0")
    /\ Gone(j)
    /\ UNCHANGED <<agentVars, proc, killed, file, inbox, conn, orphans>>

Wrapper(j) ==
    \/ ForkJob(j) \/ CreateAdoptFile(j) \/ Wait4(j) \/ WaitReturns(j) \/ WaitOver(j) \/ Drained(j)
    \/ WrapperSend(j) \/ OrphanSend(j) \/ DeleteAdoptFile(j) \/ WrapperExit(j)

Moment(j) == IF phase[j] = "blocked" /\ proc[j] # "live" THEN "waited" ELSE phase[j]

\* signal_command: the agent signals the wrapper.  Before the handler is set
\* the signal ends it; with it, the wrapper is marked killed and the signal
\* goes on to the job's processes.  It interrupts wait4 if the job still runs
\* and wait4 has been called.
SignalCommand(j) ==
    /\ agent = "up" /\ entry[j] # "none"
    /\ \/ /\ phase[j] \in {"init", "forked"}
          /\ phase' = [phase EXCEPT ![j] = "exitSignal"]
          /\ Gone(j)
          /\ UNCHANGED killed
       \/ /\ phase[j] \in {"wait", "blocked", "drain", "waited"}
          /\ killed' = [killed EXCEPT ![j] = TRUE]
          /\ phase' = [phase EXCEPT ![j] = IF Moment(j) = "blocked" THEN "drain" ELSE @]
          /\ UNCHANGED readers
    /\ UNCHANGED <<agentVars, proc, file, inbox, conn, orphans>>

-----------------------------------------------------------------------------
(* The agent.                                                              *)

\* send_completion: the job leaves the list, its socket is closed.
Report(j) ==
    /\ reported' = [reported EXCEPT ![j] = TRUE]
    /\ entry' = [entry EXCEPT ![j] = "none"]
    /\ readers' = [readers EXCEPT ![j] = @ \ {Agent}]

CheckChildrenMut(j) ==
    /\ agent = "up" /\ entry[j] = "child"
    /\ phase[j] = "exit0" /\ inbox[j]
    /\ Report(j)
    /\ UNCHANGED <<agent, todo, trying, proc, wrapperVars, inbox, conn, orphans, crashes>>

CheckChildren(j) ==
    /\ agent = "up" /\ entry[j] = "child"
    /\ phase[j] \in Exits
    /\ phase[j] = "exit0" => inbox[j]
    /\ Report(j)
    /\ UNCHANGED <<agent, todo, trying, proc, wrapperVars, inbox, conn, orphans, crashes>>

\* A connection to the adoption socket is matched with the list by its pid;
\* its completion is read and reported.
JobAdoptRead(j) ==
    /\ agent = "up" /\ conn[j]
    /\ conn' = [conn EXCEPT ![j] = FALSE]
    /\ IF entry[j] = "adopted" THEN Report(j) ELSE UNCHANGED <<reported, entry, readers>>
    /\ UNCHANGED <<agent, todo, trying, proc, wrapperVars, inbox, orphans, crashes>>

AgentCrash ==
    /\ agent # "down" /\ crashes < MaxCrashes
    /\ crashes' = crashes + 1
    /\ agent' = "down"
    /\ entry' = All("none") /\ todo' = {} /\ trying' = {}
    /\ readers' = [j \in Jobs |-> readers[j] \ {Agent}]
    /\ inbox' = [j \in Jobs |-> inbox[j] /\ readers'[j] # {}]
    /\ conn' = All(FALSE)
    /\ orphans' = {j \in Jobs : Alive(j)}
    /\ UNCHANGED <<reported, proc, wrapperVars>>

AgentStart ==
    /\ agent = "down"
    /\ agent' = "scan"
    /\ todo' = {j \in Jobs : Alive(j)}
    /\ UNCHANGED <<entry, trying, reported, proc, wrapperVars, sockets, crashes>>

Scanned(j) == todo' = todo \ {j} /\ trying' = trying \ {j}

ScanJobMut(j) ==
    /\ agent = "scan" /\ j \in todo
    /\ Scanned(j)
    /\ entry' = [entry EXCEPT ![j] = IF file[j] THEN "adopted" ELSE "none"]
    /\ UNCHANGED <<agent, reported, proc, wrapperVars, sockets, crashes>>

\* A process of the scan: it has ended meanwhile; or its adopt file is
\* loaded; or the file is not there and is tried again.
ScanJob(j) ==
    /\ agent = "scan" /\ j \in todo
    /\ \/ /\ ~Alive(j) /\ j \notin trying
          /\ Scanned(j) /\ UNCHANGED entry
       \/ /\ (Alive(j) \/ j \in trying) /\ file[j]
          /\ Scanned(j) /\ entry' = [entry EXCEPT ![j] = "adopted"]
       \/ /\ Alive(j) /\ j \notin trying /\ ~file[j]
          /\ trying' = trying \cup {j} /\ UNCHANGED <<todo, entry>>
    /\ UNCHANGED <<agent, reported, proc, wrapperVars, sockets, crashes>>

\* After five attempts the agent gives up and dies.
ScanDie(j) ==
    /\ agent = "scan" /\ j \in trying /\ ~file[j]
    /\ agent' = "down"
    /\ entry' = All("none") /\ todo' = {} /\ trying' = {}
    /\ UNCHANGED <<reported, proc, wrapperVars, sockets, crashes>>

\* The adoption socket is set up after the scan.
ScanEnd ==
    /\ agent = "scan" /\ todo = {}
    /\ agent' = "up"
    /\ UNCHANGED <<entry, todo, trying, reported, proc, wrapperVars, sockets, crashes>>

AgentStep(j) == CheckChildren(j) \/ JobAdoptRead(j) \/ ScanJob(j) \/ ScanDie(j)

Next ==
    \/ AgentCrash \/ AgentStart \/ ScanEnd
    \/ \E j \in Jobs : \/ SpawnJob(j) \/ LaunchFail(j) \/ ProcessesEnd(j) \/ SignalCommand(j)
                       \/ Wrapper(j) \/ AgentStep(j)

Spec == Init /\ [][Next]_vars

\* The kernel runs every process, jobs end, a dead agent is started again.
Fairness ==
    /\ WF_vars(AgentStart) /\ WF_vars(ScanEnd)
    /\ \A j \in Jobs : /\ WF_vars(Wrapper(j)) /\ WF_vars(ProcessesEnd(j))
                       /\ WF_vars(CheckChildren(j)) /\ WF_vars(JobAdoptRead(j))
                       /\ WF_vars(ScanJob(j) \/ ScanDie(j))

-----------------------------------------------------------------------------
(* Properties.                                                             *)

TypeOK ==
    /\ agent \in {"up", "scan", "down"}
    /\ entry \in [Jobs -> {"none", "child", "adopted"}]
    /\ phase \in [Jobs -> Phases]
    /\ proc \in [Jobs -> {"none", "live", "zombie", "gone"}]
    /\ trying \subseteq todo
    /\ \A j \in Jobs : readers[j] \subseteq (Jobs \ {j}) \cup {Agent}

\* An agent that is up knows every wrapper that still has to hand over its
\* completion, whoever started it.  (adoptionScan, addOrphanJob, spawn_job.)
RunningKnown ==
    agent = "up" => \A j \in Jobs :
        Alive(j) /\ phase[j] \notin {"closing", "exiting"} => entry[j] # "none"

\* A job that is reported as over has no process left, unless its wrapper was
\* signalled before it had set its handler.
\* (jersRunJob: "otherwise we might end up with phantom processes".)
NoPhantoms == \A j \in Jobs : reported[j] /\ proc[j] = "live" => phase[j] = "exitSignal"

\* A child that exits well has left its completion in the socket pair, so
\* reaping it never has to wait for it.  (check_children, get_job_completion.)
ReapedIsReported ==
    \A j \in Jobs : entry[j] = "child" /\ phase[j] = "exit0" => inbox[j]

\* Whatever state the wrappers are in, an agent comes up again.
AgentComesUp == agent = "down" ~> agent = "up"

\* While the agent lives, every job it has spawned is reported in the end,
\* however it ends and whoever signals it; except by a wrapper that is
\* signalled outside its first wait4 and then waits for a child it has already
\* reaped.  (jersRunJob, signal_command, check_children.)
JobsReported ==
    \A j \in Jobs : phase[j] # "none" ~> (reported[j] \/ crashes > 0 \/ phase[j] = "spin")

\* A wrapper whose agent is gone gives its completion to the next agent
\* before it ends.  (jersRunJob: "Job has been orphaned, attempting to
\* reconnect to jers_agentd to finish sending completion".)
OrphansReconnect ==
    [][\A j \in Jobs : j \in orphans /\ phase[j] = "ended" => phase'[j] # "closing"]_vars
=============================================================================
