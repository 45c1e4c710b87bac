----------------------------- MODULE AgentLink -----------------------------
(***************************************************************************)
(* The conversation between jersd and one jers_agentd over a connection    *)
(* that breaks: login, reconciliation, starts and completions.             *)
(*                                                                         *)
(* A message is a record; a connection delivers messages in order.  When   *)
(* it breaks, each side may still read some of what was sent to it and     *)
(* then finds the end of the stream, in its own time: jersd may still hold *)
(* the old socket when the agent is back.  The agent's list of jobs is     *)
(* struct runningJob: a job that runs (pid > 0) or one that is complete    *)
(* but not sent (pid = -1).  A process reaped before its completion can be *)
(* read (pid = 0) does not occur: JobRun shows that (ReapedIsReported).    *)
(* No shared secret is configured here (Login models that).  Deleted jobs  *)
(* and signals are left out.                                               *)
(***************************************************************************)
EXTENDS Naturals, Sequences, FiniteSets

CONSTANTS
    Jobs,        \* job ids, all in queues of this agent's host
    MaxCuts,     \* bound: times the connection breaks
    MaxRestarts, \* bound: jobs that clients restart
    MaxReboots   \* bound: restarts of the agent or of jersd

VARIABLES
    job,     \* jersd: state of each job; "starting": JERS_FLAG_JOB_STARTED
    dsock,   \* jersd: a->connection.socket; "dead" once the peer is gone
    logged,  \* jersd: a->logged_in
    recon,   \* jersd: a->recon
    asock,   \* agent: daemon_fd; "wait": connected, not yet accepted
    inRecon, \* agent: in_recon
    list,    \* agent: jobs, newest first
    toD,     \* what jersd's socket has or will receive
    early,   \* what was sent over a connection jersd has not accepted yet
    toA,     \* what the agent's socket has or will receive
    lost,    \* history: jobs whose completion the agent dropped or a socket lost
    cuts, restarts, reboots \* counters for the bounds

vars == <<job, dsock, logged, recon, asock, inRecon, list, toD, early, toA,
          lost, cuts, restarts, reboots>>

daemonVars == <<job, dsock, logged, recon>>
agentVars == <<asock, inRecon, list>>
bounds == <<lost, cuts, restarts, reboots>>

Pids == {"run", "held"}
Entry(j, pid, adopted) == [job |-> j, pid |-> pid, adopted |-> adopted]
Msg(type, j) == [type |-> type, job |-> j]
Note(type) == [type |-> type]

Init ==
    /\ job = [j \in Jobs |-> "pending"]
    /\ dsock = "none" /\ logged = FALSE /\ recon = FALSE
    /\ asock = "none" /\ inRecon = FALSE /\ list = <<>>
    /\ toD = <<>> /\ early = <<>> /\ toA = <<>> /\ lost = {}
    /\ cuts = 0 /\ restarts = 0 /\ reboots = 0

Prefixes(s) == {SubSeq(s, 1, n) : n \in 0 .. Len(s)}
Completions(s) == {s[i].job : i \in {k \in 1 .. Len(s) : s[k].type = "job_completed"}}
Without(s, i) == SubSeq(s, 1, i - 1) \o SubSeq(s, i + 1, Len(s))

-----------------------------------------------------------------------------
(* The connection.                                                         *)

\* What the agent writes: bytes for a dead connection are dropped.
AgentSend(m) ==
    /\ toD' = IF asock = "live" THEN Append(toD, m) ELSE toD
    /\ early' = IF asock = "wait" THEN Append(early, m) ELSE early
    /\ lost' = IF asock = "dead" THEN lost \cup Completions(<<m>>) ELSE lost

AgentSendNothing == UNCHANGED <<toD, early, lost>>

\* Both ends keep a dead socket with what had already reached them.
Broken ==
    /\ asock' = IF asock = "none" THEN "none" ELSE "dead"
    /\ dsock' = IF asock = "live" THEN "dead" ELSE dsock
    /\ toA' \in Prefixes(toA)
    /\ IF asock = "live" THEN toD' \in Prefixes(toD) ELSE UNCHANGED toD
    /\ early' = <<>>
    /\ lost' = lost \cup (Completions(toD) \ Completions(toD')) \cup Completions(early)

Cut ==
    /\ asock = "live" /\ cuts < MaxCuts
    /\ cuts' = cuts + 1
    /\ Broken
    /\ UNCHANGED <<job, logged, recon, inRecon, list, restarts, reboots>>

\* The agent connects and says who it is.
Connectjers ==
    /\ asock = "none"
    /\ asock' = "wait"
    /\ early' = <<Note("login")>>
    /\ UNCHANGED <<daemonVars, inRecon, list, toD, toA, bounds>>

\* The agent finds the end of the stream.  Neither the list nor in_recon is
\* touched.
DisconnectFromDaemon ==
    /\ asock = "dead" /\ toA = <<>>
    /\ asock' = "none"
    /\ UNCHANGED <<daemonVars, inRecon, list, toD, early, toA, bounds>>

\* jersd accepts, or turns away an agent that it still has a socket for.
HandleAgentConnection ==
    /\ asock = "wait"
    /\ \/ /\ dsock = "none"
          /\ asock' = "live" /\ dsock' = "live"
          /\ logged' = FALSE
          /\ toD' = early
          /\ UNCHANGED lost
       \/ /\ dsock # "none"
          /\ asock' = "dead"
          /\ lost' = lost \cup Completions(early)
          /\ UNCHANGED <<dsock, logged, toD>>
    /\ early' = <<>> /\ toA' = <<>>
    /\ UNCHANGED <<job, recon, inRecon, list, cuts, restarts, reboots>>

HandleAgentDisconnect ==
    /\ dsock = "dead" /\ toD = <<>>
    /\ dsock' = "none"
    /\ logged' = FALSE
    /\ job' = [j \in Jobs |-> IF job[j] \in {"running", "starting"} THEN "unknown" ELSE job[j]]
    /\ UNCHANGED <<recon, agentVars, toD, early, toA, bounds>>

-----------------------------------------------------------------------------
(* jersd.                                                                  *)

DaemonSend(m) == toA' = IF dsock = "live" THEN Append(toA, m) ELSE toA

StartableMut(j) == job[j] = "pending" /\ logged
Startable(j) == job[j] = "pending" /\ logged /\ ~recon

StartJob(j) ==
    /\ Startable(j)
    /\ job' = [job EXCEPT ![j] = "starting"]
    /\ DaemonSend(Msg("start_job", j))
    /\ lost' = lost \ {j}
    /\ UNCHANGED <<dsock, logged, recon, agentVars, toD, early, cuts, restarts, reboots>>

\* A client restarts a job that is over, or unknown.
RestartJob(j) ==
    /\ restarts < MaxRestarts
    /\ job[j] \in {"unknown", "done"}
    /\ job' = [job EXCEPT ![j] = "pending"]
    /\ restarts' = restarts + 1
    /\ UNCHANGED <<dsock, logged, recon, agentVars, toD, early, toA, lost, cuts, reboots>>

\* jersd takes the next message.
Received(type) ==
    /\ dsock # "none" /\ toD # <<>> /\ Head(toD).type = type
    /\ toD' = Tail(toD)
    /\ UNCHANGED <<dsock, agentVars, early, bounds>>

AgentLogin ==
    /\ Received("login")
    /\ DaemonSend(Note("recon_req"))
    /\ recon' = TRUE /\ logged' = TRUE
    /\ UNCHANGED job

\* The items are applied in order: a later one of the same job wins.
ReconState(items, j) ==
    LET mine == SelectSeq(items, LAMBDA e : e.job = j)
    IN  CASE mine = <<>> -> job[j]
          [] mine # <<>> /\ mine[Len(mine)].pid = "run" -> "running"
          [] OTHER -> "done"

AgentReconMut ==
    /\ Received("recon_resp")
    /\ job' = [j \in Jobs |-> ReconState(Head(toD).jobs, j)]
    /\ recon' = FALSE
    /\ UNCHANGED <<logged, toA>>

AgentRecon ==
    /\ Received("recon_resp")
    /\ job' = [j \in Jobs |-> ReconState(Head(toD).jobs, j)]
    /\ DaemonSend(Note("recon_complete"))
    /\ recon' = FALSE
    /\ UNCHANGED logged

AgentJobstart ==
    /\ Received("job_started")
    /\ job' = [job EXCEPT ![Head(toD).job] = "running"]
    /\ UNCHANGED <<logged, recon, toA>>

AgentJobcompleted ==
    /\ Received("job_completed")
    /\ job' = [job EXCEPT ![Head(toD).job] = "done"]
    /\ UNCHANGED <<logged, recon, toA>>

\* jersd is restarted: jobs that ran are unknown, the journal knows nothing
\* of starts under way.
DaemonRestart ==
    /\ reboots < MaxReboots
    /\ reboots' = reboots + 1
    /\ job' = [j \in Jobs |-> CASE job[j] = "running" -> "unknown"
                               [] job[j] = "starting" -> "pending"
                               [] OTHER -> job[j]]
    /\ dsock' = "none" /\ logged' = FALSE /\ recon' = FALSE
    /\ asock' = IF asock = "none" THEN "none" ELSE "dead"
    /\ toA' \in Prefixes(toA)
    /\ toD' = <<>> /\ early' = <<>>
    /\ lost' = lost \cup Completions(toD \o early)
    /\ UNCHANGED <<inRecon, list, cuts, restarts>>

-----------------------------------------------------------------------------
(* The agent.                                                              *)

Told(type) ==
    /\ asock \in {"live", "dead"} /\ toA # <<>> /\ Head(toA).type = type
    /\ toA' = Tail(toA)
    /\ UNCHANGED <<daemonVars, asock, cuts, restarts, reboots>>

\* The job's process is spawned; or its user is unknown or it cannot be
\* forked, and the failure is reported at once.
StartCommand ==
    /\ Told("start_job")
    /\ LET j == Head(toA).job
       IN  \/ /\ list' = <<Entry(j, "run", FALSE)>> \o list
              /\ AgentSend(Msg("job_started", j))
           \/ /\ AgentSend(Msg("job_completed", j))
              /\ UNCHANGED list
    /\ UNCHANGED inRecon

ReconCommand ==
    /\ Told("recon_req")
    /\ AgentSend([type |-> "recon_resp",
                  jobs |-> [i \in 1 .. Len(list) |-> [job |-> list[i].job, pid |-> list[i].pid]]])
    /\ inRecon' = TRUE
    /\ UNCHANGED list

ReconComplete ==
    /\ Told("recon_complete")
    /\ list' = SelectSeq(list, LAMBDA e : e.pid # "held")
    /\ inRecon' = FALSE
    /\ lost' = lost \cup {j \in Jobs : /\ \E i \in 1 .. Len(list) : list[i].job = j /\ list[i].pid = "held"
                                     /\ job[j] # "done"}
    /\ UNCHANGED <<toD, early>>

Offline == asock = "none"

SendCompletionMut(i) ==
    /\ list' = Without(list, i)
    /\ IF Offline \/ inRecon THEN AgentSendNothing ELSE AgentSend(Msg("job_completed", list[i].job))

\* The completion of the list's i-th job is sent, or kept for the next
\* reconciliation.
SendCompletion(i) ==
    IF Offline \/ inRecon
    THEN list' = [list EXCEPT ![i].pid = "held"] /\ AgentSendNothing
    ELSE list' = Without(list, i) /\ AgentSend(Msg("job_completed", list[i].job))

CheckChildrenFrame == UNCHANGED <<daemonVars, asock, inRecon, toA, cuts, restarts, reboots>>

\* A job has ended: its process is reaped, or the adopted job has written its
\* completion.
JobEnded(i) ==
    /\ list[i].pid = "run"
    /\ SendCompletion(i)
    /\ CheckChildrenFrame

\* A complete adopted job is looked at again in every turn of the loop.
AdoptedAgain(i) ==
    /\ list[i].pid = "held" /\ list[i].adopted /\ ~Offline /\ ~inRecon
    /\ SendCompletion(i)
    /\ CheckChildrenFrame

CheckChildren == \E i \in 1 .. Len(list) : JobEnded(i) \/ AdoptedAgain(i)

\* The agent is restarted and adopts the jobs that still run.  Of the others
\* nothing is left.
AgentRestart ==
    /\ reboots < MaxReboots
    /\ reboots' = reboots + 1
    /\ asock' = "none" /\ inRecon' = FALSE
    /\ LET running == SelectSeq(list, LAMBDA e : e.pid = "run")
       IN  list' = [i \in 1 .. Len(running) |-> [running[i] EXCEPT !.adopted = TRUE]]
    /\ dsock' = IF asock = "live" THEN "dead" ELSE dsock
    /\ IF asock = "live" THEN toD' \in Prefixes(toD) ELSE UNCHANGED toD
    /\ toA' = <<>> /\ early' = <<>>
    /\ lost' = lost \cup {list[i].job : i \in {k \in 1 .. Len(list) : list[k].pid # "run"}}
                  \cup (Completions(toD) \ Completions(toD')) \cup Completions(early)
    /\ UNCHANGED <<job, logged, recon, cuts, restarts>>

-----------------------------------------------------------------------------
Daemon ==
    \/ HandleAgentConnection \/ HandleAgentDisconnect
    \/ AgentLogin \/ AgentRecon \/ AgentJobstart \/ AgentJobcompleted
    \/ \E j \in Jobs : StartJob(j)
Agent ==
    \/ Connectjers \/ DisconnectFromDaemon
    \/ StartCommand \/ ReconCommand \/ ReconComplete
    \/ CheckChildren

Next ==
    \/ Daemon \/ Agent
    \/ Cut \/ DaemonRestart \/ AgentRestart
    \/ \E j \in Jobs : RestartJob(j)

Spec == Init /\ [][Next]_vars

\* Both daemons run their loops, and jobs end.  The connection breaks and the
\* daemons restart only finitely often.
Fairness ==
    /\ WF_vars(HandleAgentConnection) /\ WF_vars(HandleAgentDisconnect)
    /\ WF_vars(AgentLogin) /\ WF_vars(AgentRecon)
    /\ WF_vars(AgentJobstart) /\ WF_vars(AgentJobcompleted)
    /\ \A j \in Jobs : WF_vars(StartJob(j))
    /\ WF_vars(Connectjers) /\ WF_vars(DisconnectFromDaemon)
    /\ WF_vars(StartCommand) /\ WF_vars(ReconCommand) /\ WF_vars(ReconComplete)
    /\ WF_vars(CheckChildren)

-----------------------------------------------------------------------------
(* Properties.                                                             *)

Count(s, P(_)) == Cardinality({i \in 1 .. Len(s) : P(s[i])})

\* Runs of job j: those the agent has, and the starts on their way to it.
Runs(j) ==
    Count(list, LAMBDA e : e.job = j /\ e.pid = "run")
    + Count(toA, LAMBDA m : m.type = "start_job" /\ m.job = j)

\* Types.  Only a live pair of sockets is live on both sides, and messages
\* wait for jersd only in a socket it has.
TypeOK ==
    /\ job \in [Jobs -> {"pending", "starting", "running", "unknown", "done"}]
    /\ dsock \in {"none", "live", "dead"} /\ asock \in {"none", "wait", "live", "dead"}
    /\ asock = "live" <=> dsock = "live"
    /\ \A i \in 1 .. Len(list) : list[i].job \in Jobs /\ list[i].pid \in Pids
    /\ toD # <<>> => dsock # "none"
    /\ early # <<>> => asock = "wait"
    /\ toA # <<>> => asock \in {"live", "dead"}

\* No job is ever run twice at the same time, and one that jersd shows as over
\* is over, whatever is lost or restarted: jersd starts nothing before the
\* agent has told what it still runs.  (checkJobs' test of a->recon,
\* command_agent_login, recon_command, command_agent_recon.)
NeverTwice == \A j \in Jobs : Runs(j) <= IF job[j] = "done" THEN 0 ELSE 1

\* The completion of a job that the agent kept is forgotten only after jersd
\* knows it.  (recon_command: "only when the master daemon confirms".)
CompletionsKept ==
    [][\A j \in Jobs :
          inRecon /\ ~inRecon' /\ job[j] \in {"running", "unknown"} =>
              Count(list, LAMBDA e : e.job = j /\ e.pid = "held")
                = Count(list', LAMBDA e : e.job = j /\ e.pid = "held")]_vars

\* A job that jersd believes to run, over a connection that is up and
\* reconciled, is one the agent has, or one whose end is on its way to jersd;
\* unless its completion was lost.
RunningAccounted ==
    dsock = "live" /\ logged /\ ~recon =>
        \A j \in Jobs : job[j] = "running" =>
            \/ \E i \in 1 .. Len(list) : list[i].job = j
            \/ j \in Completions(toD)
            \/ j \in lost

\* A job that jersd believes to run comes to an end in jersd's table too,
\* unless its completion was lost.
RunningEnds == \A j \in Jobs : job[j] = "running" ~> (job[j] # "running" \/ j \in lost)
=============================================================================
