------------------------------ MODULE MCAgent ------------------------------
(***************************************************************************)
(* The agent's two sides: its conversation with jersd (AgentLink) and the  *)
(* processes of its host (JobRun).  A behaviour exercises one of them, the *)
(* other stays as it was.                                                  *)
(***************************************************************************)
EXTENDS Naturals, FiniteSets, Sequences

CONSTANTS j1, j2, MaxCuts, MaxRestarts, MaxReboots, MaxCrashes

VARIABLES
    part, \* "link" or "host"
    job, dsock, logged, recon, asock, inRecon, list, toD, early, toA, lost, cuts, restarts,
    reboots,
    agent, entry, todo, trying, reported, phase, proc, killed, file, readers, inbox, conn,
    orphans, crashes

Link == INSTANCE AgentLink WITH Jobs <- {j1, j2}
Host == INSTANCE JobRun WITH Jobs <- {j1, j2}

linkVars == <<job, dsock, logged, recon, asock, inRecon, list, toD, early, toA, lost, cuts,
              restarts, reboots>>
hostVars == <<agent, entry, todo, trying, reported, phase, proc, killed, file, readers, inbox,
              conn, orphans, crashes>>
vars == <<part, linkVars, hostVars>>

Init == part \in {"link", "host"} /\ Link!Init /\ Host!Init

LinkStep == part = "link" /\ Link!Next /\ UNCHANGED <<part, hostVars>>
HostStep == part = "host" /\ Host!Next /\ UNCHANGED <<part, linkVars>>

Spec ==
    /\ Init /\ [][LinkStep \/ HostStep]_vars
    /\ (part = "link" /\ Link!Fairness) \/ (part = "host" /\ Host!Fairness)

\* See AgentLink: no job runs twice at once, none runs that jersd shows as over.
NeverTwice == Link!NeverTwice

\* See AgentLink: what jersd believes to run is with the agent or accounted for.
RunningAccounted == Link!RunningAccounted

\* See AgentLink: a job that jersd believes to run comes to an end.
RunningEnds == Link!RunningEnds

\* See JobRun: an agent that is up knows every wrapper that is still at work.
RunningKnown == Host!RunningKnown

\* See JobRun: a job that is reported as over has no process left.
NoPhantoms == Host!NoPhantoms

\* See JobRun: a child that exits well has left its completion.
ReapedIsReported == Host!ReapedIsReported

\* See JobRun: an agent comes up again.
AgentComesUp == Host!AgentComesUp

\* See JobRun: every job that was spawned is reported.
JobsReported == Host!JobsReported
=============================================================================
