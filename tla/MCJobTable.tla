----------------------------- MODULE MCJobTable -----------------------------
(* JobTable for TLC: the requests clients send in each run. *)
EXTENDS JobTable, TLC

MCUnlimited == Unlimited
MCOneEach == [r \in Resources |-> 1]

\* A job's needs of every resource: n units, in entries of one unit.
Units(n) == [r \in Resources |-> [total |-> n, largest |-> IF n = 0 THEN 0 ELSE 1]]

Add == [jobid |-> 0, queue |-> DefaultQueue, defer |-> 0, hold |-> FALSE,
        prio |-> 0, res |-> NoNeeds]
Mod == [restart |-> FALSE, defer |-> Unset, hold |-> Unset, queue |-> NoQueue,
        prio |-> Unset, res |-> Unset]
Restart == [Mod EXCEPT !.restart = TRUE]
Queue == [state |-> Unset, limit |-> Unset, prio |-> Unset, host |-> Unset]
StartQueue == [Queue EXCEPT !.state = {"open", "started"}]

\* Run events: jobs pending, held, deferred or with an id asked for; deferred
\* anew, released.
EventAdd == {Add, [Add EXCEPT !.defer = 2], [Add EXCEPT !.hold = TRUE],
             [Add EXCEPT !.jobid = 1]}
EventMod == {[Mod EXCEPT !.defer = 2], [Mod EXCEPT !.hold = FALSE]}
NoQueueArgs == {}

\* Run link: a queue started on either of two agents, jobs deferred and restarted.
AgentSymmetry == Permutations(Agents)
LinkAdd == {Add, [Add EXCEPT !.defer = 1]}
LinkMod == {Restart}
LinkQueue == {[StartQueue EXCEPT !.host = a] : a \in Agents}

\* Run limits: jobs that need a resource, restarted on another queue.
LimitAdd == {[Add EXCEPT !.res = Units(1)]}
LimitMod == {[Restart EXCEPT !.queue = q] : q \in Queues \ {DefaultQueue}}
OpenQueues == {StartQueue}

\* Run slots: a plain job, which an agent that goes away was asked to start.
PlainAdd == {Add}
NoMod == {}
=============================================================================
