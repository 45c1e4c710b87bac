------------------------------- MODULE Clients -------------------------------
(***************************************************************************)
(* Client connections of jersd: the calls of the client library (api.c),    *)
(* the connection handlers (client.c), the event that runs requests and the *)
(* event that looks at blocked clients (event.c), the dispatcher and the    *)
(* replies (commands.c) and the blocking command WAIT_JOB (command_job.c).  *)
(*                                                                          *)
(* One job is watched.  Its revision `rev' changes with every update and is *)
(* 0 once the job has been removed.  A request is its number on its         *)
(* connection, its kind and, for WAIT_JOB, the revision and timeout given.  *)
(* A reply carries the number of the request it answers, which the protocol *)
(* on the wire does not: the library takes the replies as they come.        *)
(***************************************************************************)
EXTENDS Naturals, Sequences

CONSTANTS
  Clients,          \* client processes
  Kinds,            \* requests they make: a subset of {"get", "mod", "wait"}
  WaitTimeouts,     \* timeouts they give to WAIT_JOB: {"zero", "some", "never"}
  PerConnection,    \* bound: requests on one connection
  MaxConnections,   \* bound: connections made by one client
  MaxRev,           \* bound: updates of the job
  MaxUnread         \* bound: replies on their way to one client

VARIABLES
  rev,              \* revision of the watched job, 0 when removed
  api,              \* api[c]: the library's side of c
  cli,              \* cli[c]: jersd's struct client for c
  sock,             \* sock[c]: replies in c->response and the socket
  last              \* last[c]: outcome of the last call that read a reply

vars == <<rev, api, cli, sock, last>>

NoRequest == [n |-> 0, kind |-> "none", rev |-> 0, timeout |-> "zero"]
MaxRequests == PerConnection * MaxConnections

Requests ==
  {NoRequest} \cup
  [n : 1..MaxRequests, kind : Kinds, rev : 0..MaxRev, timeout : {"zero", "some", "never"}]

Replies == [n : 1..MaxRequests, code : {"ok", "timeout", "error"}]
Reply(n, code) == [n |-> n, code |-> code]

NoAnswer == [request |-> NoRequest, n |-> 0, code |-> "ok", rev |-> 0]

(* api.c: fd, the request a call is waiting on and the bytes `response' that *)
(* were read and not used yet.  (gaveUp is history: a call returned without  *)
(* its reply.)                                                              *)
Closed(made, sent) ==
  [open |-> FALSE, made |-> made, sent |-> sent, here |-> 0, call |-> NoRequest, held |-> <<>>,
   gaveUp |-> FALSE]

(* client.h: the unprocessed requests and the blocking fields.              *)
NoClient == [known |-> FALSE, eof |-> FALSE, request |-> <<>>, blocking |-> NoRequest,
             deadline |-> "none"]

Init ==
  /\ rev = 1
  /\ api = [c \in Clients |-> Closed(0, 0)]
  /\ cli = [c \in Clients |-> NoClient]
  /\ sock = [c \in Clients |-> <<>>]
  /\ last = [c \in Clients |-> NoAnswer]

-----------------------------------------------------------------------------
(* The client library.                                                       *)

(* jersInitAPI, jersConnect and jersd's handleClientConnection: a zeroed      *)
(* struct client is added for the accepted socket.                            *)
JersInitAPI(c) ==
  /\ ~api[c].open /\ ~cli[c].known /\ api[c].made < MaxConnections
  /\ api' = [api EXCEPT ![c] = [Closed(@.made + 1, @.sent) EXCEPT !.open = TRUE]]
  /\ cli' = [cli EXCEPT ![c] = [NoClient EXCEPT !.known = TRUE]]
  /\ UNCHANGED <<rev, sock, last>>

(* jersFinish, or the end of the client program.  What was on its way to the  *)
(* client is dropped with the socket.                                         *)
JersFinish(c) ==
  /\ api[c].open
  /\ api' = [api EXCEPT ![c] = Closed(@.made, @.sent)]
  /\ cli' = [cli EXCEPT ![c].eof = TRUE]
  /\ sock' = [sock EXCEPT ![c] = <<>>]
  /\ last' = [last EXCEPT ![c] = NoAnswer]
  /\ UNCHANGED rev

(* sendRequest writes the whole request; then the call waits in readResponse. *)
SendRequest(c, kind, r, t) ==
  LET q == [n |-> api[c].sent + 1, kind |-> kind, rev |-> r, timeout |-> t]
  IN /\ api[c].open /\ api[c].call = NoRequest /\ api[c].here < PerConnection
     /\ kind \in Kinds
     /\ api' = [api EXCEPT ![c].call = q, ![c].sent = q.n, ![c].here = @ + 1]
     /\ cli' = IF cli[c].known THEN [cli EXCEPT ![c].request = Append(@, q)] ELSE cli
     /\ UNCHANGED <<rev, sock, last>>

JersGetJob(c) == SendRequest(c, "get", 0, "zero")
JersModJob(c) == SendRequest(c, "mod", 0, "zero")

(* A client waits for a change from a revision it has seen, or from 0, "the   *)
(* current one".                                                              *)
JersWaitJob(c) ==
  \E t \in WaitTimeouts, r \in {0, rev} : SendRequest(c, "wait", r, t)

(* readResponse: recv comes first, whatever is already held; it returns one   *)
(* or more of the replies.  The first of all the bytes is the call's answer   *)
(* and the rest is kept for the next call.  (A reply that can be held is the  *)
(* return code of a wait, the shortest there is, so the search for the end of *)
(* line over the newly read bytes finds its end.)                             *)
ReadResponse(c) ==
  /\ api[c].call # NoRequest /\ sock[c] # <<>>
  /\ \E k \in 1..Len(sock[c]) :
       LET all == api[c].held \o SubSeq(sock[c], 1, k)
           m == Head(all)
       IN /\ last' = [last EXCEPT ![c] = [request |-> api[c].call, n |-> m.n,
                                          code |-> m.code, rev |-> rev]]
          /\ api' = [api EXCEPT ![c].call = NoRequest, ![c].held = Tail(all)]
          /\ sock' = [sock EXCEPT ![c] = SubSeq(@, k + 1, Len(@))]
  /\ UNCHANGED <<rev, cli>>

(* recv fails with EAGAIN after SO_RCVTIMEO: the call returns JERS_ERR_ERECV. *)
(* jersWaitJob disables the timeout.                                          *)
RecvTimeout(c) ==
  /\ api[c].call.kind \in {"get", "mod"} /\ sock[c] = <<>>
  /\ api' = [api EXCEPT ![c].call = NoRequest, ![c].gaveUp = TRUE]
  /\ UNCHANGED <<rev, cli, sock, last>>

-----------------------------------------------------------------------------
(* jersd.                                                                     *)

(* _sendMessage adds the reply to c->response and asks for EPOLLOUT, and      *)
(* handleClientWrite sends it; a client that is gone never reads it.          *)
SendMessage(c, m) ==
  sock' = IF cli[c].eof THEN sock ELSE [sock EXCEPT ![c] = Append(@, m)]

(* command_wait_job.  The job is found or not; a changed revision or a zero   *)
(* timeout is answered now; otherwise the client is blocked.  The deadline is *)
(* only assigned when the timeout is positive.                                *)
CommandWaitJob(c, q) ==
  LET code == IF rev = 0 THEN "error"
              ELSE IF q.rev # 0 /\ q.rev # rev THEN "ok"
              ELSE IF q.timeout = "zero" THEN "error" ELSE "none"
  IN IF code # "none"
     THEN /\ SendMessage(c, Reply(q.n, code))
          /\ cli' = [cli EXCEPT ![c].request = Tail(@)]
     ELSE /\ sock' = sock
          /\ cli' = [cli EXCEPT ![c].request = Tail(@),
                                ![c].blocking = [q EXCEPT !.rev = rev],
                                ![c].deadline = IF q.timeout = "some" THEN "set" ELSE @]

(* command_get_job and the other commands that only reply; command_mod_job    *)
(* and the others that change the job's revision.                             *)
CommandGetJob(c, q) ==
  /\ SendMessage(c, Reply(q.n, "ok"))
  /\ UNCHANGED rev

CommandModJob(c, q) ==
  /\ rev' = IF rev \in 1..(MaxRev - 1) THEN rev + 1 ELSE rev
  /\ SendMessage(c, Reply(q.n, IF rev = 0 THEN "error" ELSE "ok"))

UsedMut(c, q) == IF q.kind = "get" THEN cli ELSE [cli EXCEPT ![c].request = Tail(@)]

(* The bytes of the request are removed from the request buffer.              *)
Used(c, q) == [cli EXCEPT ![c].request = Tail(@)]

(* checkClientEvent and runCommand: one request of each client per pass.      *)
RunCommand(c) ==
  /\ cli[c].known /\ cli[c].request # <<>> /\ Len(sock[c]) < MaxUnread
  /\ LET q == Head(cli[c].request)
     IN \/ /\ q.kind = "wait" /\ CommandWaitJob(c, q)
           /\ UNCHANGED rev
        \/ /\ q.kind = "get" /\ CommandGetJob(c, q)
           /\ cli' = Used(c, q)
        \/ /\ q.kind = "mod" /\ CommandModJob(c, q)
           /\ cli' = Used(c, q)
  /\ UNCHANGED <<api, last>>

CheckBlockingMut(c) ==
  /\ cli[c].known /\ cli[c].blocking # NoRequest /\ Len(sock[c]) < MaxUnread
  /\ \/ /\ cli[c].deadline = "passed"
        /\ SendMessage(c, Reply(cli[c].blocking.n, "timeout"))
     \/ /\ cli[c].deadline # "passed"
        /\ rev # 0 /\ rev # cli[c].blocking.rev
        /\ SendMessage(c, Reply(cli[c].blocking.n, "ok"))
  /\ UNCHANGED <<rev, api, cli, last>>

(* checkBlockingClientEvent with command_wait_job_callback and                *)
(* command_wait_job_timeout.  Nothing unblocks the client: the blocking       *)
(* fields stay as they are after the answer.                                  *)
CheckBlocking(c) ==
  /\ cli[c].known /\ cli[c].blocking # NoRequest /\ Len(sock[c]) < MaxUnread
  /\ \/ /\ cli[c].deadline = "passed"
        /\ SendMessage(c, Reply(cli[c].blocking.n, "timeout"))
     \/ /\ cli[c].deadline # "passed"
        /\ rev # cli[c].blocking.rev
        /\ SendMessage(c, Reply(cli[c].blocking.n, "ok"))
  /\ UNCHANGED <<rev, api, cli, last>>

DeadlinePasses(c) ==
  /\ cli[c].deadline = "set"
  /\ cli' = [cli EXCEPT ![c].deadline = "passed"]
  /\ UNCHANGED <<rev, api, sock, last>>

(* handleClientRead reads the end of file and handleClientDisconnect frees    *)
(* the blocking data, the buffers and the client: its memory keeps its        *)
(* contents, but the client is no longer in the list.                         *)
HandleClientDisconnect(c) ==
  /\ cli[c].known /\ cli[c].eof
  /\ cli' = [cli EXCEPT ![c].known = FALSE, ![c].request = <<>>]
  /\ UNCHANGED <<rev, api, sock, last>>

(* updateObject of the job by the scheduler, an agent or another client, and  *)
(* cleanupJob once the job has been deleted.                                  *)
JobChanges ==
  /\ rev # 0
  /\ rev' \in (IF rev < MaxRev THEN {0, rev + 1} ELSE {0})
  /\ UNCHANGED <<api, cli, sock, last>>

Next ==
  \/ \E c \in Clients :
       \/ JersInitAPI(c) \/ JersFinish(c) \/ ReadResponse(c)
       \/ JersGetJob(c) \/ JersModJob(c) \/ JersWaitJob(c)
       \/ RecvTimeout(c) \/ RunCommand(c) \/ CheckBlocking(c) \/ DeadlinePasses(c)
       \/ HandleClientDisconnect(c)
  \/ JobChanges

Spec == Init /\ [][Next]_vars

(* The events of jersd's loop run for ever, time passes, and a call blocked   *)
(* in recv returns when there is something to read.                           *)
Fairness ==
  /\ \A c \in Clients :
       /\ WF_vars(RunCommand(c)) /\ WF_vars(CheckBlocking(c))
       /\ WF_vars(DeadlinePasses(c)) /\ WF_vars(ReadResponse(c))

-----------------------------------------------------------------------------
TypeOK ==
  /\ rev \in 0..MaxRev
  /\ \A c \in Clients :
       /\ api[c].call \in Requests /\ api[c].held \in Seq(Replies)
       /\ cli[c].request \in Seq(Requests) /\ cli[c].blocking \in Requests
       /\ cli[c].deadline \in {"none", "set", "passed"}
       /\ sock[c] \in Seq(Replies)

(* Every call gets the answer to its own request.  Replies carry no number on *)
(* the wire, so this rests on exactly one reply per request, in order, and on *)
(* nothing of an earlier connection reaching a later one.  It fails only      *)
(* after a call of this connection gave up on its reply (readResponse's       *)
(* JERS_ERR_ERECV leaves the reply to the next call) or a WAIT_JOB of it was  *)
(* blocked (nothing unblocks the client, which is answered again and again).  *)
AnswersMatch ==
  \A c \in Clients :
    last[c].n # last[c].request.n =>
      api[c].gaveUp \/ cli[c].blocking # NoRequest

(* A client blocked in WAIT_JOB is answered once the job changes, is removed  *)
(* or the timeout passes, unless it goes away first.                          *)
WaitEnds ==
  \A c \in Clients :
    (/\ cli[c].known /\ cli[c].blocking # NoRequest
     /\ cli[c].blocking.n = api[c].call.n
     /\ (rev # cli[c].blocking.rev \/ cli[c].blocking.timeout = "some"))
      ~> (api[c].call = NoRequest)
=============================================================================
