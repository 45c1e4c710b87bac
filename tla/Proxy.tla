-------------------------------- MODULE Proxy --------------------------------
(***************************************************************************)
(* Clients on an agent's host that reach jersd through jers_agentd: the     *)
(* proxy connections of the agent (proxy.c and the proxy part of            *)
(* jers_agentd.c), the messages that carry them over the agent's connection *)
(* and jersd's proxied clients (command_agent.c, _sendMessage).             *)
(*                                                                          *)
(* Both sides name a proxied client by the process id of the client.  The   *)
(* model names a connection by its process and a number k, which neither    *)
(* side sends, and a client makes one request on each of its connections.   *)
(***************************************************************************)
EXTENDS Naturals, Sequences, SequencesExt

CONSTANTS
  Pids,             \* client processes on the agent's host
  MaxConns,         \* bound: connections made by one process
  MaxCuts,          \* bound: losses of the connection between agent and jersd
  MaxRestarts       \* bound: restarts of jersd

VARIABLES
  user,             \* user[p]: the client process
  list,             \* proxyClientList, head first
  link,             \* the agent's connection: "down", "login" or "ready"
  inRecon,          \* agent.in_recon
  toD,              \* agent.responses and what is on its way to jersd
  toA,              \* messages on their way to the agent
  dclient,          \* dclient[p]: the requests held by jersd's client, or NoClient
  overlap,          \* history: processes that connected before the agent had
                    \* cleaned up an earlier connection of theirs
  gaveUp,           \* history: processes that closed a connection on which they
                    \* still waited
  cuts, restarts

vars == <<user, list, link, inRecon, toD, toA, dclient, overlap, gaveUp, cuts, restarts>>

NoClient == <<0>>

Users == [k : 0..MaxConns, open : BOOLEAN, waits : BOOLEAN, error : BOOLEAN, answer : 0..MaxConns]
ProxyClients == [pid : Pids, k : 1..MaxConns, connect_sent : BOOLEAN, error : BOOLEAN,
                 clean_up : BOOLEAN, request : BOOLEAN]
Messages == [type : {"conn", "data", "close"}, pid : Pids, k : 1..MaxConns]
Message(type, c) == [type |-> type, pid |-> c.pid, k |-> c.k]

Init ==
  /\ user = [p \in Pids |-> [k |-> 0, open |-> FALSE, waits |-> FALSE, error |-> FALSE, answer |-> 0]]
  /\ list = <<>>
  /\ link = "ready" /\ inRecon = FALSE
  /\ toD = <<>> /\ toA = <<>>
  /\ dclient = [p \in Pids |-> NoClient]
  /\ overlap = {} /\ gaveUp = {} /\ cuts = 0 /\ restarts = 0

-----------------------------------------------------------------------------
(* The client process and the agent's side of its connection.                *)

(* jersConnect to the proxy socket and handleClientProxyConnection: the new   *)
(* client goes to the head of the list.                                       *)
HandleClientProxyConnection(p) ==
  /\ ~user[p].open /\ user[p].k < MaxConns
  /\ user' = [user EXCEPT ![p] = [k |-> @.k + 1, open |-> TRUE, waits |-> FALSE, error |-> FALSE, answer |-> 0]]
  /\ list' = <<[pid |-> p, k |-> user[p].k + 1, connect_sent |-> FALSE, error |-> FALSE,
                clean_up |-> FALSE, request |-> FALSE]>> \o list
  /\ overlap' = IF \E c \in Range(list) : c.pid = p THEN overlap \cup {p} ELSE overlap
  /\ UNCHANGED <<link, inRecon, toD, toA, dclient, gaveUp, cuts, restarts>>

(* The client sends its request; handleClientProxyRead keeps it in c->request.*)
HandleClientProxyRead(p) ==
  /\ user[p].open /\ ~user[p].waits /\ ~user[p].error /\ user[p].answer = 0
  /\ \E i \in DOMAIN list :
       /\ list[i].pid = p /\ list[i].k = user[p].k
       /\ list' = [list EXCEPT ![i].request = TRUE]
  /\ user' = [user EXCEPT ![p].waits = TRUE]
  /\ UNCHANGED <<link, inRecon, toD, toA, dclient, overlap, gaveUp, cuts, restarts>>

(* The client closes its end: with its answer, after its own timeout or when  *)
(* it is interrupted.                                                         *)
ClientCloses(p) ==
  /\ user[p].open
  /\ user' = [user EXCEPT ![p].open = FALSE, ![p].waits = FALSE]
  /\ gaveUp' = IF user[p].waits THEN gaveUp \cup {p} ELSE gaveUp
  /\ UNCHANGED <<list, link, inRecon, toD, toA, dclient, overlap, cuts, restarts>>

(* handleClientProxyRead finds the end of file: handleClientProxyDisconnect   *)
(* frees the buffers and leaves the rest to check_proxy_clients.              *)
HandleClientProxyDisconnect(i) ==
  /\ ~list[i].clean_up
  /\ user[list[i].pid].k # list[i].k \/ ~user[list[i].pid].open
  /\ list' = [list EXCEPT ![i].clean_up = TRUE, ![i].request = FALSE]
  /\ UNCHANGED <<user, link, inRecon, toD, toA, dclient, overlap, gaveUp, cuts, restarts>>

-----------------------------------------------------------------------------
(* check_proxy_clients: one pass over the list, from its head.               *)

(* proxy_cleanup announces the end when there is a connection; an error was   *)
(* answered already; a connect message precedes the data.  Data of a client   *)
(* whose connect was sent is queued also when there is no connection.         *)
SentForMut(c) ==
  IF c.clean_up THEN (IF link # "down" THEN <<Message("close", c)>> ELSE <<>>)
  ELSE IF c.error \/ (~c.connect_sent /\ (link = "down" \/ inRecon)) THEN <<>>
  ELSE (IF c.request THEN <<Message("data", c)>> ELSE <<>>)
       \o (IF c.connect_sent THEN <<>> ELSE <<Message("conn", c)>>)

SentFor(c) ==
  IF c.clean_up THEN (IF link # "down" THEN <<Message("close", c)>> ELSE <<>>)
  ELSE IF c.error \/ (~c.connect_sent /\ (link = "down" \/ inRecon)) THEN <<>>
  ELSE (IF c.connect_sent THEN <<>> ELSE <<Message("conn", c)>>)
       \o (IF c.request THEN <<Message("data", c)>> ELSE <<>>)

(* The client gets JERS_ERR_NOTCONN instead of a connection to jersd.         *)
Refused(c) == ~c.clean_up /\ ~c.error /\ ~c.connect_sent /\ (link = "down" \/ inRecon)

CheckProxyClients ==
  /\ \E c \in Range(list) : c.clean_up \/ Refused(c) \/ SentFor(c) # <<>>
  /\ toD' = toD \o FlattenSeq([i \in DOMAIN list |-> SentFor(list[i])])
  /\ list' = [i \in DOMAIN SelectSeq(list, LAMBDA c : ~c.clean_up) |->
                LET c == SelectSeq(list, LAMBDA d : ~d.clean_up)[i]
                IN [c EXCEPT !.error = @ \/ Refused(c),
                             !.connect_sent = @ \/ SentFor(c) # <<>>,
                             !.request = @ /\ SentFor(c) = <<>>]]
  /\ user' = [p \in Pids |->
                IF user[p].open /\ \E c \in Range(list) : c.pid = p /\ c.k = user[p].k /\ Refused(c)
                THEN [user[p] EXCEPT !.error = TRUE, !.waits = FALSE] ELSE user[p]]
  /\ UNCHANGED <<link, inRecon, toA, dclient, overlap, gaveUp, cuts, restarts>>

(* proxy_response: the data goes to the first client of the list with the     *)
(* process id; on a connection that is being cleaned up it goes nowhere.      *)
ProxyResponse ==
  /\ toA # <<>>
  /\ LET m == Head(toA)
         found == SelectSeq(list, LAMBDA c : c.pid = m.pid)
         c == Head(found)
     IN user' = IF found # <<>> /\ ~c.clean_up /\ user[m.pid].open /\ user[m.pid].k = c.k
                THEN [user EXCEPT ![m.pid].answer = m.k, ![m.pid].waits = FALSE] ELSE user
  /\ toA' = Tail(toA)
  /\ UNCHANGED <<list, link, inRecon, toD, dclient, overlap, gaveUp, cuts, restarts>>

-----------------------------------------------------------------------------
(* jersd: command_agent_proxyconn, command_agent_proxydata and               *)
(* command_agent_proxyclose, run for the messages in order.                  *)

Taken(type) ==
  /\ toD # <<>> /\ link # "down" /\ Head(toD).type = type
  /\ toD' = Tail(toD)
  /\ UNCHANGED <<user, list, link, inRecon, toA, overlap, gaveUp, cuts, restarts>>

(* A connect replaces a client with the same process id.                      *)
CommandAgentProxyconn ==
  /\ Taken("conn")
  /\ dclient' = [dclient EXCEPT ![Head(toD).pid] = <<>>]

(* Data is added to the client's request.  Data and closes for a client that  *)
(* is not known are dropped.                                                  *)
CommandAgentProxydata ==
  /\ Taken("data")
  /\ dclient' = [dclient EXCEPT ![Head(toD).pid] =
                   IF @ = NoClient THEN @ ELSE Append(@, Head(toD).k)]

CommandAgentProxyclose ==
  /\ Taken("close")
  /\ dclient' = [dclient EXCEPT ![Head(toD).pid] = NoClient]

CommandAgentProxy ==
  CommandAgentProxyconn \/ CommandAgentProxydata \/ CommandAgentProxyclose

RunRequestMut(p) ==
  /\ dclient[p] \notin {NoClient, <<>>}
  /\ toA' = IF link = "down" THEN toA
            ELSE toA \o [i \in 1..2 |-> [type |-> "data", pid |-> p, k |-> Head(dclient[p])]]
  /\ dclient' = [dclient EXCEPT ![p] = Tail(@)]
  /\ UNCHANGED <<user, list, link, inRecon, toD, overlap, gaveUp, cuts, restarts>>

(* checkClientEvent runs the request and _sendMessage wraps the reply for the *)
(* agent; without a connection it is put in a buffer that the next connection *)
(* replaces.                                                                  *)
RunRequest(p) ==
  /\ dclient[p] \notin {NoClient, <<>>}
  /\ toA' = IF link = "down" THEN toA
            ELSE Append(toA, [type |-> "data", pid |-> p, k |-> Head(dclient[p])])
  /\ dclient' = [dclient EXCEPT ![p] = Tail(@)]
  /\ UNCHANGED <<user, list, link, inRecon, toD, overlap, gaveUp, cuts, restarts>>

-----------------------------------------------------------------------------
(* The connection between agent and jersd.                                   *)

(* disconnectFromDaemon and handleAgentDisconnect: what either side had to    *)
(* send is dropped; jersd keeps the proxied clients.                          *)
Cut ==
  /\ link # "down" /\ cuts < MaxCuts
  /\ link' = "down" /\ cuts' = cuts + 1
  /\ toD' = <<>> /\ toA' = <<>>
  /\ UNCHANGED <<user, list, inRecon, dclient, overlap, gaveUp, restarts>>

(* jersd ends and starts again: it knows no clients.                          *)
DaemonRestart ==
  /\ restarts < MaxRestarts
  /\ link' = "down" /\ restarts' = restarts + 1
  /\ dclient' = [p \in Pids |-> NoClient]
  /\ toD' = (IF link = "down" THEN toD ELSE <<>>) /\ toA' = <<>>
  /\ UNCHANGED <<user, list, inRecon, overlap, gaveUp, cuts>>

Connectjers ==
  /\ link = "down"
  /\ link' = "login"
  /\ UNCHANGED <<user, list, inRecon, toD, toA, dclient, overlap, gaveUp, cuts, restarts>>

(* recon_command and recon_complete.                                          *)
Recon ==
  /\ link = "login"
  /\ \/ ~inRecon /\ inRecon' = TRUE /\ UNCHANGED link
     \/ inRecon /\ inRecon' = FALSE /\ link' = "ready"
  /\ UNCHANGED <<user, list, toD, toA, dclient, overlap, gaveUp, cuts, restarts>>

Next ==
  \/ \E p \in Pids : \/ HandleClientProxyConnection(p) \/ HandleClientProxyRead(p)
                     \/ ClientCloses(p) \/ RunRequest(p)
  \/ \E i \in DOMAIN list : HandleClientProxyDisconnect(i)
  \/ CheckProxyClients \/ ProxyResponse \/ CommandAgentProxy
  \/ Cut \/ DaemonRestart \/ Connectjers \/ Recon

Spec == Init /\ [][Next]_vars

(* Both main loops keep running and the agent reconnects.                     *)
Fairness ==
  /\ \A p \in Pids : WF_vars(RunRequest(p))
  /\ WF_vars(CheckProxyClients) /\ WF_vars(ProxyResponse) /\ WF_vars(CommandAgentProxy)
  /\ WF_vars(Connectjers) /\ WF_vars(Recon)

-----------------------------------------------------------------------------
TypeOK ==
  /\ user \in [Pids -> Users]
  /\ list \in Seq(ProxyClients)
  /\ link \in {"down", "login", "ready"} /\ inRecon \in BOOLEAN
  /\ toD \in Seq(Messages) /\ toA \in Seq(Messages)
  /\ \A p \in Pids : dclient[p] = NoClient \/ dclient[p] \in Seq(1..MaxConns)

(* A client reads only the answer to the request of its own connection,       *)
(* whatever is lost or restarted, unless its process gave up an earlier       *)
(* request: both sides know a connection by the process id alone.             *)
OwnAnswers == \A p \in Pids : p \notin gaveUp => user[p].answer \in {0, user[p].k}

(* A client that waits gets an answer or an error, or goes away; unless the   *)
(* connection between agent and jersd was lost, or the process connected      *)
(* again before its old connection was cleaned up: the list is worked from    *)
(* its head, so the new connect goes out before the old close, and jersd      *)
(* drops the new client with the old.                                         *)
RequestsEnd ==
  \A p \in Pids : user[p].waits ~> (~user[p].waits \/ p \in overlap \/ cuts + restarts > 0)
=============================================================================
