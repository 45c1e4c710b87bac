---------------------------- MODULE MCConnections ----------------------------
(***************************************************************************)
(* Model of the connections of jersd: clients with the library (Clients),   *)
(* clients behind an agent (Proxy) and the login of an agent (Login).  They *)
(* share no state; a behaviour is one of one of them, chosen by part.       *)
(***************************************************************************)
EXTENDS Naturals, Sequences

CONSTANTS c1, p1    \* a client process, and one on an agent's host

VARIABLES
  part,
  rev, api, cli, sock, last,
  user, list, link, inRecon, toD, toA, dclient, overlap, gaveUp, cuts, restarts,
  secret, asecret, clock, conns, dsock, nonce, logged_in, recon, asock, anonce,
  in_recon, loginD, loginA, answered, refused

clientVars == <<rev, api, cli, sock, last>>
proxyVars ==
  <<user, list, link, inRecon, toD, toA, dclient, overlap, gaveUp, cuts, restarts>>
loginVars ==
  <<secret, asecret, clock, conns, dsock, nonce, logged_in, recon, asock, anonce,
    in_recon, loginD, loginA, answered, refused>>

Library ==
  INSTANCE Clients WITH Clients <- {c1}, Kinds <- {"get", "mod", "wait"},
    WaitTimeouts <- {"zero", "some", "never"}, PerConnection <- 2,
    MaxConnections <- 2, MaxRev <- 2, MaxUnread <- 2
Proxied ==
  INSTANCE Proxy WITH Pids <- {p1}, MaxConns <- 2, MaxCuts <- 2, MaxRestarts <- 1
Agents ==
  INSTANCE Login WITH toD <- loginD, toA <- loginA,
    MAX_AUTH_TIME <- 2, Skew <- 1, MaxClock <- 5, MaxConns <- 3

ASSUME AgentClocks == Agents!Clocks

Init ==
  /\ part \in {"library", "proxy", "login"}
  /\ Library!Init /\ Proxied!Init /\ Agents!Init
  /\ part # "login" => ~secret /\ ~asecret

LibraryStep ==
  part = "library" /\ Library!Next /\ UNCHANGED <<part, proxyVars, loginVars>>
ProxyStep ==
  part = "proxy" /\ Proxied!Next /\ UNCHANGED <<part, clientVars, loginVars>>
LoginStep ==
  part = "login" /\ Agents!Next /\ UNCHANGED <<part, clientVars, proxyVars>>

Next == LibraryStep \/ ProxyStep \/ LoginStep

vars == <<part, clientVars, proxyVars, loginVars>>

Spec ==
  /\ Init /\ [][Next]_vars
  /\ \/ part = "library" /\ Library!Fairness
     \/ part = "proxy" /\ Proxied!Fairness
     \/ part = "login" /\ Agents!Fairness

(* An answer the library returns is to the request it just made               *)
(* (sendRequest, readResponse, runCommand).                                   *)
AnswersMatch == Library!AnswersMatch

(* A wait with a timeout ends (command_wait_job, checkBlockingClientEvent).   *)
WaitEnds == Library!WaitEnds

(* A process behind an agent gets the answers to its own requests             *)
(* (command_agent_proxy, proxy_response).                                     *)
OwnAnswers == Proxied!OwnAnswers

(* A request made through an agent is answered or refused                     *)
(* (check_proxy_clients, handleProxyDisconnect).                              *)
RequestsEnd == Proxied!RequestsEnd

(* A login answers the challenge of its own connection, in time               *)
(* (command_agent_authresp).                                                  *)
LoginIsFresh == Agents!LoginIsFresh

(* An agent with jersd's secret is logged in and reconciled                   *)
(* (command_agent_login, auth_challenge, command_agent_recon).                *)
LoginEnds == Agents!LoginEnds
=============================================================================
