-------------------------------- MODULE Login --------------------------------
(***************************************************************************)
(* How a connecting agent logs in: connectjers and send_login, the login    *)
(* and authentication commands of jersd (command_agent.c) and the agent's   *)
(* answers auth_challenge and recon_command (jers_agentd.c).                *)
(*                                                                          *)
(* Time is counted in seconds on jersd's clock; the agent's clock is Skew   *)
(* seconds ahead.  A nonce is the number of the login or answer that made   *)
(* it.  An HMAC is the tuple of its inputs: both sides hash the same shared *)
(* secret, so the hashes agree exactly when the inputs do.                  *)
(***************************************************************************)
EXTENDS Naturals, Sequences

CONSTANTS
  MAX_AUTH_TIME,    \* tolerance for the agent's time, in seconds
  Skew,             \* seconds the agent's clock is ahead
  MaxClock,         \* bound: seconds that pass
  MaxConns          \* bound: connections the agent makes

VARIABLES
  secret,           \* server.secret: jersd has loaded the secret
  asecret,          \* agent.secret: so has the agent
  clock,            \* jersd's time(NULL)
  conns,            \* connections made so far
  dsock,            \* jersd has a connected socket for the agent
  nonce,            \* a->nonce, 0 when there is none
  logged_in, recon, \* a->logged_in and a->recon
  asock,            \* the agent's daemon_fd is open
  anonce,           \* agent.nonce
  in_recon,         \* agent.in_recon
  toD, toA,         \* messages in each direction
  answered,         \* history: what jersd checked when it let the agent in
  refused           \* history: jersd did not accept the answer on this connection

config == <<secret, asecret>>
history == <<answered, refused>>
vars == <<config, clock, conns, dsock, nonce, logged_in, recon, asock, anonce, in_recon, toD, toA,
          history>>

(* Times are numbers, and the agent's clock is not behind.                    *)
Clocks == MAX_AUTH_TIME \in Nat /\ Skew \in Nat

NoAnswer == [nonce |-> 0, datetime |-> 0, at |-> 0]

Init ==
  /\ secret \in BOOLEAN /\ asecret \in BOOLEAN
  /\ clock = 1 /\ conns = 0
  /\ dsock = FALSE /\ nonce = 0 /\ logged_in = FALSE /\ recon = FALSE
  /\ asock = FALSE /\ anonce = 0 /\ in_recon = FALSE
  /\ toD = <<>> /\ toA = <<>>
  /\ answered = NoAnswer /\ refused = FALSE

Tick ==
  /\ clock < MaxClock
  /\ clock' = clock + 1
  /\ UNCHANGED <<config, conns, dsock, nonce, logged_in, recon, asock, anonce, in_recon, toD, toA, history>>

(* connectjers, jersd's handleAgentConnection and send_login.  jersd accepts  *)
(* no second connection while it has one.                                     *)
Connectjers ==
  /\ ~asock /\ ~dsock /\ conns < MaxConns
  /\ conns' = conns + 1
  /\ asock' = TRUE /\ dsock' = TRUE /\ logged_in' = FALSE
  /\ toD' = <<[type |-> "login"]>> /\ toA' = <<>>
  /\ refused' = FALSE
  /\ UNCHANGED <<config, clock, nonce, recon, anonce, in_recon, answered>>

(* disconnectFromDaemon.                                                      *)
DisconnectFromDaemon ==
  /\ asock' = FALSE
  /\ toA' = <<>>
  /\ UNCHANGED <<config, clock, conns, dsock, nonce, logged_in, recon, anonce, in_recon, toD, history>>

(* The connection breaks for the agent.                                       *)
Cut == asock /\ DisconnectFromDaemon

(* handleAgentDisconnect, when jersd reads the end of file.                   *)
HandleAgentDisconnect ==
  /\ dsock /\ ~asock
  /\ dsock' = FALSE /\ logged_in' = FALSE /\ nonce' = 0
  /\ toD' = <<>>
  /\ UNCHANGED <<config, clock, conns, recon, asock, anonce, in_recon, toA, history>>

(* Messages only travel while the agent is connected.                         *)
Send(m) == toA' = IF asock THEN Append(toA, m) ELSE toA

(* command_agent_login: with a secret the agent is challenged with a new      *)
(* nonce; without one it is logged in and asked for its jobs.                 *)
CommandAgentLogin ==
  /\ dsock /\ toD # <<>> /\ Head(toD).type = "login"
  /\ toD' = Tail(toD)
  /\ \/ /\ secret
        /\ nonce' = conns
        /\ Send([type |-> "challenge", nonce |-> conns])
        /\ UNCHANGED <<logged_in, recon>>
     \/ /\ ~secret
        /\ logged_in' = TRUE /\ recon' = TRUE
        /\ Send([type |-> "recon", datetime |-> 0, hmac |-> <<>>])
        /\ UNCHANGED nonce
  /\ UNCHANGED <<config, clock, conns, dsock, asock, anonce, in_recon, history>>

(* auth_challenge: the agent loads the secret if it has not, makes a nonce of *)
(* its own and answers with its time and the HMAC of both nonces and the time.*)
AuthChallenge ==
  /\ asock /\ toA # <<>> /\ Head(toA).type = "challenge"
  /\ toA' = Tail(toA)
  /\ asecret' = TRUE
  /\ anonce' = conns
  /\ toD' = Append(toD, [type |-> "authresp", nonce |-> conns, datetime |-> clock + Skew,
                         hmac |-> <<Head(toA).nonce, conns, clock + Skew>>])
  /\ UNCHANGED <<secret, clock, conns, dsock, nonce, logged_in, recon, asock, in_recon, history>>

(* The tests of command_agent_authresp.                                       *)
TolerableMut(datetime) == datetime <= clock + MAX_AUTH_TIME
Tolerable(datetime) == datetime >= clock /\ datetime <= clock + MAX_AUTH_TIME

(* command_agent_authresp.  An answer that fails a test changes nothing:      *)
(* runAgentCommand returns 0 for every agent command, so the connection that  *)
(* the log says is dropped stays.                                             *)
CommandAgentAuthresp ==
  /\ dsock /\ toD # <<>> /\ Head(toD).type = "authresp"
  /\ toD' = Tail(toD)
  /\ LET m == Head(toD)
     IN \/ /\ Tolerable(m.datetime) /\ m.hmac = <<nonce, m.nonce, m.datetime>>
           /\ logged_in' = TRUE /\ recon' = TRUE
           /\ answered' = [nonce |-> m.hmac[1], datetime |-> m.datetime, at |-> clock]
           /\ Send([type |-> "recon", datetime |-> clock, hmac |-> <<m.nonce, clock>>])
           /\ UNCHANGED refused
        \/ /\ ~(Tolerable(m.datetime) /\ m.hmac = <<nonce, m.nonce, m.datetime>>)
           /\ refused' = TRUE
           /\ UNCHANGED <<logged_in, recon, answered, toA>>
  /\ UNCHANGED <<config, clock, conns, dsock, nonce, asock, anonce, in_recon>>

(* recon_command: an agent with a secret checks that jersd hashed its nonce   *)
(* before it lists its jobs; a failed check ends the connection.              *)
ReconCommand ==
  /\ asock /\ toA # <<>> /\ Head(toA).type = "recon"
  /\ LET m == Head(toA)
     IN \/ /\ ~asecret \/ m.hmac = <<anonce, m.datetime>>
           /\ in_recon' = TRUE
           /\ toA' = Tail(toA) /\ toD' = Append(toD, [type |-> "list"])
           /\ UNCHANGED <<config, clock, conns, dsock, nonce, logged_in, recon, asock, anonce, history>>
        \/ /\ asecret /\ m.hmac # <<anonce, m.datetime>>
           /\ DisconnectFromDaemon

CommandAgentReconMut ==
  /\ dsock /\ toD # <<>> /\ Head(toD).type = "list"
  /\ toD' = Tail(toD)
  /\ Send([type |-> "complete"])
  /\ UNCHANGED <<config, clock, conns, dsock, nonce, logged_in, recon, asock, anonce, in_recon, history>>

(* The end of command_agent_recon.                                            *)
CommandAgentRecon ==
  /\ dsock /\ toD # <<>> /\ Head(toD).type = "list"
  /\ toD' = Tail(toD)
  /\ recon' = FALSE
  /\ Send([type |-> "complete"])
  /\ UNCHANGED <<config, clock, conns, dsock, nonce, logged_in, asock, anonce, in_recon, history>>

(* recon_complete.                                                            *)
ReconComplete ==
  /\ asock /\ toA # <<>> /\ Head(toA).type = "complete"
  /\ toA' = Tail(toA)
  /\ in_recon' = FALSE
  /\ UNCHANGED <<config, clock, conns, dsock, nonce, logged_in, recon, asock, anonce, toD, history>>

Next ==
  \/ Tick \/ Connectjers \/ Cut \/ HandleAgentDisconnect
  \/ CommandAgentLogin \/ AuthChallenge \/ CommandAgentAuthresp
  \/ ReconCommand \/ CommandAgentRecon \/ ReconComplete

Spec == Init /\ [][Next]_vars

(* Both main loops keep running and the agent keeps trying to connect.        *)
Fairness ==
  /\ WF_vars(Connectjers) /\ WF_vars(HandleAgentDisconnect) /\ WF_vars(CommandAgentLogin)
  /\ WF_vars(AuthChallenge) /\ WF_vars(CommandAgentAuthresp) /\ WF_vars(ReconCommand)
  /\ WF_vars(CommandAgentRecon) /\ WF_vars(ReconComplete)

-----------------------------------------------------------------------------
ToD ==
  [type : {"login", "list"}] \cup
  [type : {"authresp"}, nonce : Nat, datetime : Nat, hmac : Nat \X Nat \X Nat]
ToA ==
  [type : {"challenge"}, nonce : Nat] \cup [type : {"complete"}] \cup
  [type : {"recon"}, datetime : Nat, hmac : Seq(Nat)]

TypeOK ==
  /\ clock \in Nat /\ conns \in Nat /\ nonce \in Nat /\ anonce \in Nat
  /\ {secret, asecret, dsock, logged_in, recon, asock, in_recon, refused} \subseteq BOOLEAN
  /\ toD \in Seq(ToD) /\ toA \in Seq(ToA)
  /\ answered \in [nonce : Nat, datetime : Nat, at : Nat]

(* Why LoginIsFresh holds: the agent is connected only to a jersd that knows  *)
(* it, nothing is left over from a connection that ended, and a challenge or  *)
(* an answer to one is about the nonce that jersd has now.                    *)
OnThisConnection ==
  /\ asock => dsock
  /\ ~asock => toA = <<>>
  /\ ~dsock => ~logged_in /\ toD = <<>>
  /\ secret => \A i \in 1..Len(toA) : toA[i].type = "challenge" => nonce = conns
  /\ secret => \A i \in 1..Len(toD) : toD[i].type = "authresp" => nonce = conns

(* With a secret, an agent that is logged in answered the challenge of this   *)
(* very connection, with a time that was acceptable when jersd checked it.    *)
(* An answer, or a login, of an earlier connection never counts.              *)
LoginIsFresh ==
  secret /\ logged_in =>
    /\ answered.nonce = conns /\ nonce = conns
    /\ answered.datetime \in answered.at..(answered.at + MAX_AUTH_TIME)

(* An agent that connects is logged in with its jobs reconciled, or the       *)
(* connection ends: a->recon is never left set, which would keep the queues   *)
(* of the agent stopped.  The exception is an answer that jersd refuses: it   *)
(* only logs that, and the connection stays as it is.                         *)
LoginEnds == asock ~> ((logged_in /\ ~recon) \/ ~asock \/ refused)
=============================================================================
