---------------------------- MODULE Login_proofs ----------------------------
(***************************************************************************)
(* A login answers the challenge of its own connection, for every number of *)
(* connections, tolerance and difference between the clocks.                *)
(***************************************************************************)
EXTENDS Login, TLAPS

IInv == TypeOK /\ OnThisConnection /\ LoginIsFresh

(* Taking a message off a queue, or adding one, keeps what is known of the    *)
(* messages that stay.                                                        *)
LEMMA TailMessages ==
  ASSUME NEW S, NEW q \in Seq(S), q # <<>>
  PROVE  /\ Tail(q) \in Seq(S)
         /\ \A i \in 1..Len(Tail(q)) : i + 1 \in 1..Len(q) /\ Tail(q)[i] = q[i + 1]
  OBVIOUS

LEMMA AppendMessages ==
  ASSUME NEW S, NEW q \in Seq(S), NEW m \in S
  PROVE  /\ Append(q, m) \in Seq(S)
         /\ \A i \in 1..Len(Append(q, m)) :
              Append(q, m)[i] = m \/ (i \in 1..Len(q) /\ Append(q, m)[i] = q[i])
  OBVIOUS

LEMMA NoMessages ==
  ASSUME NEW S
  PROVE  <<>> \in Seq(S) /\ \A i \in 1..Len(<<>>) : FALSE
  OBVIOUS

LEMMA Kinds ==
  /\ [type |-> "login"] \in ToD /\ [type |-> "list"] \in ToD
  /\ [type |-> "complete"] \in ToA
  /\ \A n \in Nat : [type |-> "challenge", nonce |-> n] \in ToA
  /\ \A t \in Nat : \A h \in Seq(Nat) : [type |-> "recon", datetime |-> t, hmac |-> h] \in ToA
  /\ \A n, t \in Nat : \A h \in Nat \X Nat \X Nat :
       [type |-> "authresp", nonce |-> n, datetime |-> t, hmac |-> h] \in ToD
  BY DEF ToD, ToA

LEMMA AnswerFields ==
  \A m \in ToD : m.type = "authresp" => m.nonce \in Nat /\ m.datetime \in Nat
  BY DEF ToD

LEMMA ChallengeFields ==
  \A m \in ToA : m.type = "challenge" => m.nonce \in Nat
  BY DEF ToA

(* What Send leaves in the queue to the agent.                                *)
LEMMA Sent ==
  ASSUME TypeOK, NEW m \in ToA, Send(m)
  PROVE  /\ toA' \in Seq(ToA)
         /\ ~asock => toA' = toA
         /\ \A i \in 1..Len(toA') : toA'[i] = m \/ (i \in 1..Len(toA) /\ toA'[i] = toA[i])
<1>1. toA \in Seq(ToA) /\ asock \in BOOLEAN
  BY DEF TypeOK
<1>2. CASE asock
  BY <1>1, <1>2, AppendMessages DEF Send
<1>3. CASE ~asock
  BY <1>1, <1>3 DEF Send
<1>. QED BY <1>1, <1>2, <1>3

LEMMA LoginKeeps ==
  ASSUME IInv, CommandAgentLogin
  PROVE  IInv'
<1>. USE DEF IInv
<1>1. toD \in Seq(ToD) /\ toA \in Seq(ToA) /\ conns \in Nat
  BY DEF TypeOK
<1>2. /\ dsock /\ toD # <<>> /\ toD' = Tail(toD)
      /\ UNCHANGED <<config, clock, conns, dsock, asock, anonce, in_recon, history>>
  BY DEF CommandAgentLogin
<1>3. /\ Tail(toD) \in Seq(ToD)
      /\ \A i \in 1..Len(Tail(toD)) : i + 1 \in 1..Len(toD) /\ Tail(toD)[i] = toD[i + 1]
  BY <1>1, <1>2, TailMessages
<1>4. CASE secret
  <2>1. /\ nonce' = conns /\ Send([type |-> "challenge", nonce |-> conns])
        /\ UNCHANGED <<logged_in, recon>>
    BY <1>4 DEF CommandAgentLogin
  <2>2. [type |-> "challenge", nonce |-> conns] \in ToA
    BY <1>1, Kinds
  <2>3. toA' \in Seq(ToA) /\ (~asock => toA' = toA)
    BY <2>1, <2>2, Sent
  <2>4. TypeOK'
    BY <1>1, <1>2, <1>3, <2>1, <2>3 DEF TypeOK, config, history
  <2>5. OnThisConnection'
    BY <1>1, <1>2, <2>1, <2>3 DEF OnThisConnection, config
  <2>6. LoginIsFresh'
    BY <1>2, <2>1 DEF LoginIsFresh, config, history
  <2>. QED BY <2>4, <2>5, <2>6
<1>5. CASE ~secret
  <2>1. /\ logged_in' = TRUE /\ recon' = TRUE /\ UNCHANGED nonce
        /\ Send([type |-> "recon", datetime |-> 0, hmac |-> <<>>])
    BY <1>5 DEF CommandAgentLogin
  <2>2. [type |-> "recon", datetime |-> 0, hmac |-> <<>>] \in ToA
    <3>1. <<>> \in Seq(Nat) /\ 0 \in Nat
      OBVIOUS
    <3>. QED BY <3>1, Kinds
  <2>3. toA' \in Seq(ToA) /\ (~asock => toA' = toA)
    BY <2>1, <2>2, Sent
  <2>4. TypeOK'
    BY <1>1, <1>2, <1>3, <2>1, <2>3 DEF TypeOK, config, history
  <2>5. OnThisConnection'
    BY <1>2, <1>5, <2>3 DEF OnThisConnection, config
  <2>6. LoginIsFresh'
    BY <1>2, <1>5 DEF LoginIsFresh, config
  <2>. QED BY <2>4, <2>5, <2>6
<1>. QED BY <1>4, <1>5

LEMMA ChallengeKeeps ==
  ASSUME Clocks, IInv, AuthChallenge
  PROVE  IInv'
<1>. USE DEF IInv
<1>. DEFINE m == [type |-> "authresp", nonce |-> conns, datetime |-> clock + Skew,
                  hmac |-> <<Head(toA).nonce, conns, clock + Skew>>]
<1>1. toD \in Seq(ToD) /\ toA \in Seq(ToA) /\ conns \in Nat /\ clock + Skew \in Nat
  BY DEF TypeOK, Clocks
<1>2. /\ asock /\ toA # <<>> /\ Head(toA).type = "challenge" /\ toA' = Tail(toA)
      /\ asecret' = TRUE /\ anonce' = conns /\ toD' = Append(toD, m)
      /\ UNCHANGED <<secret, clock, conns, dsock, nonce, logged_in, recon, asock, in_recon, history>>
  BY DEF AuthChallenge
<1>3. 1 \in 1..Len(toA) /\ toA[1] = Head(toA) /\ Head(toA) \in ToA
  BY <1>1, <1>2
<1>4. m \in ToD
  BY <1>1, <1>2, <1>3, ChallengeFields, Kinds
<1>5. /\ Tail(toA) \in Seq(ToA)
      /\ \A i \in 1..Len(Tail(toA)) : i + 1 \in 1..Len(toA) /\ Tail(toA)[i] = toA[i + 1]
  BY <1>1, <1>2, TailMessages
<1>. HIDE DEF m
<1>6. toD' \in Seq(ToD)
  BY <1>1, <1>2, <1>4, AppendMessages
<1>7. secret => nonce = conns
  BY <1>2, <1>3 DEF OnThisConnection
<1>8. TypeOK'
  BY <1>1, <1>2, <1>5, <1>6 DEF TypeOK, history
<1>9. OnThisConnection'
  BY <1>2, <1>5, <1>7 DEF OnThisConnection
<1>10. LoginIsFresh'
  BY <1>2 DEF LoginIsFresh, history
<1>. QED BY <1>8, <1>9, <1>10

LEMMA AuthrespKeeps ==
  ASSUME Clocks, IInv, CommandAgentAuthresp
  PROVE  IInv'
<1>. USE DEF IInv
<1>. DEFINE m == Head(toD)
<1>. DEFINE Good == Tolerable(m.datetime) /\ m.hmac = <<nonce, m.nonce, m.datetime>>
<1>1. toD \in Seq(ToD) /\ toA \in Seq(ToA) /\ conns \in Nat /\ clock \in Nat /\ nonce \in Nat
  BY DEF TypeOK
<1>2. /\ dsock /\ toD # <<>> /\ m.type = "authresp" /\ toD' = Tail(toD)
      /\ UNCHANGED <<config, clock, conns, dsock, nonce, asock, anonce, in_recon>>
  BY DEF CommandAgentAuthresp
<1>3. 1 \in 1..Len(toD) /\ toD[1] = m /\ m \in ToD
  BY <1>1, <1>2
<1>4. m.nonce \in Nat /\ m.datetime \in Nat
  BY <1>2, <1>3, AnswerFields
<1>5. /\ Tail(toD) \in Seq(ToD)
      /\ \A i \in 1..Len(Tail(toD)) : i + 1 \in 1..Len(toD) /\ Tail(toD)[i] = toD[i + 1]
  BY <1>1, <1>2, TailMessages
<1>6. CASE Good
  <2>1. /\ logged_in' = TRUE /\ recon' = TRUE /\ UNCHANGED refused
        /\ answered' = [nonce |-> m.hmac[1], datetime |-> m.datetime, at |-> clock]
        /\ Send([type |-> "recon", datetime |-> clock, hmac |-> <<m.nonce, clock>>])
    BY <1>6 DEF CommandAgentAuthresp
  <2>2. m.hmac[1] = nonce
    BY <1>6
  <2>3. m.datetime >= clock /\ m.datetime <= clock + MAX_AUTH_TIME
    BY <1>6 DEF Tolerable
  <2>. HIDE DEF m, Good
  <2>4. [type |-> "recon", datetime |-> clock, hmac |-> <<m.nonce, clock>>] \in ToA
    <3>1. <<m.nonce, clock>> \in Seq(Nat)
      BY <1>1, <1>4
    <3>. QED BY <1>1, <3>1, Kinds
  <2>5. toA' \in Seq(ToA) /\ (~asock => toA' = toA)
    BY <2>1, <2>4, Sent
  <2>6. \A i \in 1..Len(toA') : toA'[i].type = "recon" \/ (i \in 1..Len(toA) /\ toA'[i] = toA[i])
    BY <2>1, <2>4, Sent
  <2>7. TypeOK'
    BY <1>1, <1>2, <1>4, <1>5, <2>1, <2>2, <2>5 DEF TypeOK, config
  <2>8. OnThisConnection'
    BY <1>2, <1>5, <2>5, <2>6 DEF OnThisConnection, config
  <2>9. LoginIsFresh'
    <3>1. secret => nonce = conns
      BY <1>2, <1>3 DEF OnThisConnection
    <3>2. answered'.nonce = nonce /\ answered'.datetime = m.datetime /\ answered'.at = clock
      BY <2>1, <2>2
    <3>3. m.datetime \in clock..(clock + MAX_AUTH_TIME)
      BY <1>1, <1>4, <2>3 DEF Clocks
    <3>. QED BY <1>2, <3>1, <3>2, <3>3 DEF LoginIsFresh, config
  <2>. QED BY <2>7, <2>8, <2>9
<1>7. CASE ~Good
  <2>1. refused' = TRUE /\ UNCHANGED <<logged_in, recon, answered, toA>>
    BY <1>7 DEF CommandAgentAuthresp
  <2>. HIDE DEF m, Good
  <2>2. TypeOK'
    BY <1>1, <1>2, <1>5, <2>1 DEF TypeOK, config
  <2>3. OnThisConnection'
    BY <1>2, <1>5, <2>1 DEF OnThisConnection, config
  <2>4. LoginIsFresh'
    BY <1>2, <2>1 DEF LoginIsFresh, config
  <2>. QED BY <2>2, <2>3, <2>4
<1>. QED BY <1>6, <1>7

LEMMA DisconnectKeeps ==
  ASSUME IInv, DisconnectFromDaemon
  PROVE  IInv'
<1>. USE DEF IInv
<1>1. /\ asock' = FALSE /\ toA' = <<>>
      /\ UNCHANGED <<config, clock, conns, dsock, nonce, logged_in, recon, anonce, in_recon, toD, history>>
  BY DEF DisconnectFromDaemon
<1>2. toA' \in Seq(ToA) /\ \A i \in 1..Len(toA') : FALSE
  BY <1>1, NoMessages
<1>3. TypeOK'
  BY <1>1, <1>2 DEF TypeOK, config, history
<1>4. OnThisConnection'
  BY <1>1, <1>2 DEF OnThisConnection, config
<1>5. LoginIsFresh'
  BY <1>1 DEF LoginIsFresh, config, history
<1>. QED BY <1>3, <1>4, <1>5

LEMMA LogoutKeeps ==
  ASSUME IInv, HandleAgentDisconnect
  PROVE  IInv'
<1>. USE DEF IInv
<1>1. /\ ~asock /\ dsock' = FALSE /\ logged_in' = FALSE /\ nonce' = 0 /\ toD' = <<>>
      /\ UNCHANGED <<config, clock, conns, recon, asock, anonce, in_recon, toA, history>>
  BY DEF HandleAgentDisconnect
<1>2. toD' \in Seq(ToD) /\ (\A i \in 1..Len(toD') : FALSE)
  BY <1>1, NoMessages
<1>3. toA = <<>> /\ (\A i \in 1..Len(toA) : FALSE)
  BY <1>1, NoMessages DEF OnThisConnection
<1>4. TypeOK'
  BY <1>1, <1>2 DEF TypeOK, config, history
<1>5. OnThisConnection'
  BY <1>1, <1>2, <1>3 DEF OnThisConnection, config
<1>6. LoginIsFresh'
  BY <1>1 DEF LoginIsFresh
<1>. QED BY <1>4, <1>5, <1>6

LEMMA ReconKeeps ==
  ASSUME IInv, ReconCommand
  PROVE  IInv'
<1>. USE DEF IInv
<1>1. toD \in Seq(ToD) /\ toA \in Seq(ToA)
  BY DEF TypeOK
<1>2. asock /\ toA # <<>>
  BY DEF ReconCommand
<1>3. CASE /\ in_recon' = TRUE
           /\ toA' = Tail(toA) /\ toD' = Append(toD, [type |-> "list"])
           /\ UNCHANGED <<config, clock, conns, dsock, nonce, logged_in, recon, asock, anonce, history>>
  <2>1. /\ Tail(toA) \in Seq(ToA)
        /\ \A i \in 1..Len(Tail(toA)) : i + 1 \in 1..Len(toA) /\ Tail(toA)[i] = toA[i + 1]
    BY <1>1, <1>2, TailMessages
  <2>2. /\ toD' \in Seq(ToD)
        /\ \A i \in 1..Len(toD') : toD'[i] = [type |-> "list"] \/ (i \in 1..Len(toD) /\ toD'[i] = toD[i])
    BY <1>1, <1>3, Kinds, AppendMessages
  <2>3. TypeOK'
    BY <1>3, <2>1, <2>2 DEF TypeOK, config, history
  <2>4. OnThisConnection'
    BY <1>2, <1>3, <2>1, <2>2 DEF OnThisConnection, config
  <2>5. LoginIsFresh'
    BY <1>3 DEF LoginIsFresh, config, history
  <2>. QED BY <2>3, <2>4, <2>5
<1>4. CASE DisconnectFromDaemon
  BY <1>4, DisconnectKeeps
<1>. QED BY <1>3, <1>4 DEF ReconCommand

LEMMA ListKeeps ==
  ASSUME IInv, CommandAgentRecon
  PROVE  IInv'
<1>. USE DEF IInv
<1>1. toD \in Seq(ToD) /\ toA \in Seq(ToA)
  BY DEF TypeOK
<1>2. /\ dsock /\ toD # <<>> /\ toD' = Tail(toD) /\ recon' = FALSE /\ Send([type |-> "complete"])
      /\ UNCHANGED <<config, clock, conns, dsock, nonce, logged_in, asock, anonce, in_recon, history>>
  BY DEF CommandAgentRecon
<1>3. /\ Tail(toD) \in Seq(ToD)
      /\ \A i \in 1..Len(Tail(toD)) : i + 1 \in 1..Len(toD) /\ Tail(toD)[i] = toD[i + 1]
  BY <1>1, <1>2, TailMessages
<1>4. /\ toA' \in Seq(ToA) /\ (~asock => toA' = toA)
      /\ \A i \in 1..Len(toA') : toA'[i].type = "complete" \/ (i \in 1..Len(toA) /\ toA'[i] = toA[i])
  BY <1>2, Kinds, Sent
<1>5. TypeOK'
  BY <1>2, <1>3, <1>4 DEF TypeOK, config, history
<1>6. OnThisConnection'
  BY <1>2, <1>3, <1>4 DEF OnThisConnection, config
<1>7. LoginIsFresh'
  BY <1>2 DEF LoginIsFresh, config, history
<1>. QED BY <1>5, <1>6, <1>7

LEMMA CompleteKeeps ==
  ASSUME IInv, ReconComplete
  PROVE  IInv'
<1>. USE DEF IInv
<1>1. /\ asock /\ toA # <<>> /\ toA' = Tail(toA) /\ in_recon' = FALSE /\ toA \in Seq(ToA)
      /\ UNCHANGED <<config, clock, conns, dsock, nonce, logged_in, recon, asock, anonce, toD, history>>
  BY DEF ReconComplete, TypeOK
<1>2. /\ Tail(toA) \in Seq(ToA)
      /\ \A i \in 1..Len(Tail(toA)) : i + 1 \in 1..Len(toA) /\ Tail(toA)[i] = toA[i + 1]
  BY <1>1, TailMessages
<1>3. TypeOK'
  BY <1>1, <1>2 DEF TypeOK, config, history
<1>4. OnThisConnection'
  BY <1>1, <1>2 DEF OnThisConnection, config
<1>5. LoginIsFresh'
  BY <1>1 DEF LoginIsFresh, config, history
<1>. QED BY <1>3, <1>4, <1>5

LEMMA ConnectKeeps ==
  ASSUME IInv, Connectjers
  PROVE  IInv'
<1>. USE DEF IInv
<1>1. /\ conns' = conns + 1 /\ asock' = TRUE /\ dsock' = TRUE /\ logged_in' = FALSE
      /\ toD' = <<[type |-> "login"]>> /\ toA' = <<>> /\ refused' = FALSE
      /\ UNCHANGED <<config, clock, nonce, recon, anonce, in_recon, answered>>
  BY DEF Connectjers
<1>2. /\ toD' \in Seq(ToD) /\ toA' \in Seq(ToA)
      /\ \A i \in 1..Len(toD') : toD'[i].type = "login"
      /\ \A i \in 1..Len(toA') : FALSE
  BY <1>1, Kinds, NoMessages
<1>3. TypeOK'
  <2>1. conns' \in Nat
    BY <1>1 DEF TypeOK
  <2>. QED BY ONLY TypeOK, <1>1, <1>2, <2>1 DEF TypeOK, config
<1>4. OnThisConnection'
  BY <1>1, <1>2 DEF OnThisConnection, config
<1>5. LoginIsFresh'
  BY <1>1 DEF LoginIsFresh
<1>. QED BY <1>3, <1>4, <1>5

(* With a secret, whoever is logged in answered the challenge of the current  *)
(* connection within the tolerance, whatever the tolerance, the clocks and    *)
(* the number of times the connection breaks (command_agent_login, _authresp; *)
(* handleAgentDisconnect).                                                    *)
THEOREM LoginsFresh == Clocks => (Spec => []LoginIsFresh)
<1>. SUFFICES ASSUME Clocks PROVE Spec => []LoginIsFresh
  OBVIOUS
<1>1. Init => IInv
  <2>. SUFFICES ASSUME Init PROVE IInv
    OBVIOUS
  <2>1. /\ toD \in Seq(ToD) /\ toA \in Seq(ToA)
        /\ (\A i \in 1..Len(toD) : FALSE) /\ (\A i \in 1..Len(toA) : FALSE)
    BY NoMessages DEF Init
  <2>2. TypeOK
    BY <2>1 DEF Init, TypeOK, NoAnswer
  <2>3. OnThisConnection
    BY <2>1 DEF Init, OnThisConnection
  <2>4. LoginIsFresh
    BY DEF Init, LoginIsFresh
  <2>. QED BY <2>2, <2>3, <2>4 DEF IInv
<1>2. IInv /\ [Next]_vars => IInv'
  <2>. SUFFICES ASSUME IInv, [Next]_vars PROVE IInv'
    OBVIOUS
  <2>1. CASE Tick
    BY <2>1 DEF Tick, IInv, TypeOK, OnThisConnection, LoginIsFresh, config, history
  <2>2. CASE Connectjers
    BY <2>2, ConnectKeeps
  <2>3. CASE Cut
    BY <2>3, DisconnectKeeps DEF Cut
  <2>4. CASE HandleAgentDisconnect
    BY <2>4, LogoutKeeps
  <2>5. CASE CommandAgentLogin
    BY <2>5, LoginKeeps
  <2>6. CASE AuthChallenge
    BY <2>6, ChallengeKeeps
  <2>7. CASE CommandAgentAuthresp
    BY <2>7, AuthrespKeeps
  <2>8. CASE ReconCommand
    BY <2>8, ReconKeeps
  <2>9. CASE CommandAgentRecon
    BY <2>9, ListKeeps
  <2>10. CASE ReconComplete
    BY <2>10, CompleteKeeps
  <2>11. CASE UNCHANGED vars
    BY <2>11 DEF vars, IInv, TypeOK, OnThisConnection, LoginIsFresh, config, history
  <2>. QED BY <2>1, <2>2, <2>3, <2>4, <2>5, <2>6, <2>7, <2>8, <2>9, <2>10, <2>11 DEF Next
<1>3. IInv => LoginIsFresh
  BY DEF IInv
<1>. QED BY <1>1, <1>2, <1>3, PTL DEF Spec
=============================================================================
