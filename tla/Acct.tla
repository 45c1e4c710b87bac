-------------------------------- MODULE Acct --------------------------------
(***************************************************************************)
(* The accounting stream (acct.c): a process that jersd forks for each      *)
(* accounting client.  It sends the tables it has from the fork, and then   *)
(* every record it reads in the journal files.  A client that lost its      *)
(* connection resumes at the last update it has.                            *)
(*                                                                          *)
(* A journal file is the sequence of the kinds of its records: a command,   *)
(* REPLAY_COMPLETE, or the end of journal marker `$' of stateSaveCmd.  The  *)
(* id of an update is the file and the number of the record in it.          *)
(***************************************************************************)
EXTENDS Naturals, Sequences

LOCAL INSTANCE SequencesExt

CONSTANTS
  MaxFiles,         \* bound: journal files
  MaxRecords,       \* bound: records in a file
  MaxConns          \* bound: connections of the client

VARIABLES
  files,            \* the journal files
  child,            \* the process of the client (acctClient)
  out,              \* messages on their way to the client
  last,             \* the id of the last message the client received
  conns,            \* connections so far
  skipped           \* history: an update did not follow the one before it

vars == <<files, child, out, last, conns, skipped>>

Here == <<Len(files), Len(Last(files))>>
NoId == <<0, 0>>
NoChild == [state |-> "none", snap |-> NoId, initalised |-> FALSE, at |-> NoId]

Init ==
  /\ files = <<<<"replay">>>>
  /\ child = NoChild
  /\ out = <<>> /\ last = NoId /\ conns = 0 /\ skipped = FALSE

-----------------------------------------------------------------------------
(* jersd writes the journal (stateSaveCmd).                                   *)
Room == Len(Last(files)) < MaxRecords

Add(kind) == files' = [files EXCEPT ![Len(files)] = Append(@, kind)]

StateSaveCmd ==
  /\ Room
  /\ Add("cmd")
  /\ UNCHANGED <<child, out, last, conns, skipped>>

RollOver ==
  /\ Len(files) < MaxFiles
  /\ files' = [files EXCEPT ![Len(files)] = Append(@, "end")] \o <<<<"cmd">>>>
  /\ UNCHANGED <<child, out, last, conns, skipped>>

(* jersd starts again, on the same day or on a later one.  The process of the *)
(* client lives on.                                                           *)
JersdRestart ==
  /\ \/ Room /\ Add("replay")
     \/ /\ Len(files) < MaxFiles
        /\ files' = Append(files, <<"replay">>)
  /\ UNCHANGED <<child, out, last, conns, skipped>>

-----------------------------------------------------------------------------
(* handleAcctClientConnection: the fork.                                      *)
Snap == Here

Connect ==
  /\ child.state = "none" /\ conns < MaxConns
  /\ conns' = conns + 1
  /\ child' = [NoChild EXCEPT !.state = "stopped", !.snap = Snap]
  /\ out' = <<>>
  /\ UNCHANGED <<files, last, skipped>>

(* processRequest.  sendInitial names the place in the journal at the fork,   *)
(* and locateJournal goes there; with an id it goes to the client's place.    *)
StartPlaceMut == Here
StartPlace == child.snap

Start ==
  /\ child.state = "stopped"
  /\ IF child.initalised
     THEN /\ child' = [child EXCEPT !.state = "started"]
          /\ UNCHANGED out
     ELSE /\ child' = [child EXCEPT !.state = "started", !.initalised = TRUE,
                                    !.at = StartPlace]
          /\ out' = Append(out, [kind |-> "start", id |-> child.snap])
  /\ UNCHANGED <<files, last, conns, skipped>>

StartId ==
  /\ child.state = "stopped" /\ last # NoId /\ out = <<>>
  /\ child' = [child EXCEPT !.state = "started", !.at = last]
  /\ UNCHANGED <<files, out, last, conns, skipped>>

Stop ==
  /\ child.state = "started"
  /\ child' = [child EXCEPT !.state = "stopped"]
  /\ UNCHANGED <<files, out, last, conns, skipped>>

-----------------------------------------------------------------------------
(* acctMain reads one record.  The marker is no record of five fields: the    *)
(* process ends there, with what it has not written yet.                      *)
ReadRecord ==
  LET at == <<child.at[1], child.at[2] + 1>>
      kind == files[at[1]][at[2]]
  IN /\ child.state = "started"
     /\ at[2] <= Len(files[at[1]])
     /\ \/ /\ kind = "cmd"
           /\ child' = [child EXCEPT !.at = at]
           /\ out' = Append(out, [kind |-> "update", id |-> at])
        \/ /\ kind = "replay"
           /\ child' = [child EXCEPT !.at = at]
           /\ UNCHANGED out
        \/ /\ kind = "end"
           /\ child' = [child EXCEPT !.state = "dead"]
           /\ \E n \in 0..Len(out) : out' = SubSeq(out, 1, n)
     /\ UNCHANGED <<files, last, conns, skipped>>

(* At the end of a file acctMain opens the next one, when there is one.       *)
NextFileMut(at) == at[1] + 2
NextFile(at) == at[1] + 1

SwitchJournal ==
  /\ child.state = "started"
  /\ child.at[2] = Len(files[child.at[1]])
  /\ NextFile(child.at) <= Len(files)
  /\ child' = [child EXCEPT !.at = <<NextFile(child.at), 0>>]
  /\ UNCHANGED <<files, out, last, conns, skipped>>

-----------------------------------------------------------------------------
(* The client.                                                                *)
Before(p, q) == p[1] < q[1] \/ (p[1] = q[1] /\ p[2] < q[2])

Commands ==
  {p \in (1..MaxFiles) \X (1..(MaxRecords + 1)) :
     /\ p[1] \in DOMAIN files /\ p[2] \in DOMAIN files[p[1]]
     /\ files[p[1]][p[2]] = "cmd"}

Receive ==
  /\ out # <<>>
  /\ out' = Tail(out)
  /\ last' = Head(out).id
  /\ skipped' = (skipped \/
       /\ Head(out).kind = "update"
       /\ \/ ~Before(last, Head(out).id)
          \/ \E p \in Commands : Before(last, p) /\ Before(p, Head(out).id))
  /\ UNCHANGED <<files, child, conns>>

Disconnect ==
  /\ child.state # "none"
  /\ child.state = "dead" => out = <<>>
  /\ child' = NoChild
  /\ out' = <<>>
  /\ UNCHANGED <<files, last, conns, skipped>>

Next ==
  \/ StateSaveCmd \/ RollOver \/ JersdRestart
  \/ Connect \/ Start \/ StartId \/ Stop
  \/ ReadRecord \/ SwitchJournal \/ Receive \/ Disconnect

(* acctMain polls every two seconds; a connected client reads.                *)
Fairness ==
  /\ WF_vars(ReadRecord) /\ WF_vars(SwitchJournal) /\ WF_vars(Receive)

Spec == Init /\ [][Next]_vars /\ Fairness

-----------------------------------------------------------------------------
(* The tables a client has and the updates that follow make a complete        *)
(* history: no update is left out or sent twice, over files and connections   *)
(* (sendInitial, locateJournal, acctMain).                                    *)
Gapless == ~skipped

(* A started stream brings every command of the journal to its client, unless *)
(* it is stopped, loses its connection or meets the end of journal marker.    *)
StreamCatchesUp ==
  child.state = "started"
    ~> (child.state # "started" \/ \A p \in Commands : ~Before(last, p))
=============================================================================
