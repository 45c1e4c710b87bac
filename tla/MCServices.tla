------------------------------ MODULE MCServices ------------------------------
(***************************************************************************)
(* Model of three services around jersd's tables: mail about jobs (Email),  *)
(* the accounting stream (Acct) and the space of the journal (JournalFile). *)
(* They share no state; a behaviour is one of one of them, chosen by part.  *)
(***************************************************************************)
EXTENDS Integers, Sequences

VARIABLES
  part,
  emailList, pids, disable_email, bad, sent, made, fails,
  files, child, out, last, conns, skipped,
  f, free, readonly, flight, bare, lost

emailVars == <<emailList, pids, disable_email, bad, sent, made, fails>>
acctVars == <<files, child, out, last, conns, skipped>>
fileVars == <<f, free, readonly, flight, bare, lost>>

Mail == INSTANCE Email WITH Slots <- {1, 2}, MaxMails <- 3, MaxFails <- 2
Stream == INSTANCE Acct WITH MaxFiles <- 3, MaxRecords <- 2, MaxConns <- 2
File == INSTANCE JournalFile
          WITH Block <- 4, Sizes <- {1, 2}, MaxFlight <- 2, Disk <- 9, MaxLen <- 16

ASSUME FileReserve == File!Reserve

Init ==
  /\ part \in {"mail", "stream", "file"}
  /\ Mail!Init /\ Stream!Init /\ File!Init
  /\ part # "file" => free = 0

MailStep == part = "mail" /\ Mail!Next /\ UNCHANGED <<part, acctVars, fileVars>>
StreamStep == part = "stream" /\ Stream!Next /\ UNCHANGED <<part, emailVars, fileVars>>
FileStep == part = "file" /\ File!Next /\ UNCHANGED <<part, emailVars, acctVars>>

Next == MailStep \/ StreamStep \/ FileStep

vars == <<part, emailVars, acctVars, fileVars>>

Spec ==
  /\ Init /\ [][Next]_vars
  /\ \/ part = "mail" /\ Mail!Fairness
     \/ part = "stream" /\ Stream!Fairness
     \/ part = "file"

(* A mail leaves the list only when the mail program has accepted it          *)
(* (checkEmailProcesses).                                                     *)
MailKept == Mail!MailKept

(* Every mail is sent unless mail is disabled or an address does not work     *)
(* (checkEmailProcesses, sendEmails).                                         *)
MailSent == Mail!MailSent

(* No update of the accounting stream is left out or sent twice               *)
(* (locateJournal, acctMain).                                                 *)
Gapless == Stream!Gapless

(* A started stream brings every command to its client (acctMain).            *)
StreamCatchesUp == Stream!StreamCatchesUp

(* The reserved block of the journal is enough for the records that come in   *)
(* readonly mode (stateSaveCmd, extendJournal).                               *)
RecordsKept == File!RecordsKept
=============================================================================
