-------------------------------- MODULE Email --------------------------------
(***************************************************************************)
(* Mail about changes of job state (email.c): the list of mails of jersd,   *)
(* and the processes it forks to send them.                                 *)
(*                                                                          *)
(* A process works on the copy of the list that it has from the fork.  The  *)
(* mail program itself is abstracted to its exit status: mail to a bad      *)
(* address never succeeds, other mail may fail now and then.                *)
(***************************************************************************)
EXTENDS Integers, Sequences

LOCAL INSTANCE SequencesExt

CONSTANTS
  Slots,            \* 1..MAX_EMAIL_PIDS
  MaxMails,         \* bound: mails generated
  MaxFails          \* bound: passing failures of fork and of the mail program

VARIABLES
  emailList,        \* the list, in order, with the slot each mail is assigned to
  pids,             \* per slot: the process, with the mails it has yet to send
  disable_email,
  bad,              \* mails to an address that does not work
  sent,             \* mails the mail program has accepted
  made,             \* mails generated so far
  fails             \* passing failures so far

vars == <<emailList, pids, disable_email, bad, sent, made, fails>>

Free == [todo |-> <<>>, status |-> "free"]
Unassigned == 0

Init ==
  /\ emailList = <<>>
  /\ pids = [s \in Slots |-> Free]
  /\ disable_email = FALSE
  /\ bad = {} /\ sent = {} /\ made = 0 /\ fails = 0

(* changeJobState calls generateEmail.                                        *)
GenerateEmail ==
  /\ made < MaxMails
  /\ made' = made + 1
  /\ emailList' = Append(emailList, [id |-> made + 1, pid |-> Unassigned])
  /\ bad' \in {bad, bad \cup {made + 1}}
  /\ UNCHANGED <<pids, disable_email, sent, fails>>

(* sendEmails, in the process of slot s: one mail, in the order of the list,  *)
(* and the end at the first failure.                                          *)
Fail ==
  /\ fails < MaxFails
  /\ fails' = fails + 1

SendEmails(s) ==
  /\ pids[s].status = "running"
  /\ \/ /\ pids[s].todo = <<>>
        /\ pids' = [pids EXCEPT ![s].status = "success"]
        /\ UNCHANGED <<sent, fails>>
     \/ /\ pids[s].todo # <<>> /\ Head(pids[s].todo) \notin bad
        /\ sent' = sent \cup {Head(pids[s].todo)}
        /\ pids' = [pids EXCEPT ![s].todo = Tail(@)]
        /\ UNCHANGED fails
     \/ /\ pids[s].todo # <<>>
        /\ IF Head(pids[s].todo) \in bad THEN UNCHANGED fails ELSE Fail
        /\ pids' = [pids EXCEPT ![s].status = "failure"]
        /\ UNCHANGED sent
  /\ UNCHANGED <<emailList, disable_email, bad, made>>

Ended(status) == {s \in Slots : pids[s].status = status}

(* The list after the processes that ended are reaped: the mails of one that  *)
(* failed are to be tried again, the others are removed.                      *)
ReapedMut ==
  SelectSeq(emailList, LAMBDA e : e.pid \notin Ended("success") \cup Ended("failure"))
Reaped ==
  LET kept == SelectSeq(emailList, LAMBDA e : e.pid \notin Ended("success"))
  IN [i \in DOMAIN kept |->
        IF kept[i].pid \in Ended("failure")
        THEN [kept[i] EXCEPT !.pid = Unassigned] ELSE kept[i]]

Assigned(list, s) ==
  [i \in DOMAIN list |->
     IF list[i].pid = Unassigned THEN [list[i] EXCEPT !.pid = s] ELSE list[i]]

Ids(list) == [i \in DOMAIN list |-> list[i].id]

(* What a failed fork leaves.                                                 *)
AfterFailedForkMut(list) ==
  [i \in DOMAIN list |->
     IF list[i].pid = Unassigned THEN [list[i] EXCEPT !.pid = -1] ELSE list[i]]
AfterFailedFork(list) == list

CheckEmailProcesses ==
  LET spawn == {s \in Slots : pids[s].status = "free"}
      left == [s \in Slots |->
                 IF pids[s].status \in {"success", "failure"} THEN Free ELSE pids[s]]
      waiting == \E e \in ToSet(Reaped) : e.pid = Unassigned
  IN /\ ~disable_email
     /\ \/ /\ spawn = {} \/ ~waiting
           /\ emailList' = Reaped /\ pids' = left
           /\ UNCHANGED fails
        \/ /\ spawn # {} /\ waiting
           /\ LET s == CHOOSE x \in spawn : \A y \in spawn : y <= x
              IN /\ emailList' = Assigned(Reaped, s)
                 /\ pids' = [left EXCEPT ![s] =
                               [todo |-> Ids(Reaped), status |-> "running"]]
           /\ UNCHANGED fails
        \/ /\ spawn # {} /\ waiting
           /\ Fail
           /\ emailList' = AfterFailedFork(Reaped) /\ pids' = left
     /\ UNCHANGED <<disable_email, bad, sent, made>>

(* The mail program is gone: jersd sends no mail from then on.                *)
DisableEmail ==
  /\ ~disable_email
  /\ disable_email' = TRUE
  /\ UNCHANGED <<emailList, pids, bad, sent, made, fails>>

Next ==
  \/ GenerateEmail \/ CheckEmailProcesses \/ DisableEmail
  \/ \E s \in Slots : SendEmails(s)

(* checkEmails is an event of jersd's loop; processes run and end.            *)
Fairness ==
  /\ WF_vars(CheckEmailProcesses)
  /\ \A s \in Slots : WF_vars(SendEmails(s))

Spec == Init /\ [][Next]_vars /\ Fairness

-----------------------------------------------------------------------------
(* A mail leaves the list only when the mail program has accepted it,         *)
(* wherever a process stops (checkEmailProcesses).                            *)
MailKept == \A e \in 1..made : e \in sent \/ e \in ToSet(Ids(emailList))

(* Every mail is sent, through passing failures of fork and of the mail       *)
(* program, unless mail is disabled or an address does not work.              *)
MailSent ==
  \A e \in 1..MaxMails :
    e <= made ~> (e \in sent \/ disable_email \/ bad # {})
=============================================================================
