----------------------------- MODULE JournalFile -----------------------------
(***************************************************************************)
(* The space of the journal file: how stateSaveCmd, extendJournal and       *)
(* openStateFile keep room for what must still be written when the disk is  *)
(* full.                                                                    *)
(*                                                                          *)
(* Sizes are counted in units; the records of agents, which come for jobs   *)
(* that were started before, take one.  A client's command is not run in    *)
(* readonly mode, and no job is started (runCommand, checkJobs).  The       *)
(* contents of the records are the matter of module Journal.                *)
(***************************************************************************)
EXTENDS Naturals

CONSTANTS
  Block,            \* extend_block_size, in units
  Sizes,            \* sizes of the records of client commands
  MaxFlight,        \* bound: agent records still to come
  Disk,             \* bound: units of disk space
  MaxLen            \* bound: length of a journal

VARIABLES
  f,                \* server.journal: len, size and limit; alloc: the units the
                    \* file has on the disk
  free,             \* units left on the disk
  readonly,         \* server.readonly = READONLY_ENOSPACE
  flight,           \* records that agents will send for jobs that were started
  bare,             \* history: this journal has not had a whole reserve yet
  lost              \* history: a record was cut short or not written

vars == <<f, free, readonly, flight, bare, lost>>

NewFile == [len |-> 0, size |-> 0, limit |-> 0, alloc |-> 0]

Init ==
  /\ f = [len |-> 0, size |-> 2 * Block, limit |-> Block, alloc |-> 2 * Block]
  /\ free \in 0..Disk
  /\ readonly = FALSE /\ flight = 0 /\ bare = FALSE /\ lost = FALSE

(* What the reserve is good for: a block holds the largest record of a client *)
(* and the records of agents that can still come after it.                    *)
Reserve ==
  /\ Block \in Nat /\ MaxFlight \in Nat /\ Disk \in Nat
  /\ \A n \in Sizes \cup {1} : n \in Nat \ {0} /\ n + MaxFlight <= Block

(* extendJournal writes zeros after the end: one block, or two in a new file. *)
GrowthMut(g) == Block
Growth(g) == IF g.limit = 0 THEN 2 * Block ELSE Block
CanGrow(g) == free + g.alloc - g.size >= Growth(g)

(* The new file, whether the zeros fit or not: what fits of them stays.       *)
Extended(g) ==
  IF CanGrow(g)
  THEN LET new == g.size + Growth(g)
       IN [g EXCEPT !.size = new, !.limit = new - Block, !.alloc = new]
  ELSE [g EXCEPT !.alloc = @ + free]

Left(g) == IF CanGrow(g) THEN free + g.alloc - g.size - Growth(g) ELSE 0

StillBare(g) == bare /\ ~(CanGrow(g) /\ g.len < Extended(g).limit)

(* The write of n units at the end of g, with `left' units left on the disk.  *)
(* A write that does not fit is cut short.                                    *)
Write(g, left, n) ==
  LET room == g.alloc + left - g.len
      len == g.len + (IF n <= room THEN n ELSE room)
      alloc == IF len <= g.alloc THEN g.alloc ELSE len
  IN /\ f' = [g EXCEPT !.len = len, !.alloc = alloc]
     /\ free' = left - (alloc - g.alloc)
     /\ lost' = (lost \/ (n > room /\ ~bare'))

MustExtend(g, n) == g.len + n >= g.limit

(* stateSaveCmd without a rollover: the record is written even when the file  *)
(* could not be extended.                                                     *)
StateSaveCmd(n) ==
  IF MustExtend(f, n)
  THEN /\ readonly' = ~CanGrow(f)
       /\ bare' = StillBare(f)
       /\ Write(Extended(f), Left(f), n)
  ELSE /\ UNCHANGED <<readonly, bare>>
       /\ Write(f, free, n)

(* stateSaveCmd opens a new journal at midnight.  When there is no room for   *)
(* it the record is not written at all.                                       *)
RollOver(n) ==
  /\ readonly' = ~CanGrow(NewFile) /\ bare' = ~CanGrow(NewFile)
  /\ IF CanGrow(NewFile)
     THEN Write(Extended(NewFile), Left(NewFile), n)
     ELSE /\ f' = Extended(NewFile) /\ free' = 0
          /\ UNCHANGED lost

Save(n) == f.len + n <= MaxLen /\ (StateSaveCmd(n) \/ RollOver(n))

(* runCommand: an update command of a client.                                 *)
ClientCommand(n) == ~readonly /\ Save(n) /\ UNCHANGED flight

(* checkJobs starts a job: its start and its completion will be recorded.     *)
StartJob ==
  /\ ~readonly /\ flight + 2 <= MaxFlight
  /\ flight' = flight + 2
  /\ UNCHANGED <<f, free, readonly, bare, lost>>

(* runAgentCommand.                                                           *)
AgentCommand ==
  /\ flight > 0
  /\ flight' = flight - 1
  /\ Save(1)

(* stateSaveToDisk, when something is dirty, tries to leave readonly mode.    *)
StateSaveToDisk ==
  /\ readonly
  /\ f' = Extended(f) /\ free' = Left(f)
  /\ readonly' = ~CanGrow(f)
  /\ bare' = StillBare(f)
  /\ UNCHANGED <<flight, lost>>

(* openStateFile for a journal that exists, and the REPLAY_COMPLETE record,   *)
(* which is dropped when the journal is full and cannot be extended.          *)
Reopened ==
  [f EXCEPT !.size = f.alloc,
            !.limit = IF f.alloc > Block THEN f.alloc - Block ELSE f.len]

Restart ==
  LET g == Reopened
  IN /\ \/ /\ g.size = 0 \/ g.len >= g.limit
           /\ f' = Extended(g) /\ free' = Left(g)
           /\ readonly' = ~CanGrow(g)
           /\ bare' = StillBare(g)
        \/ /\ g.size # 0 /\ g.len < g.limit
           /\ f' = g
           /\ readonly' = FALSE
           /\ UNCHANGED <<free, bare>>
     /\ UNCHANGED <<flight, lost>>

(* Other programs take disk space and give it back; old journals are removed. *)
DiskChanges ==
  /\ free' \in 0..Disk
  /\ UNCHANGED <<f, readonly, flight, bare, lost>>

Next ==
  \/ \E n \in Sizes : ClientCommand(n)
  \/ StartJob \/ AgentCommand \/ StateSaveToDisk \/ Restart \/ DiskChanges

Spec == Init /\ [][Next]_vars

-----------------------------------------------------------------------------
TypeOK ==
  /\ f \in [len : Nat, size : Nat, limit : Nat, alloc : Nat]
  /\ f.len <= f.alloc /\ f.size <= f.alloc
  /\ free \in Nat /\ flight \in 0..MaxFlight
  /\ {readonly, bare, lost} \subseteq BOOLEAN

(* Why RecordsKept holds: outside readonly mode the length stays within the   *)
(* limit, and in it the records to come fit in the reserve.  A journal that   *)
(* never had its reserve stays near enough to its limit to get one.           *)
Room ==
  /\ f.alloc <= f.size + Growth(f)
  /\ ~bare => /\ f.size = f.limit + Block /\ 1 <= f.limit
              /\ f.len + flight <= f.size
              /\ readonly \/ f.len <= f.limit
  /\ bare /\ readonly => f.len + flight <= f.size + MaxFlight
  /\ bare /\ ~readonly => f.size = f.limit + Block /\ f.len <= f.limit + MaxFlight

(* No record is lost or cut short, however full the disk is: the second block *)
(* is there for the records that agents send in readonly mode.  (extendJournal*)
(* "This second block allows us to write job start/completion messages".) The *)
(* exception is a journal that is opened at midnight on a full disk.          *)
RecordsKept == ~lost
=============================================================================
