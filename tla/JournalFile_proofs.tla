------------------------- MODULE JournalFile_proofs -------------------------
(***************************************************************************)
(* The reserve of the journal is enough, for every size of block, record    *)
(* and disk that satisfies Reserve: no record is lost.                      *)
(***************************************************************************)
EXTENDS JournalFile, TLAPS

IInv == TypeOK /\ Room /\ RecordsKept

File == [len : Nat, size : Nat, limit : Nat, alloc : Nat]

(* extendJournal: what the fields of the file are afterwards, and that zeros  *)
(* that do not fit still leave the file whole.                                *)
LEMMA ExtendedFile ==
  ASSUME Reserve, free \in Nat
  PROVE  \A g \in File : g.size <= g.alloc /\ g.alloc <= g.size + Growth(g) =>
         /\ Extended(g) \in File /\ Left(g) \in Nat
         /\ Extended(g).len = g.len
         /\ g.alloc <= Extended(g).alloc /\ Extended(g).size <= Extended(g).alloc
         /\ Extended(g).alloc <= Extended(g).size + Growth(Extended(g))
         /\ CanGrow(g) => /\ Extended(g).size = Extended(g).limit + Block
                          /\ Extended(g).limit = g.size
                               \/ (g.limit = 0 /\ Extended(g).limit = g.size + Block)
         /\ ~CanGrow(g) => /\ Extended(g).size = g.size
                           /\ Extended(g).limit = g.limit
<1>. SUFFICES ASSUME NEW g \in File, g.size <= g.alloc, g.alloc <= g.size + Growth(g)
              PROVE  /\ Extended(g) \in File /\ Left(g) \in Nat
                     /\ Extended(g).len = g.len
                     /\ g.alloc <= Extended(g).alloc /\ Extended(g).size <= Extended(g).alloc
                     /\ Extended(g).alloc <= Extended(g).size + Growth(Extended(g))
                     /\ CanGrow(g) => /\ Extended(g).size = Extended(g).limit + Block
                                      /\ Extended(g).limit = g.size
                                           \/ (g.limit = 0 /\ Extended(g).limit = g.size + Block)
                     /\ ~CanGrow(g) => /\ Extended(g).size = g.size
                                       /\ Extended(g).limit = g.limit
  OBVIOUS
<1>1. Block \in Nat /\ g.len \in Nat /\ g.size \in Nat /\ g.limit \in Nat /\ g.alloc \in Nat
  BY DEF Reserve, File
<1>2. CASE CanGrow(g)
  <2>. DEFINE new == g.size + Growth(g)
  <2>1. new \in Nat /\ new - Block \in Nat /\ g.alloc <= free + g.alloc
    BY <1>1 DEF Growth
  <2>2. Extended(g) = [g EXCEPT !.size = new, !.limit = new - Block, !.alloc = new]
    BY <1>2 DEF Extended
  <2>3. Extended(g) = [len |-> g.len, size |-> new, limit |-> new - Block, alloc |-> new]
    BY <2>2 DEF File
  <2>4. Extended(g) \in File
    BY <1>1, <2>1, <2>3 DEF File
  <2>5. /\ Extended(g).len = g.len /\ Extended(g).size = new
        /\ Extended(g).limit = new - Block /\ Extended(g).alloc = new
    BY <2>3
  <2>6. Left(g) \in Nat
    BY <1>1, <1>2 DEF Left, CanGrow, Growth
  <2>7. Growth(Extended(g)) \in Nat
    BY <1>1 DEF Growth
  <2>8. new = g.size + Block \/ (g.limit = 0 /\ new = g.size + Block + Block)
    BY <1>1 DEF Growth
  <2>9. g.alloc <= new
    OBVIOUS
  <2>. HIDE DEF new
  <2>. QED BY <1>1, <1>2, <2>1, <2>4, <2>5, <2>6, <2>7, <2>8, <2>9
<1>3. CASE ~CanGrow(g)
  BY <1>1, <1>3 DEF Extended, Left, CanGrow, Growth, File
<1>. QED BY <1>2, <1>3

(* stateSaveCmd's write: the fields afterwards; nothing is lost when the      *)
(* record fits in the space the file already has.                             *)
LEMMA WrittenFile ==
  ASSUME bare' \in BOOLEAN, lost \in BOOLEAN
  PROVE  \A g \in File : \A left, n \in Nat : g.len <= g.alloc /\ Write(g, left, n) =>
         /\ f' \in File /\ free' \in Nat /\ lost' \in BOOLEAN
         /\ f'.size = g.size /\ f'.limit = g.limit
         /\ g.alloc <= f'.alloc /\ f'.len <= f'.alloc
         /\ g.len <= f'.len /\ f'.len <= g.len + n
         /\ f'.alloc = g.alloc \/ f'.alloc = f'.len
         /\ ~lost /\ (bare' \/ g.len + n <= g.alloc) => ~lost'
<1>. SUFFICES ASSUME NEW g \in File, NEW left \in Nat, NEW n \in Nat,
                     g.len <= g.alloc, Write(g, left, n)
              PROVE  /\ f' \in File /\ free' \in Nat /\ lost' \in BOOLEAN
                     /\ f'.size = g.size /\ f'.limit = g.limit
                     /\ g.alloc <= f'.alloc /\ f'.len <= f'.alloc
                     /\ g.len <= f'.len /\ f'.len <= g.len + n
                     /\ f'.alloc = g.alloc \/ f'.alloc = f'.len
                     /\ ~lost /\ (bare' \/ g.len + n <= g.alloc) => ~lost'
  OBVIOUS
<1>. DEFINE room == g.alloc + left - g.len
            len == g.len + (IF n <= room THEN n ELSE room)
            alloc == IF len <= g.alloc THEN g.alloc ELSE len
<1>1. g.len \in Nat /\ g.size \in Nat /\ g.limit \in Nat /\ g.alloc \in Nat
  BY DEF File
<1>2. /\ f' = [g EXCEPT !.len = len, !.alloc = alloc]
      /\ free' = left - (alloc - g.alloc)
      /\ lost' = (lost \/ (n > room /\ ~bare'))
  BY DEF Write
<1>3. f' = [len |-> len, size |-> g.size, limit |-> g.limit, alloc |-> alloc]
  BY <1>2 DEF File
<1>4. /\ room \in Nat /\ g.alloc <= g.len + room
      /\ len \in Nat /\ alloc \in Nat
      /\ g.len <= len /\ len <= g.len + n
      /\ g.alloc <= alloc /\ len <= alloc
      /\ alloc = g.alloc \/ alloc = len
      /\ left - (alloc - g.alloc) \in Nat
  BY <1>1
<1>5. g.len + n <= g.alloc => ~(n > room)
  BY <1>1, <1>4
<1>6. lost' \in BOOLEAN /\ (~lost /\ (bare' \/ g.len + n <= g.alloc) => ~lost')
  BY <1>2, <1>5, Zenon
<1>. HIDE DEF room, len, alloc
<1>7. f' \in File /\ f'.len = len /\ f'.size = g.size /\ f'.limit = g.limit /\ f'.alloc = alloc
  BY <1>1, <1>3, <1>4 DEF File
<1>. QED BY <1>2, <1>4, <1>6, <1>7

(* The types of the fields, spelled out for arithmetic.                       *)
LEMMA Numbers ==
  ASSUME Reserve, TypeOK
  PROVE  /\ Block \in Nat /\ MaxFlight \in Nat /\ free \in Nat /\ flight \in Nat
         /\ flight <= MaxFlight /\ 1 + MaxFlight <= Block
         /\ f \in File /\ f.len \in Nat /\ f.size \in Nat /\ f.limit \in Nat /\ f.alloc \in Nat
         /\ f.len <= f.alloc /\ f.size <= f.alloc
         /\ readonly \in BOOLEAN /\ bare \in BOOLEAN /\ lost \in BOOLEAN
  BY DEF Reserve, TypeOK, File

LEMMA Blocks ==
  ASSUME Reserve
  PROVE  \A g \in File : Growth(g) \in Nat /\ Block <= Growth(g)
  BY DEF Reserve, Growth, File

(* A record written without a change of file keeps the invariant, when the    *)
(* flight of records shrinks with an agent's record and readonly mode takes   *)
(* no other.                                                                  *)
LEMMA SaveKeeps ==
  ASSUME Reserve, IInv, NEW n \in Nat, 1 <= n, n + MaxFlight <= Block, StateSaveCmd(n),
         flight' \in 0..MaxFlight,
         (~readonly /\ flight' = flight) \/ (n = 1 /\ flight = flight' + 1)
  PROVE  IInv'
<1>. USE Numbers, Blocks DEF IInv
<1>1. CASE ~MustExtend(f, n)
  <2>1. readonly' = readonly /\ bare' = bare /\ Write(f, free, n)
    BY <1>1 DEF StateSaveCmd
  <2>2. f.len + n < f.limit
    BY <1>1 DEF MustExtend
  <2>3. /\ f' \in File /\ free' \in Nat /\ lost' \in BOOLEAN
        /\ f'.size = f.size /\ f'.limit = f.limit
        /\ f.alloc <= f'.alloc /\ f'.len <= f'.alloc
        /\ f.len <= f'.len /\ f'.len <= f.len + n
        /\ f'.alloc = f.alloc \/ f'.alloc = f'.len
        /\ ~lost /\ (bare' \/ f.len + n <= f.alloc) => ~lost'
    BY <2>1, WrittenFile
  <2>4. Growth(f)' = Growth(f)
    BY <2>3 DEF Growth
  <2>5. TypeOK'
    BY <2>1, <2>3 DEF TypeOK, File
  <2>6. Room'
    BY <2>1, <2>2, <2>3, <2>4 DEF Room, File
  <2>7. RecordsKept'
    BY <2>1, <2>2, <2>3 DEF Room, RecordsKept
  <2>. QED BY <2>5, <2>6, <2>7
<1>2. CASE MustExtend(f, n)
  <2>. DEFINE e == Extended(f)
  <2>1. readonly' = ~CanGrow(f) /\ bare' = StillBare(f) /\ Write(e, Left(f), n)
    BY <1>2 DEF StateSaveCmd
  <2>2. f.alloc <= f.size + Growth(f)
    BY DEF Room
  <2>3. /\ e \in File /\ Left(f) \in Nat /\ e.len = f.len
        /\ f.alloc <= e.alloc /\ e.size <= e.alloc /\ e.alloc <= e.size + Growth(e)
        /\ CanGrow(f) => /\ e.size = e.limit + Block
                         /\ e.limit = f.size \/ (f.limit = 0 /\ e.limit = f.size + Block)
        /\ ~CanGrow(f) => e.size = f.size /\ e.limit = f.limit
    BY <2>2, ExtendedFile
  <2>4. e.limit \in Nat /\ e.size \in Nat /\ e.alloc \in Nat /\ e.len <= e.alloc
    BY <2>3 DEF File
  <2>5. bare' = (bare /\ ~(CanGrow(f) /\ f.len < e.limit))
    BY <2>1 DEF StillBare
  <2>6. bare' \in BOOLEAN /\ readonly' \in BOOLEAN
    BY <2>1, <2>5, Zenon
  <2>. HIDE DEF e
  <2>7. /\ f' \in File /\ free' \in Nat /\ lost' \in BOOLEAN
        /\ f'.size = e.size /\ f'.limit = e.limit
        /\ e.alloc <= f'.alloc /\ f'.len <= f'.alloc
        /\ e.len <= f'.len /\ f'.len <= e.len + n
        /\ f'.alloc = e.alloc \/ f'.alloc = f'.len
        /\ ~lost /\ (bare' \/ e.len + n <= e.alloc) => ~lost'
    BY <2>1, <2>3, <2>4, <2>6, WrittenFile
  <2>8. f'.len \in Nat /\ f'.alloc \in Nat /\ flight' \in Nat
    BY <2>7 DEF File
  <2>9. Growth(f)' = Growth(e) /\ Growth(e) \in Nat /\ Block <= Growth(e)
    BY <2>3, <2>7 DEF Growth
  <2>10. TypeOK'
    BY <2>3, <2>4, <2>6, <2>7 DEF TypeOK, File
  <2>11. Room' /\ (bare' \/ e.len + n <= e.alloc)
    <3>1. CASE CanGrow(f) /\ ~bare
      BY <2>1, <2>3, <2>4, <2>5, <2>7, <2>8, <2>9, <3>1 DEF Room
    <3>2. CASE CanGrow(f) /\ bare
      BY <2>1, <2>3, <2>4, <2>5, <2>7, <2>8, <2>9, <3>2 DEF Room
    <3>3. CASE ~CanGrow(f) /\ ~bare
      <4>1. readonly' /\ ~bare'
        BY <2>1, <2>5, <3>3, Zenon
      <4>2. /\ f'.size = f.size /\ f'.limit = f.limit /\ f.alloc <= e.alloc /\ f'.len <= f.len + n
            /\ f'.alloc <= f.size + Growth(e) \/ f'.alloc <= f.len + n
        BY <2>3, <2>7, <2>8, <3>3
      <4>3. f.len + n + flight' <= f.size 
        BY <2>8, <3>3 DEF Room
      <4>. QED BY <2>3, <2>4, <2>7, <2>8, <2>9, <3>3, <4>1, <4>2, <4>3 DEF Room
    <3>4. CASE ~CanGrow(f) /\ bare
      <4>1. readonly' /\ bare'
        BY <2>1, <2>5, <3>4, Zenon
      <4>2. /\ f'.size = f.size /\ f'.limit = f.limit /\ f.alloc <= e.alloc /\ f'.len <= f.len + n
            /\ f'.alloc <= f.size + Growth(e) \/ f'.alloc <= f.len + n
        BY <2>3, <2>7, <2>8, <3>4
      <4>3. f.len + n + flight' <= f.size + MaxFlight
        BY <2>8, <3>4 DEF Room
      <4>. QED BY <2>3, <2>4, <2>7, <2>8, <2>9, <3>4, <4>1, <4>2, <4>3 DEF Room
    <3>. QED BY <3>1, <3>2, <3>3, <3>4
  <2>. QED BY <2>7, <2>10, <2>11 DEF RecordsKept
<1>. QED BY <1>1, <1>2

(* A record that opens a new journal keeps the invariant.                     *)
LEMMA RollOverKeeps ==
  ASSUME Reserve, IInv, NEW n \in Nat, 1 <= n, n + MaxFlight <= Block, RollOver(n),
         flight' \in 0..MaxFlight
  PROVE  IInv'
<1>. USE Numbers, Blocks DEF IInv
<1>. DEFINE e == Extended(NewFile)
<1>1. /\ NewFile \in File /\ NewFile.size = 0 /\ NewFile.alloc = 0 /\ NewFile.len = 0
      /\ NewFile.limit = 0 /\ Growth(NewFile) = 2 * Block
  BY DEF NewFile, File, Growth
<1>2. readonly' = ~CanGrow(NewFile) /\ bare' = ~CanGrow(NewFile)
  BY DEF RollOver
<1>3. readonly' \in BOOLEAN /\ bare' \in BOOLEAN
  BY <1>2, Zenon
<1>4. CASE CanGrow(NewFile)
  <2>1. e = [len |-> 0, size |-> 2 * Block, limit |-> Block, alloc |-> 2 * Block]
    <3>1. 0 + 2 * Block = 2 * Block /\ 2 * Block - Block = Block
      OBVIOUS
    <3>2. e = [NewFile EXCEPT !.size = 2 * Block, !.limit = Block, !.alloc = 2 * Block]
      BY <1>1, <1>4, <3>1, Zenon DEF Extended
    <3>. QED BY <3>2 DEF NewFile
  <2>2. Write(e, Left(NewFile), n) /\ Left(NewFile) \in Nat /\ e \in File
    <3>1. Write(e, Left(NewFile), n)
      BY <1>4 DEF RollOver
    <3>2. NewFile.size <= NewFile.alloc /\ NewFile.alloc <= NewFile.size + Growth(NewFile)
      BY <1>1
    <3>. QED BY <1>1, <3>1, <3>2, ExtendedFile
  <2>3. ~readonly' /\ ~bare'
    BY <1>2, <1>4, Zenon
  <2>4. e.len = 0 /\ e.size = 2 * Block /\ e.limit = Block /\ e.alloc = 2 * Block
    BY <2>1
  <2>. HIDE DEF e
  <2>5. /\ f' \in File /\ free' \in Nat /\ lost' \in BOOLEAN
        /\ f'.size = e.size /\ f'.limit = e.limit
        /\ e.alloc <= f'.alloc /\ f'.len <= f'.alloc
        /\ f'.len <= e.len + n
        /\ f'.alloc = e.alloc \/ f'.alloc = f'.len
        /\ ~lost /\ (bare' \/ e.len + n <= e.alloc) => ~lost'
    BY <1>3, <2>2, <2>4, WrittenFile
  <2>6. f'.len \in Nat /\ f'.alloc \in Nat /\ flight' \in Nat
    BY <2>5 DEF File
  <2>7. TypeOK'
    BY <1>3, <2>4, <2>5, <2>6 DEF TypeOK, File
  <2>8. Room'
    BY <2>3, <2>4, <2>5, <2>6 DEF Room, Growth
  <2>. QED BY <2>4, <2>5, <2>7, <2>8 DEF RecordsKept
<1>5. CASE ~CanGrow(NewFile)
  <2>1. /\ f' = [len |-> 0, size |-> 0, limit |-> 0, alloc |-> free]
        /\ free' = 0 /\ lost' = lost
    BY <1>5 DEF RollOver, Extended, NewFile
  <2>2. readonly' /\ bare'
    BY <1>2, <1>5, Zenon
  <2>3. free < 2 * Block
    BY <1>1, <1>5 DEF CanGrow
  <2>4. TypeOK'
    BY <1>3, <2>1 DEF TypeOK
  <2>5. Room'
    BY <2>1, <2>2, <2>3 DEF Room, Growth
  <2>. QED BY <2>1, <2>4, <2>5 DEF RecordsKept
<1>. QED BY <1>4, <1>5

(* Leaving readonly mode, or failing to, without a record.                    *)
LEMMA StateSaveToDiskKeeps ==
  ASSUME Reserve, IInv, StateSaveToDisk
  PROVE  IInv'
<1>. USE Numbers, Blocks DEF IInv
<1>1. f.alloc <= f.size + Growth(f)
  BY DEF Room
<1>2. /\ f' \in File /\ free' \in Nat /\ f'.len = f.len
      /\ f.alloc <= f'.alloc /\ f'.size <= f'.alloc /\ f'.alloc <= f'.size + Growth(f')
      /\ CanGrow(f) => /\ f'.size = f'.limit + Block
                       /\ f'.limit = f.size \/ (f.limit = 0 /\ f'.limit = f.size + Block)
      /\ ~CanGrow(f) => f'.size = f.size /\ f'.limit = f.limit
  BY <1>1, ExtendedFile DEF StateSaveToDisk
<1>3. /\ readonly /\ readonly' = ~CanGrow(f) /\ flight' = flight /\ lost' = lost
      /\ bare' = (bare /\ ~(CanGrow(f) /\ f.len < f'.limit))
  BY DEF StateSaveToDisk, StillBare
<1>4. readonly' \in BOOLEAN /\ bare' \in BOOLEAN
  BY <1>3, Zenon
<1>5. f'.limit \in Nat /\ f'.size \in Nat /\ f'.alloc \in Nat
  BY <1>2 DEF File
<1>6. TypeOK'
  BY <1>2, <1>3, <1>4, <1>5 DEF TypeOK, File
<1>7. CASE CanGrow(f)
  <2>1. ~readonly' /\ bare' = (bare /\ ~(f.len < f'.limit))
    BY <1>3, <1>7, Zenon
  <2>2. Room'
    BY <1>2, <1>3, <1>5, <1>7, <2>1 DEF Room
  <2>. QED BY <1>3, <1>6, <2>2 DEF RecordsKept
<1>8. CASE ~CanGrow(f)
  <2>1. readonly' /\ bare' = bare
    BY <1>3, <1>4, <1>8, Zenon
  <2>2. Room'
    BY <1>2, <1>3, <1>5, <1>8, <2>1 DEF Room
  <2>. QED BY <1>3, <1>6, <2>2 DEF RecordsKept
<1>. QED BY <1>7, <1>8

(* openStateFile on the journal that is there.                                *)
LEMMA RestartKeeps ==
  ASSUME Reserve, IInv, Restart
  PROVE  IInv'
<1>. USE Numbers, Blocks DEF IInv
<1>. DEFINE g == Reopened
<1>. DEFINE limit == IF f.alloc > Block THEN f.alloc - Block ELSE f.len
<1>0. g = [f EXCEPT !.size = f.alloc, !.limit = limit]
  BY DEF Reopened
<1>. HIDE DEF limit
<1>1. g = [len |-> f.len, size |-> f.alloc, limit |-> limit, alloc |-> f.alloc]
  BY <1>0 DEF File
<1>2. /\ g \in File /\ g.len = f.len /\ g.size = f.alloc /\ g.alloc = f.alloc
      /\ g.limit \in Nat
      /\ f.alloc > Block => g.limit = f.alloc - Block
      /\ ~(f.alloc > Block) => g.limit = f.len
  BY <1>1 DEF File, limit
<1>3. flight' = flight /\ lost' = lost
  BY DEF Restart
<1>4. ~bare => f.alloc > Block /\ f.limit <= g.limit
  BY <1>2 DEF Room
<1>5. g.alloc <= g.size + Growth(g)
  BY <1>2
<1>6. CASE ~(g.size = 0 \/ g.len >= g.limit)
  <2>1. f' = g /\ ~readonly' /\ readonly' \in BOOLEAN /\ bare' = bare /\ free' = free
    BY <1>6 DEF Restart
  <2>2. TypeOK'
    BY <1>2, <1>3, <2>1 DEF TypeOK, File
  <2>3. f'.limit = f.alloc - Block /\ f.len < f'.limit /\ f.alloc > Block
    BY <1>2, <1>6, <2>1
  <2>. HIDE DEF g
  <2>4. Room'
    BY <1>2, <1>3, <1>5, <2>1, <2>3 DEF Room
  <2>. QED BY <1>3, <2>2, <2>4 DEF RecordsKept
<1>7. CASE g.size = 0 \/ g.len >= g.limit
  <2>1. /\ f' = Extended(g) /\ free' = Left(g) /\ readonly' = ~CanGrow(g)
        /\ bare' = (bare /\ ~(CanGrow(g) /\ g.len < f'.limit))
    <3>1. /\ f' = Extended(g) /\ free' = Left(g) /\ readonly' = ~CanGrow(g)
          /\ bare' = StillBare(g)
      <4>1. ~(g.size # 0 /\ g.len < g.limit)
        BY <1>2, <1>7
      <4>. QED BY <4>1, Zenon DEF Restart
    <3>. HIDE DEF g
    <3>. QED BY <3>1, Zenon DEF StillBare
  <2>2. readonly' \in BOOLEAN /\ bare' \in BOOLEAN
    BY <2>1, Zenon
  <2>. HIDE DEF g
  <2>3. /\ f' \in File /\ free' \in Nat /\ f'.len = g.len
        /\ g.alloc <= f'.alloc /\ f'.size <= f'.alloc /\ f'.alloc <= f'.size + Growth(f')
        /\ CanGrow(g) => /\ f'.size = f'.limit + Block
                         /\ f'.limit = g.size \/ (g.limit = 0 /\ f'.limit = g.size + Block)
        /\ ~CanGrow(g) => f'.size = g.size /\ f'.limit = g.limit
    BY <1>2, <1>5, <2>1, ExtendedFile
  <2>4. f'.limit \in Nat /\ f'.size \in Nat /\ f'.alloc \in Nat
    BY <2>3 DEF File
  <2>5. TypeOK'
    BY <1>2, <1>3, <2>2, <2>3, <2>4 DEF TypeOK, File
  <2>6. CASE CanGrow(g)
    <3>1. ~readonly' /\ bare' = (bare /\ ~(g.len < f'.limit))
      BY <2>1, <2>6, Zenon
    <3>2. Room'
      BY <1>2, <1>3, <1>4, <2>3, <2>4, <2>6, <3>1 DEF Room
    <3>. QED BY <1>3, <2>5, <3>2 DEF RecordsKept
  <2>7. CASE ~CanGrow(g)
    <3>1. readonly' /\ bare' = bare
      BY <2>1, <2>2, <2>7, Zenon
    <3>2. Room'
      BY <1>2, <1>3, <1>4, <2>3, <2>4, <2>7, <3>1 DEF Room
    <3>. QED BY <1>3, <2>5, <3>2 DEF RecordsKept
  <2>. QED BY <2>6, <2>7
<1>. QED BY <1>6, <1>7

(* No record is lost or cut short, for every block size that holds the        *)
(* largest record of a client and the records agents may still send           *)
(* (stateSaveCmd, extendJournal, openStateFile); TypeOK and Room are the      *)
(* strengthening that makes it inductive.                                     *)
THEOREM RecordsSafe == Reserve => (Spec => []RecordsKept)
<1>. SUFFICES ASSUME Reserve PROVE Spec => []RecordsKept
  OBVIOUS
<1>1. Init => IInv
  <2>. SUFFICES ASSUME Init PROVE IInv
    OBVIOUS
  <2>1. Block \in Nat /\ Block >= 1 /\ MaxFlight \in Nat /\ MaxFlight <= Block /\ Disk \in Nat
    BY DEF Reserve
  <2>2. /\ f = [len |-> 0, size |-> 2 * Block, limit |-> Block, alloc |-> 2 * Block]
        /\ free \in 0..Disk /\ readonly = FALSE /\ flight = 0 /\ bare = FALSE /\ lost = FALSE
    BY DEF Init
  <2>3. Growth(f) \in Nat
    BY <2>1 DEF Growth
  <2>4. f.len = 0 /\ f.size = 2 * Block /\ f.limit = Block /\ f.alloc = 2 * Block
    BY <2>2
  <2>5. TypeOK
    <3>1. f \in File
      BY <2>1, <2>2 DEF File
    <3>2. {readonly, bare, lost} \subseteq BOOLEAN
      BY <2>2
    <3>3. free \in Nat /\ flight \in 0..MaxFlight /\ f.len <= f.alloc /\ f.size <= f.alloc
      BY <2>1, <2>2, <2>4
    <3>. QED BY <3>1, <3>2, <3>3 DEF TypeOK, File
  <2>6. Room
    BY <2>1, <2>2, <2>3, <2>4 DEF Room
  <2>. QED BY <2>2, <2>5, <2>6 DEF IInv, RecordsKept
<1>2. IInv /\ [Next]_vars => IInv'
  <2>. SUFFICES ASSUME IInv, [Next]_vars PROVE IInv'
    OBVIOUS
  <2>. USE Numbers
  <2>0. TypeOK
    BY DEF IInv
  <2>1. ASSUME NEW n \in Sizes, ClientCommand(n) PROVE IInv'
    <3>1. n \in Nat /\ 1 <= n /\ n + MaxFlight <= Block
      BY DEF Reserve
    <3>2. ~readonly /\ flight' = flight /\ flight' \in 0..MaxFlight
      BY <2>0, <2>1 DEF ClientCommand, TypeOK
    <3>3. StateSaveCmd(n) \/ RollOver(n)
      BY <2>1 DEF ClientCommand, Save
    <3>. QED BY <3>1, <3>2, <3>3, SaveKeeps, RollOverKeeps
  <2>2. CASE StartJob
    BY <2>0, <2>2 DEF StartJob, IInv, TypeOK, Room, RecordsKept, Growth
  <2>3. CASE AgentCommand
    <3>1. 1 \in Nat /\ 1 <= 1 /\ 1 + MaxFlight <= Block
      BY <2>0
    <3>2. flight = flight' + 1 /\ flight' \in 0..MaxFlight
      BY <2>0, <2>3 DEF AgentCommand
    <3>3. StateSaveCmd(1) \/ RollOver(1)
      BY <2>3 DEF AgentCommand, Save
    <3>. QED BY <3>1, <3>2, <3>3, SaveKeeps, RollOverKeeps
  <2>4. CASE StateSaveToDisk
    BY <2>4, StateSaveToDiskKeeps
  <2>5. CASE Restart
    BY <2>5, RestartKeeps
  <2>6. CASE DiskChanges
    BY <2>0, <2>6 DEF DiskChanges, IInv, TypeOK, Room, RecordsKept, Growth, Reserve
  <2>7. CASE UNCHANGED vars
    BY <2>7 DEF vars, IInv, TypeOK, Room, RecordsKept, Growth
  <2>. QED BY <2>1, <2>2, <2>3, <2>4, <2>5, <2>6, <2>7 DEF Next
<1>3. IInv => RecordsKept
  BY DEF IInv
<1>. QED BY <1>1, <1>2, <1>3, PTL DEF Spec
=============================================================================
